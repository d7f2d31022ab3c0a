----------------------------- MODULE PipeProofs -----------------------------
(***************************************************************************)
(* Proofs of the properties of module Pipe: for any number of processes,   *)
(* files and descriptors, any size of the buffer and any width of the      *)
(* counters that is a multiple of it.                                      *)
(*                                                                         *)
(* Everything rests on the reference counts (RefsExact).  A process that   *)
(* reads or writes has a descriptor for its end (PlaceInv), so the file    *)
(* has a reference and the end is open (EndsOpen); there is only one file, *)
(* or one pipeclose() under way, for each end (OneEach).                   *)
(***************************************************************************)
EXTENDS Pipe, FiniteSetFacts, TLAPS

USE Zenon

Reading == {"piperead", "sleep_nread"}
Writing == {"pipewrite", "copyin", "sleep_nwrite"}

Desc(f) == {d \in Proc \X FD : proc[d[1]].ofile[d[2]] = f}

Locals(f) == {d \in Proc \X Local : proc[d[1]].f[d[2]] = f}

\* f is a file that pipealloc() of some process has got and not yet set up.
Fresh(f) == f \in File /\ file[f].ref = 1 /\ file[f].end = None

NoLocal(p) == \A k \in Local : proc[p].f[k] = None

\* What the place of a process says about what it refers to.
PlaceInv(p) ==
  /\ At(p, "unused") => proc[p] = NewProc
  /\ proc[p].pc \in Reading \cup Writing \cup {"user", "exit"} => NoLocal(p)
  /\ At(p, "pipealloc") => Fresh(proc[p].f[0]) /\ proc[p].f[1] = None
  /\ At(p, "kalloc") => /\ Fresh(proc[p].f[0]) /\ Fresh(proc[p].f[1])
                        /\ proc[p].f[0] # proc[p].f[1]
  /\ At(p, "fileclose") => ~NoLocal(p)
  /\ At(p, "pipeclose") => proc[p].end # None
  /\ proc[p].exiting => NoLocal(p) /\ proc[p].pc \in {"exit", "pipeclose"}
  /\ proc[p].pc \in Reading => \E fd \in FD : Opened(p, fd, "read")
  /\ proc[p].pc \in Writing => \E fd \in FD : Opened(p, fd, "write")

\* One file or one pipeclose() for each end of the pipe.
OneEach ==
  /\ \A f \in File : file[f].ref = 0 => file[f].end = None
  /\ \A f, g \in File : file[f].end # None /\ f # g => file[f].end # file[g].end
  /\ \A p, q \in Proc : At(p, "pipeclose") /\ At(q, "pipeclose") /\ p # q =>
       proc[p].end # proc[q].end
  /\ \A p \in Proc, f \in File : At(p, "pipeclose") => proc[p].end # file[f].end

FilesInv == RefsExact /\ OneEach /\ EndsOpen /\ \A p \in Proc : PlaceInv(p)

\* pi->lock is held by the process in the loop of pipewrite().
LockInv == \A p \in Proc : At(p, "copyin") <=> lock = p

\* The writer that holds the lock has stored bytes that it will announce.
Storing == lock # None /\ proc[lock].i > 0

SleepInv ==
  /\ \A p \in Proc :
       /\ At(p, "sleep_nwrite") => Full /\ pi.readopen
       /\ At(p, "sleep_nread") => pi.writeopen /\ (Empty \/ cut \/ Storing)
  /\ NoMutualSleep

PipeInv == TypeOK /\ FilesInv /\ LockInv /\ SleepInv

-----------------------------------------------------------------------------
(* The counters of the pipe                                                *)

PiRec ==
  [data: [0..(PIPESIZE - 1) -> Byte \cup {None}], nread: 0..(UINT - 1),
   nwrite: 0..(UINT - 1), readopen: BOOLEAN, writeopen: BOOLEAN]

LEMMA Wrap ==
  ASSUME NEW x \in Nat, x < 2 * UINT
  PROVE  x % UINT = IF x < UINT THEN x ELSE x - UINT
<1>1. UINT \in Nat \ {0}
  BY SMT, PipeAssumption
<1>2. x = UINT * (x \div UINT) + (x % UINT) /\ x % UINT \in 0..(UINT - 1) /\ x \div UINT \in Int
  BY SMT, <1>1
<1>3. PICK q \in Int, r \in 0..(UINT - 1) : x = UINT * q + r /\ r = x % UINT
  BY <1>2
<1>4. CASE q >= 2
  <2>1. UINT * q >= UINT * 2
    BY SMT, <1>1, <1>4
  <2> QED
    BY SMT, <1>1, <1>3, <2>1
<1>5. CASE q <= -1
  <2>1. UINT * q <= UINT * (-1)
    BY SMT, <1>1, <1>5
  <2> QED
    BY SMT, <1>1, <1>3, <2>1
<1>6. CASE q = 0
  BY SMT, <1>1, <1>3, <1>6
<1>7. CASE q = 1
  BY SMT, <1>1, <1>3, <1>7
<1> QED
  BY SMT, <1>3, <1>4, <1>5, <1>6, <1>7

\* Used counts the bytes between nread and nwrite, also around the wrap.
LEMMA UsedFacts ==
  ASSUME pi \in PiRec
  PROVE  /\ Used = IF pi.nread <= pi.nwrite THEN pi.nwrite - pi.nread
                   ELSE pi.nwrite - pi.nread + UINT
         /\ Used \in Nat /\ Used < UINT
         /\ Empty <=> Used = 0
         /\ Full <=> Used = PIPESIZE
<1>1. /\ pi.nread \in 0..(UINT - 1) /\ pi.nwrite \in 0..(UINT - 1)
      /\ UINT \in Nat /\ PIPESIZE \in Nat /\ PIPESIZE < UINT /\ PIPESIZE > 0
  BY SMT, PipeAssumption DEF PiRec
<1>2. Used = IF pi.nwrite + UINT - pi.nread < UINT THEN pi.nwrite + UINT - pi.nread
             ELSE pi.nwrite + UINT - pi.nread - UINT
  <2>1. PICK x \in Nat : x = pi.nwrite + UINT - pi.nread /\ x < 2 * UINT
    BY SMT, <1>1
  <2>2. x % UINT = IF x < UINT THEN x ELSE x - UINT
    BY <2>1, Wrap
  <2> QED
    BY SMT, <1>1, <2>1, <2>2 DEF Used
<1>3. (pi.nread + PIPESIZE) % UINT = IF pi.nread + PIPESIZE < UINT THEN pi.nread + PIPESIZE
                                     ELSE pi.nread + PIPESIZE - UINT
  <2>1. PICK x \in Nat : x = pi.nread + PIPESIZE /\ x < 2 * UINT
    BY SMT, <1>1
  <2>2. x % UINT = IF x < UINT THEN x ELSE x - UINT
    BY <2>1, Wrap
  <2> QED
    BY SMT, <1>1, <2>1, <2>2
<1>4. Full <=> pi.nwrite = IF pi.nread + PIPESIZE < UINT THEN pi.nread + PIPESIZE
                           ELSE pi.nread + PIPESIZE - UINT
  BY SMT, <1>3 DEF Full
<1>5. Empty <=> pi.nread = pi.nwrite
  BY DEF Empty
<1> QED
  BY SMT, <1>1, <1>2, <1>4, <1>5

\* Storing a byte takes one place, taking k bytes frees k places.
LEMMA UsedStep ==
  ASSUME pi \in PiRec, pi' \in PiRec, Used <= PIPESIZE
  PROVE  /\ ~Full /\ pi'.nread = pi.nread /\ pi'.nwrite = (pi.nwrite + 1) % UINT =>
              Used' = Used + 1
         /\ \A k \in Nat : k <= Used /\ pi'.nwrite = pi.nwrite
                            /\ pi'.nread = (pi.nread + k) % UINT => Used' = Used - k
<1>1. /\ pi.nread \in 0..(UINT - 1) /\ pi.nwrite \in 0..(UINT - 1)
      /\ UINT \in Nat /\ PIPESIZE \in Nat /\ PIPESIZE < UINT /\ PIPESIZE > 0
  BY SMT, PipeAssumption DEF PiRec
<1>2. /\ Used = IF pi.nread <= pi.nwrite THEN pi.nwrite - pi.nread
                ELSE pi.nwrite - pi.nread + UINT
      /\ Used \in Nat /\ Used < UINT /\ (Full <=> Used = PIPESIZE)
  BY UsedFacts
<1>3. Used' = IF pi'.nread <= pi'.nwrite THEN pi'.nwrite - pi'.nread
              ELSE pi'.nwrite - pi'.nread + UINT
  <2>1. pi \in PiRec => Used = IF pi.nread <= pi.nwrite THEN pi.nwrite - pi.nread
                ELSE pi.nwrite - pi.nread + UINT
    BY UsedFacts
  <2>2. (pi \in PiRec => Used = IF pi.nread <= pi.nwrite THEN pi.nwrite - pi.nread
                ELSE pi.nwrite - pi.nread + UINT)'
    BY UsedFacts, PTL
  <2> QED
    BY <2>2
<1>4. ASSUME ~Full, pi'.nread = pi.nread, pi'.nwrite = (pi.nwrite + 1) % UINT
      PROVE  Used' = Used + 1
  <2>1. pi'.nwrite = IF pi.nwrite + 1 < UINT THEN pi.nwrite + 1 ELSE pi.nwrite + 1 - UINT
    BY SMT, <1>1, <1>4, Wrap
  <2>2. Used < PIPESIZE /\ pi'.nread = pi.nread
    BY SMT, <1>1, <1>2, <1>4
  <2> QED
    BY SMT, <1>1, <1>2, <1>3, <2>1, <2>2
<1>5. ASSUME NEW k \in Nat, k <= Used, pi'.nwrite = pi.nwrite,
             pi'.nread = (pi.nread + k) % UINT
      PROVE  Used' = Used - k
  <2>1. pi'.nread = IF pi.nread + k < UINT THEN pi.nread + k ELSE pi.nread + k - UINT
    <3>1. PICK x \in Nat : x = pi.nread + k /\ x < 2 * UINT
      BY SMT, <1>1, <1>2, <1>5
    <3>2. x % UINT = IF x < UINT THEN x ELSE x - UINT
      BY <3>1, Wrap
    <3> QED
      BY SMT, <1>1, <1>5, <3>1, <3>2
  <2>2. k \in Nat /\ k <= Used /\ pi'.nwrite = pi.nwrite
    BY <1>5
  <2> QED
    BY SMT, <1>1, <1>2, <1>3, <2>1, <2>2
<1> QED
  BY <1>4, <1>5

-----------------------------------------------------------------------------
(* The records of the processes                                            *)

LEMMA NewProcFacts ==
  /\ NewProc \in ProcRec
  /\ NewProc.pc = "unused" /\ NewProc.end = None /\ NewProc.exiting = FALSE
  /\ NewProc.i = 0 /\ NewProc.killed = FALSE
  /\ \A fd \in FD : NewProc.ofile[fd] = None
  /\ \A k \in Local : NewProc.f[k] = None
  /\ NewProc.f \in [Local -> File \cup {None}]
BY DEF NewProc, ProcRec, Pc, End

LEMMA ReturnFacts ==
  ASSUME NEW r \in ProcRec
  PROVE  /\ Return(r) \in ProcRec
         /\ Return(r).pc = "user" /\ Return(r).ofile = r.ofile /\ Return(r).f = r.f
         /\ Return(r).end = None /\ Return(r).exiting = r.exiting /\ Return(r).i = 0
         /\ Return(r).killed = r.killed
BY DEF Return, ProcRec, Pc, End

LEMMA ClosedFacts ==
  ASSUME NEW r \in ProcRec
  PROVE  /\ Closed(r) \in ProcRec
         /\ Closed(r).ofile = r.ofile /\ Closed(r).f = r.f
         /\ IF \E k \in Local : r.f[k] # None
            THEN Closed(r).pc = "fileclose" /\ Closed(r).exiting = r.exiting
            ELSE \/ ~r.exiting /\ ~Closed(r).exiting /\ Closed(r).pc = "user"
                 \/ r.exiting /\ Closed(r).exiting /\ Closed(r).pc = "exit"
                 \/ r.exiting /\ Closed(r) = NewProc
<1>1. CASE \E k \in Local : r.f[k] # None
  <2> DEFINE t == [r EXCEPT !.pc = "fileclose", !.end = None]
  <2>1. Closed(r) = t
    BY <1>1 DEF Closed
  <2>2. /\ t \in ProcRec /\ t.ofile = r.ofile /\ t.f = r.f /\ t.pc = "fileclose"
        /\ t.exiting = r.exiting
    BY DEF ProcRec, Pc, End
  <2> QED
    BY <1>1, <2>1, <2>2
<1>2. CASE ~(\E k \in Local : r.f[k] # None) /\ ~r.exiting
  <2>1. Closed(r) = Return(r)
    BY <1>2 DEF Closed
  <2> QED
    BY SMT, <1>2, <2>1, ReturnFacts
<1>3. CASE ~(\E k \in Local : r.f[k] # None) /\ r.exiting /\ \E fd \in FD : r.ofile[fd] # None
  <2> DEFINE t == [r EXCEPT !.pc = "exit", !.end = None]
  <2>1. Closed(r) = t
    BY <1>3 DEF Closed
  <2>2. /\ t \in ProcRec /\ t.ofile = r.ofile /\ t.f = r.f /\ t.pc = "exit"
        /\ t.exiting = r.exiting
    BY DEF ProcRec, Pc, End
  <2> QED
    BY <1>3, <2>1, <2>2
<1>4. CASE /\ ~(\E k \in Local : r.f[k] # None) /\ r.exiting
           /\ ~\E fd \in FD : r.ofile[fd] # None
  <2>1. Closed(r) = NewProc
    BY <1>4 DEF Closed
  <2>2. r.ofile \in [FD -> File \cup {None}] /\ r.f \in [Local -> File \cup {None}]
    BY DEF ProcRec
  <2>3. r.ofile = [fd \in FD |-> None] /\ r.f = [k \in Local |-> None]
    BY <1>4, <2>2
  <2>4. NewProc.ofile = r.ofile /\ NewProc.f = r.f
    BY <2>3 DEF NewProc
  <2> QED
    BY <1>4, <2>1, <2>4, NewProcFacts
<1> QED
  BY <1>1, <1>2, <1>3, <1>4

\* The record of a process that is woken differs in its pc.
LEMMA WokenFacts ==
  ASSUME NEW r \in ProcRec
  PROVE  /\ Woken(r) \in ProcRec
         /\ Woken(r).ofile = r.ofile /\ Woken(r).f = r.f /\ Woken(r).end = r.end
         /\ Woken(r).exiting = r.exiting /\ Woken(r).i = r.i
         /\ Woken(r).killed = r.killed
         /\ Woken(r).pc = IF r.pc = "sleep_nread" THEN "piperead"
                          ELSE IF r.pc = "sleep_nwrite" THEN "pipewrite" ELSE r.pc
         /\ r.pc \notin {"sleep_nread", "sleep_nwrite"} => Woken(r) = r
<1>1. CASE r.pc = "sleep_nread"
  <2>1. Woken(r) = [r EXCEPT !.pc = "piperead"]
    BY <1>1 DEF Woken, Goto
  <2> QED
    BY <1>1, <2>1 DEF ProcRec, Pc
<1>2. CASE r.pc = "sleep_nwrite"
  <2>1. Woken(r) = [r EXCEPT !.pc = "pipewrite"]
    BY <1>2 DEF Woken, Goto
  <2> QED
    BY <1>2, <2>1 DEF ProcRec, Pc
<1>3. CASE r.pc \notin {"sleep_nread", "sleep_nwrite"}
  <2>1. Woken(r) = r
    BY <1>3 DEF Woken
  <2> QED
    BY <1>3, <2>1
<1> QED
  BY <1>1, <1>2, <1>3

\* What a step leaves of a process that does not take it.
Same(q) ==
  /\ proc'[q].ofile = proc[q].ofile /\ proc'[q].f = proc[q].f
  /\ proc'[q].end = proc[q].end /\ proc'[q].exiting = proc[q].exiting
  /\ proc'[q].i = proc[q].i
  /\ \/ proc'[q].pc = proc[q].pc
     \/ proc[q].pc = "sleep_nread" /\ proc'[q].pc = "piperead"
     \/ proc[q].pc = "sleep_nwrite" /\ proc'[q].pc = "pipewrite"
  /\ proc[q].pc = "unused" => proc'[q] = proc[q]

Others(p) == \A q \in Proc : q # p => Same(q)

\* A step that changes the record of p and then calls wakeup().
LEMMA WakeupFacts ==
  ASSUME proc \in [Proc -> ProcRec], NEW p \in Proc, NEW t \in ProcRec,
         NEW s \in {"sleep_nread", "sleep_nwrite"}, t.pc # s,
         NEW ps \in [Proc -> ProcRec], ps[p] = t, \A q \in Proc : q # p => ps[q] = proc[q],
         proc' = Wakeup(ps, s)
  PROVE  /\ proc' \in [Proc -> ProcRec] /\ proc'[p] = t /\ Others(p)
         /\ \A q \in Proc : proc'[q].pc # s
         /\ \A q \in Proc : q # p =>
              \/ proc'[q] = proc[q]
              \/ proc[q].pc = s /\ proc'[q] = Woken(proc[q])
<1>1. ps \in [Proc -> ProcRec] /\ ps[p] = t /\ \A q \in Proc : q # p => ps[q] = proc[q]
  OBVIOUS
<1>2. proc' = [q \in Proc |-> IF ps[q].pc = s THEN Woken(ps[q]) ELSE ps[q]]
  BY DEF Wakeup
<1>3. \A q \in Proc : proc'[q] = IF ps[q].pc = s THEN Woken(ps[q]) ELSE ps[q]
  BY <1>2
<1>4. ASSUME NEW q \in Proc PROVE proc'[q] \in ProcRec /\ proc'[q].pc # s
  <2>1. PICK r \in ProcRec : r = ps[q]
    BY <1>1
  <2>2. proc'[q] = IF r.pc = s THEN Woken(r) ELSE r
    BY <1>3, <2>1
  <2>3. Woken(r) \in ProcRec /\ (r.pc = s => Woken(r).pc # s)
    <3>1. Woken(r).pc = IF r.pc = "sleep_nread" THEN "piperead"
                        ELSE IF r.pc = "sleep_nwrite" THEN "pipewrite" ELSE r.pc
      BY WokenFacts
    <3> QED
      BY <3>1, WokenFacts
  <2> QED
    BY <2>2, <2>3
<1>5. proc' \in [Proc -> ProcRec]
  BY <1>2, <1>3, <1>4
<1>6. proc'[p] = t
  BY <1>1, <1>3
<1>7. ASSUME NEW q \in Proc, q # p
      PROVE  /\ Same(q)
             /\ \/ proc'[q] = proc[q]
                \/ proc[q].pc = s /\ proc'[q] = Woken(proc[q])
  <2>1. ps[q] = proc[q] /\ proc[q] \in ProcRec
    BY <1>1, <1>7
  <2>2. proc'[q] = IF proc[q].pc = s THEN Woken(proc[q]) ELSE proc[q]
    BY <1>3, <2>1
  <2>3. CASE proc[q].pc = s
    <3>1. PICK r \in ProcRec : r = proc[q]
      BY <2>1
    <3>2. /\ Woken(r).ofile = r.ofile /\ Woken(r).f = r.f /\ Woken(r).end = r.end
          /\ Woken(r).exiting = r.exiting /\ Woken(r).i = r.i
          /\ Woken(r).pc = IF r.pc = "sleep_nread" THEN "piperead"
                          ELSE IF r.pc = "sleep_nwrite" THEN "pipewrite" ELSE r.pc
      BY WokenFacts
    <3>3. proc'[q] = Woken(r)
      BY <2>2, <2>3, <3>1
    <3> QED
      BY <2>3, <3>1, <3>2, <3>3 DEF Same
  <2>4. CASE proc[q].pc # s
    BY <2>2, <2>4 DEF Same
  <2> QED
    BY <2>3, <2>4
<1> QED
  BY <1>4, <1>5, <1>6, <1>7 DEF Others

\* A step that changes the record of p only.
LEMMA OneProc ==
  ASSUME proc \in [Proc -> ProcRec], NEW p \in Proc, NEW t \in ProcRec,
         proc' = [proc EXCEPT ![p] = t]
  PROVE  proc' \in [Proc -> ProcRec] /\ proc'[p] = t /\ Others(p)
         /\ \A q \in Proc : q # p => proc'[q] = proc[q]
BY DEF Others, Same

-----------------------------------------------------------------------------
(* Counting the pointers to a file                                         *)

-----------------------------------------------------------------------------
(* Finite sets.  CardinalityFacts, which the lemmas on reference counts    *)
(* assume, is proved from the library before the theorems at the end.      *)

LEMMA CF_Type ==
  ASSUME CardinalityFacts, NEW S, IsFiniteSet(S)
  PROVE  Cardinality(S) \in Nat /\ (Cardinality(S) = 0 <=> S = {})
  BY DEF CardinalityFacts

LEMMA CF_Empty ==
  ASSUME CardinalityFacts
  PROVE  IsFiniteSet({}) /\ Cardinality({}) = 0
  BY DEF CardinalityFacts

LEMMA CF_Singleton ==
  ASSUME CardinalityFacts, NEW x
  PROVE  IsFiniteSet({x}) /\ Cardinality({x}) = 1
  BY DEF CardinalityFacts

LEMMA CF_Interval ==
  ASSUME CardinalityFacts, NEW a \in Int, NEW b \in Int
  PROVE  IsFiniteSet(a .. b)
  BY DEF CardinalityFacts

LEMMA CF_Add ==
  ASSUME CardinalityFacts, NEW S, NEW x, IsFiniteSet(S)
  PROVE  /\ IsFiniteSet(S \cup {x})
         /\ Cardinality(S \cup {x}) = IF x \in S THEN Cardinality(S) ELSE Cardinality(S) + 1
  BY DEF CardinalityFacts, WithElement

LEMMA CF_Remove ==
  ASSUME CardinalityFacts, NEW S, NEW x, IsFiniteSet(S)
  PROVE  /\ IsFiniteSet(S \ {x})
         /\ Cardinality(S \ {x}) = IF x \in S THEN Cardinality(S) - 1 ELSE Cardinality(S)
  BY DEF CardinalityFacts, WithoutElement

LEMMA CF_Subset ==
  ASSUME CardinalityFacts, NEW S, IsFiniteSet(S), NEW T \in SUBSET S
  PROVE  IsFiniteSet(T) /\ Cardinality(T) <= Cardinality(S)
  BY DEF CardinalityFacts

LEMMA CF_Product ==
  ASSUME CardinalityFacts, NEW S, IsFiniteSet(S), NEW T, IsFiniteSet(T)
  PROVE  IsFiniteSet(S \X T) /\ Cardinality(S \X T) = Cardinality(S) * Cardinality(T)
  BY DEF CardinalityFacts

LEMMA CF_Union ==
  ASSUME CardinalityFacts, NEW S, IsFiniteSet(S), NEW T, IsFiniteSet(T)
  PROVE  /\ IsFiniteSet(S \cup T)
         /\ Cardinality(S \cup T) = Cardinality(S) + Cardinality(T) - Cardinality(S \cap T)
  BY DEF CardinalityFacts

LEMMA PointersFinite ==
  ASSUME CardinalityFacts, NEW S, S \subseteq Proc \X FD \/ S \subseteq Proc \X Local
  PROVE  IsFiniteSet(S) /\ Cardinality(S) \in Nat
<1>1. IsFiniteSet(FD) /\ IsFiniteSet(0..1) /\ IsFiniteSet(Proc)
  <2>1. NOFILE \in Int /\ 0 \in Int /\ 1 \in Int /\ IsFiniteSet(Proc)
    BY SMT, PipeAssumption
  <2>2. IsFiniteSet(1..NOFILE) /\ IsFiniteSet(0..1)
    BY <2>1, CF_Interval
  <2> QED
    BY <2>1, <2>2 DEF FD
<1>2. Local = 0..1
  BY SMT DEF Local
<1>3. IsFiniteSet(Proc \X FD) /\ IsFiniteSet(Proc \X Local)
  BY <1>1, <1>2, CF_Product
<1>4. S \in SUBSET (Proc \X FD) \/ S \in SUBSET (Proc \X Local)
  OBVIOUS
<1>5. IsFiniteSet(S)
  BY <1>3, <1>4, CF_Subset
<1> QED
  BY <1>5, CF_Type

LEMMA CardOne ==
  ASSUME CardinalityFacts, NEW S, IsFiniteSet(S), NEW x \in S
  PROVE  Cardinality(S) >= 1
<1>1. Cardinality(S) \in Nat /\ Cardinality(S) # 0
  BY CF_Type, CF_Empty
<1> QED
  BY SMT, <1>1

LEMMA CardTwo ==
  ASSUME CardinalityFacts, NEW S, IsFiniteSet(S), NEW x \in S, NEW y \in S, x # y
  PROVE  Cardinality(S) >= 2
<1>1. IsFiniteSet(S \ {x}) /\ Cardinality(S \ {x}) = Cardinality(S) - 1
  BY CF_Remove
<1>2. Cardinality(S \ {x}) >= 1
  BY <1>1, CardOne
<1>3. Cardinality(S) \in Nat
  BY CF_Type
<1> QED
  BY SMT, <1>1, <1>2, <1>3

LEMMA RefsFacts ==
  ASSUME CardinalityFacts, RefsExact, NEW f \in File
  PROVE  /\ file[f].ref = Cardinality(Desc(f)) + Cardinality(Locals(f))
         /\ IsFiniteSet(Desc(f)) /\ Cardinality(Desc(f)) \in Nat
         /\ IsFiniteSet(Locals(f)) /\ Cardinality(Locals(f)) \in Nat
<1>1. Desc(f) \subseteq Proc \X FD /\ Locals(f) \subseteq Proc \X Local
  BY DEF Desc, Locals
<1> QED
  BY <1>1, PointersFinite DEF RefsExact, Desc, Locals

\* p has a pointer to f.
Points(p, f) ==
  \/ \E fd \in FD : proc[p].ofile[fd] = f
  \/ \E k \in Local : proc[p].f[k] = f

LEMMA PointsIn ==
  ASSUME NEW p \in Proc, NEW f \in File, Points(p, f)
  PROVE  \/ \E fd \in FD : <<p, fd>> \in Desc(f)
         \/ \E k \in Local : <<p, k>> \in Locals(f)
BY DEF Points, Desc, Locals

LEMMA PointsCounted ==
  ASSUME CardinalityFacts, RefsExact, NEW p \in Proc, NEW f \in File, Points(p, f)
  PROVE  file[f].ref >= 1
<1>1. (\E x : x \in Desc(f)) \/ (\E x : x \in Locals(f))
  BY PointsIn
<1>2. Cardinality(Desc(f)) >= 1 \/ Cardinality(Locals(f)) >= 1
  BY <1>1, RefsFacts, CardOne
<1> QED
  BY SMT, <1>2, RefsFacts

LEMMA SharedCounted ==
  ASSUME CardinalityFacts, RefsExact, NEW p \in Proc, NEW q \in Proc, p # q, NEW f \in File,
         Points(p, f), Points(q, f)
  PROVE  file[f].ref >= 2
<1>2. ASSUME NEW a \in FD, NEW b \in FD, <<p, a>> \in Desc(f), <<q, b>> \in Desc(f)
      PROVE  Cardinality(Desc(f)) >= 2
  <2>1. <<p, a>> # <<q, b>>
    OBVIOUS
  <2> QED
    BY <1>2, <2>1, RefsFacts, CardTwo
<1>3. ASSUME NEW a \in Local, NEW b \in Local, <<p, a>> \in Locals(f), <<q, b>> \in Locals(f)
      PROVE  Cardinality(Locals(f)) >= 2
  <2>1. <<p, a>> # <<q, b>>
    OBVIOUS
  <2> QED
    BY <1>3, <2>1, RefsFacts, CardTwo
<1>4. ASSUME NEW y \in Desc(f), NEW z \in Locals(f)
      PROVE  Cardinality(Desc(f)) >= 1 /\ Cardinality(Locals(f)) >= 1
  BY <1>4, RefsFacts, CardOne
<1>5. \/ Cardinality(Desc(f)) >= 2 \/ Cardinality(Locals(f)) >= 2
      \/ Cardinality(Desc(f)) >= 1 /\ Cardinality(Locals(f)) >= 1
  <2>1. CASE \E a \in FD : <<p, a>> \in Desc(f)
    BY <1>2, <1>4, <2>1, PointsIn
  <2>2. CASE \E a \in Local : <<p, a>> \in Locals(f)
    BY <1>3, <1>4, <2>2, PointsIn
  <2> QED
    BY <2>1, <2>2, PointsIn
<1> QED
  BY SMT, <1>5, RefsFacts

\* No pointers change.
LEMMA RefsSame ==
  ASSUME RefsExact,
         \A q \in Proc : proc'[q].ofile = proc[q].ofile,
         \A q \in Proc : proc'[q].f = proc[q].f,
         \A f \in File : file'[f].ref = file[f].ref
  PROVE  RefsExact'
<1>1. ASSUME NEW f \in File PROVE Desc(f)' = Desc(f) /\ Locals(f)' = Locals(f)
  BY DEF Desc, Locals
<1> QED
  BY <1>1 DEF RefsExact, Desc, Locals

\* The pointers to each file change as its count does.
LEMMA RefsChange ==
  ASSUME CardinalityFacts, RefsExact,
         \A f \in File : file'[f].ref - file[f].ref =
                           (Cardinality(Desc(f)') - Cardinality(Desc(f)))
                           + (Cardinality(Locals(f)') - Cardinality(Locals(f))),
         \A f \in File : file'[f].ref \in Nat
  PROVE  RefsExact'
<1>1. ASSUME NEW f \in File
      PROVE  file'[f].ref = Cardinality(Desc(f)') + Cardinality(Locals(f)')
  <2>1. Desc(f)' \subseteq Proc \X FD /\ Locals(f)' \subseteq Proc \X Local
    BY DEF Desc, Locals
  <2>2. Cardinality(Desc(f)') \in Nat /\ Cardinality(Locals(f)') \in Nat
    BY <2>1, PointersFinite
  <2>3. /\ file[f].ref = Cardinality(Desc(f)) + Cardinality(Locals(f))
        /\ Cardinality(Desc(f)) \in Nat /\ Cardinality(Locals(f)) \in Nat
    BY RefsFacts
  <2>4. file'[f].ref \in Nat
    OBVIOUS
  <2> QED
    BY SMT, <2>2, <2>3, <2>4
<1> QED
  BY <1>1 DEF RefsExact, Desc, Locals

-----------------------------------------------------------------------------
(* Files and ends                                                          *)

\* A process that does not take the step keeps its place.
LEMMA PlaceKept ==
  ASSUME NEW q \in Proc, PlaceInv(q), Same(q),
         \A k \in Local, f \in File : proc[q].f[k] = f /\ Fresh(f) => Fresh(f)',
         \A fd \in FD, f \in File : proc[q].ofile[fd] = f => file'[f].end = file[f].end
  PROVE  PlaceInv(q)'
<1>1. NoLocal(q)' <=> NoLocal(q)
  BY DEF NoLocal, Same
<1>2. ASSUME NEW k \in Local, Fresh(proc[q].f[k]) PROVE Fresh(proc[q].f[k])'
  <2>1. PICK f \in File : f = proc[q].f[k]
    BY <1>2 DEF Fresh
  <2>2. Fresh(f) /\ f = proc'[q].f[k]
    BY <1>2, <2>1 DEF Same, Fresh
  <2>3. Fresh(f)'
    BY <2>1, <2>2
  <2> QED
    BY <2>2, <2>3
<1>3. 0 \in Local /\ 1 \in Local
  BY DEF Local
<1>4. \A fd \in FD, e \in {"read", "write"} : Opened(q, fd, e) => Opened(q, fd, e)'
  BY DEF Opened, Same
<1>5. Same(q) /\ (At(q, "unused") => proc'[q] = proc[q])
  BY DEF Same, At
<1> QED
  BY <1>1, <1>2, <1>3, <1>4, <1>5 DEF PlaceInv, Same, At, Reading, Writing

\* Whose end is closed does not change.
LEMMA EndsSame ==
  ASSUME OneEach, EndsOpen, page' = page, pi'.readopen = pi.readopen,
         pi'.writeopen = pi.writeopen,
         \A f \in File : file'[f].end = file[f].end,
         \A f \in File : file[f].ref \in Nat,
         \A f \in File : file'[f].ref \in Nat,
         \A f \in File : file'[f].ref = 0 => file[f].end = None,
         \A q \in Proc : At(q, "pipeclose")' <=> At(q, "pipeclose"),
         \A q \in Proc : At(q, "pipeclose") => proc'[q].end = proc[q].end
  PROVE  OneEach' /\ EndsOpen'
<1>1. OneEach'
  BY SMT DEF OneEach
<1>2. ASSUME NEW e \in End \ {None}
      PROVE  /\ (\E f \in File : file'[f].ref > 0 /\ file'[f].end = e)
                  <=> (\E f \in File : file[f].ref > 0 /\ file[f].end = e)
             /\ (\E q \in Proc : At(q, "pipeclose")' /\ proc'[q].end = e)
                  <=> (\E q \in Proc : At(q, "pipeclose") /\ proc[q].end = e)
             /\ IsOpen(e)' <=> IsOpen(e)
  <2>1. \A f \in File : /\ file'[f].end = e => file'[f].ref > 0
                        /\ file[f].end = e => file[f].ref > 0
    BY SMT, <1>1 DEF OneEach
  <2> QED
    BY <2>1 DEF IsOpen
<1>3. EndsOpen'
  BY <1>2 DEF EndsOpen
<1> QED
  BY <1>1, <1>3

Calm == {"user"} \cup Reading \cup Writing

\* A step of p that touches no file and opens or closes no end.
LEMMA CalmStep ==
  ASSUME TypeOK, FilesInv, NEW p \in Proc, Others(p), file' = file, page' = page,
         pi'.readopen = pi.readopen, pi'.writeopen = pi.writeopen,
         proc'[p].ofile = proc[p].ofile, proc'[p].f = proc[p].f,
         \/ Same(p)
         \/ /\ proc[p].pc \in Calm \cup {"unused"} /\ proc'[p].pc \in Calm
            /\ ~proc'[p].exiting
            /\ proc'[p].pc \in Reading => \E fd \in FD : Opened(p, fd, "read")
            /\ proc'[p].pc \in Writing => \E fd \in FD : Opened(p, fd, "write")
         \/ proc[p].pc = "user" /\ proc'[p] = NewProc
         \/ /\ proc[p].pc \in {"pipealloc", "kalloc"} /\ proc'[p].pc = "fileclose"
            /\ proc'[p].exiting = proc[p].exiting
  PROVE  FilesInv'
<1>1. RefsExact'
  BY RefsSame DEF FilesInv, Others, Same
<1>2. \A q \in Proc : /\ At(q, "pipeclose")' <=> At(q, "pipeclose")
                      /\ At(q, "pipeclose") => proc'[q].end = proc[q].end
  BY SMT, NewProcFacts DEF Others, Same, At, Calm, Reading, Writing
<1>3. OneEach' /\ EndsOpen'
  <2>1. \A f \in File : file[f].ref \in Nat
    BY DEF TypeOK
  <2>2. \A f \in File : file'[f].ref = 0 => file[f].end = None
    BY DEF FilesInv, OneEach
  <2> QED
    BY <1>2, <2>1, <2>2, EndsSame DEF FilesInv
<1>5. ASSUME NEW q \in Proc, Same(q) PROVE PlaceInv(q)'
  BY <1>5, PlaceKept DEF FilesInv, Fresh
<1>6. PlaceInv(p)'
  <2>0. /\ PlaceInv(p) /\ (NoLocal(p)' <=> NoLocal(p))
        /\ \A fd \in FD, e \in End : Opened(p, fd, e)' <=> Opened(p, fd, e)
        /\ proc[p] \in ProcRec /\ None \notin File
    BY PipeAssumption DEF FilesInv, NoLocal, Opened, TypeOK
  <2>1. CASE Same(p)
    BY <1>5, <2>1
  <2>2. CASE /\ proc[p].pc \in Calm \cup {"unused"} /\ proc'[p].pc \in Calm
             /\ ~proc'[p].exiting
             /\ proc'[p].pc \in Reading => \E fd \in FD : Opened(p, fd, "read")
             /\ proc'[p].pc \in Writing => \E fd \in FD : Opened(p, fd, "write")
    <3>1. NoLocal(p)
      BY <2>0, <2>2, NewProcFacts DEF PlaceInv, Calm, At, NoLocal
    <3>2. "read" \in End /\ "write" \in End
      BY DEF End
    <3> QED
      BY <2>0, <2>2, <3>1, <3>2 DEF PlaceInv, Calm, At, Reading, Writing
  <2>3. CASE proc[p].pc = "user" /\ proc'[p] = NewProc
    BY <2>3, NewProcFacts DEF PlaceInv, At, Reading, Writing
  <2>4. CASE /\ proc[p].pc \in {"pipealloc", "kalloc"} /\ proc'[p].pc = "fileclose"
             /\ proc'[p].exiting = proc[p].exiting
    <3>1. Fresh(proc[p].f[0])
      BY <2>0, <2>4 DEF PlaceInv, At
    <3>2. ~NoLocal(p)
      BY <2>0, <3>1 DEF NoLocal, Fresh, Local
    <3>3. ~proc[p].exiting
      BY <2>0, <2>4 DEF PlaceInv
    <3> QED
      BY <2>0, <2>4, <3>2, <3>3 DEF PlaceInv, At, Reading, Writing
  <2> QED
    BY <2>1, <2>2, <2>3, <2>4
<1>7. \A q \in Proc : PlaceInv(q)'
  BY <1>5, <1>6 DEF Others
<1> QED
  BY <1>1, <1>3, <1>7 DEF FilesInv

\* The other processes keep their places when the files that they point to
\* keep their ends, and the ones they have just got stay as they are.
LEMMA OthersKept ==
  ASSUME FilesInv, NEW p \in Proc, Others(p), PlaceInv(p)',
         \A q \in Proc, k \in Local, f \in File :
           q # p /\ proc[q].f[k] = f /\ Fresh(f) => Fresh(f)',
         \A q \in Proc, fd \in FD, f \in File :
           q # p /\ proc[q].ofile[fd] = f => file'[f].end = file[f].end
  PROVE  \A q \in Proc : PlaceInv(q)'
<1>1. ASSUME NEW q \in Proc, q # p PROVE PlaceInv(q)'
  <2>1. PlaceInv(q) /\ Same(q)
    BY <1>1 DEF FilesInv, Others
  <2>2. \A k \in Local, f \in File : proc[q].f[k] = f /\ Fresh(f) => Fresh(f)'
    BY <1>1
  <2>3. \A fd \in FD, f \in File : proc[q].ofile[fd] = f => file'[f].end = file[f].end
    BY <1>1
  <2> QED
    BY <2>1, <2>2, <2>3, PlaceKept
<1> QED
  BY <1>1

\* What a process does to a file that nobody else refers to does not concern
\* the others.
LEMMA Unshared ==
  ASSUME CardinalityFacts, FilesInv, NEW p \in Proc, Others(p), PlaceInv(p)',
         \A f \in File : file[f].ref \in Nat,
         \A f \in File : \/ file[f].ref = 0
                         \/ file[f].ref = 1 /\ Points(p, f)
                         \/ file[f].ref # 1 /\ file'[f].end = file[f].end
                         \/ file'[f] = file[f]
  PROVE  \A q \in Proc : PlaceInv(q)'
<1>1. ASSUME NEW q \in Proc, NEW f \in File, q # p, Points(q, f)
      PROVE  \/ file[f].ref # 1 /\ file'[f].end = file[f].end
             \/ file'[f] = file[f]
  <2>1. RefsExact
    BY DEF FilesInv
  <2>2. file[f].ref >= 1
    BY <1>1, <2>1, PointsCounted
  <2>3. Points(p, f) => file[f].ref >= 2
    BY <1>1, <2>1, SharedCounted
  <2> QED
    BY SMT, <2>2, <2>3
<1>2. ASSUME NEW q \in Proc, NEW k \in Local, NEW f \in File,
             q # p, proc[q].f[k] = f, Fresh(f)
      PROVE  Fresh(f)'
  <2>1. Points(q, f)
    BY <1>2 DEF Points
  <2> QED
    BY <1>1, <1>2, <2>1 DEF Fresh
<1>3. ASSUME NEW q \in Proc, NEW fd \in FD, NEW f \in File,
             q # p, proc[q].ofile[fd] = f
      PROVE  file'[f].end = file[f].end
  <2>1. Points(q, f)
    BY <1>3 DEF Points
  <2> QED
    BY <1>1, <1>3, <2>1
<1> QED
  BY <1>2, <1>3, OthersKept

\* filealloc(): p gets a file that nobody refers to.
LEMMA GotStep ==
  ASSUME CardinalityFacts, TypeOK, FilesInv, NEW p \in Proc, NEW f \in File, NEW k \in Local,
         file[f].ref = 0, file' = [file EXCEPT ![f].ref = 1],
         \A q \in Proc : q # p => proc'[q] = proc[q],
         proc'[p].ofile = proc[p].ofile, proc'[p].f = [proc[p].f EXCEPT ![k] = f],
         proc[p].f[k] = None,
         ~At(p, "pipeclose"), ~At(p, "pipeclose")', PlaceInv(p)',
         page' = page, pi' = pi
  PROVE  FilesInv'
<1>0. /\ file \in [File -> [ref: Nat, end: End]] /\ proc[p].f \in [Local -> File \cup {None}]
      /\ \A q \in Proc : proc[q].ofile \in [FD -> File \cup {None}]
      /\ RefsExact /\ OneEach /\ EndsOpen
  BY DEF TypeOK, FilesInv, ProcRec
<1>1. /\ file'[f].ref = 1 /\ file'[f].end = file[f].end
      /\ \A g \in File : g # f => file'[g] = file[g]
      /\ \A g \in File : file[g].ref \in Nat /\ file'[g].ref \in Nat
  BY SMT, <1>0
<1>2. \A q \in Proc : ~Points(q, f)
  BY SMT, <1>0, PointsCounted
<1>3. Others(p)
  BY DEF Others, Same
<1>4. RefsExact'
  <2>1. \A g \in File : Desc(g)' = Desc(g)
    BY DEF Desc
  <2>2. \A g \in File : g # f => Locals(g)' = Locals(g)
    BY SMT, <1>0, PipeAssumption DEF Locals
  <2>3. Locals(f) = {}
    BY <1>2 DEF Points, Locals
  <2>4. Locals(f)' = {<<p, k>>}
    BY SMT, <1>0, <1>2 DEF Points, Locals
  <2>5. Cardinality(Locals(f)) = 0 /\ Cardinality(Locals(f)') = 1
    BY <2>3, <2>4, CF_Empty, CF_Singleton
  <2>6. \A g \in File : Cardinality(Desc(g)) \in Nat /\ Cardinality(Locals(g)) \in Nat
    BY <1>0, RefsFacts
  <2>7. \A g \in File : file'[g].ref - file[g].ref =
                           (Cardinality(Desc(g)') - Cardinality(Desc(g)))
                           + (Cardinality(Locals(g)') - Cardinality(Locals(g)))
    <3>1. ASSUME NEW g \in File, g # f
          PROVE  file'[g].ref - file[g].ref =
                           (Cardinality(Desc(g)') - Cardinality(Desc(g)))
                           + (Cardinality(Locals(g)') - Cardinality(Locals(g)))
      BY SMT, <1>1, <2>1, <2>2, <2>6, <3>1
    <3>2. file'[f].ref - file[f].ref =
                           (Cardinality(Desc(f)') - Cardinality(Desc(f)))
                           + (Cardinality(Locals(f)') - Cardinality(Locals(f)))
      BY SMT, <1>1, <2>1, <2>5, <2>6
    <3> QED
      BY <3>1, <3>2
  <2> QED
    BY <1>0, <1>1, <2>7, RefsChange
<1>5. OneEach' /\ EndsOpen'
  <2>1. \A g \in File : file'[g].ref = 0 => file[g].end = None
    BY <1>0, <1>1 DEF OneEach
  <2>2. \A q \in Proc : /\ At(q, "pipeclose")' <=> At(q, "pipeclose")
                        /\ At(q, "pipeclose") => proc'[q].end = proc[q].end
    BY DEF At
  <2> QED
    BY <1>0, <1>1, <2>1, <2>2, EndsSame
<1>6. \A q \in Proc : PlaceInv(q)'
  <2>1. \A g \in File : file[g].ref = 0 \/ file'[g] = file[g]
    BY <1>1
  <2> QED
    BY <1>1, <1>3, <2>1, Unshared
<1> QED
  BY <1>4, <1>5, <1>6 DEF FilesInv

\* fileclose(): p drops one pointer to f, one of its descriptors or of its
\* local variables.  With the last one the end of f passes to pipeclose().
LEMMA CloseStep ==
  ASSUME CardinalityFacts, TypeOK, FilesInv, NEW p \in Proc, NEW f \in File,
         \A q \in Proc : q # p => proc'[q] = proc[q],
         \/ /\ \E fd \in FD :
                 /\ proc[p].ofile[fd] = f
                 /\ \A x \in FD : proc'[p].ofile[x] = IF x = fd THEN None ELSE proc[p].ofile[x]
            /\ proc'[p].f = proc[p].f
         \/ /\ \E k \in Local :
                 /\ proc[p].f[k] = f
                 /\ \A x \in Local : proc'[p].f[x] = IF x = k THEN None ELSE proc[p].f[x]
            /\ proc'[p].ofile = proc[p].ofile,
         \A g \in File : g # f => file'[g] = file[g],
         file[f].ref = 1 => file'[f].ref = 0 /\ file'[f].end = None,
         file[f].ref # 1 => file'[f].ref = file[f].ref - 1 /\ file'[f].end = file[f].end,
         IF file[f].ref = 1 /\ file[f].end # None
         THEN proc'[p].pc = "pipeclose" /\ proc'[p].end = file[f].end
         ELSE proc'[p].pc # "pipeclose",
         ~At(p, "pipeclose"), PlaceInv(p)', page' = page, pi' = pi
  PROVE  FilesInv'
<1>0. /\ file \in [File -> [ref: Nat, end: End]] /\ None \notin File
      /\ proc[p].f \in [Local -> File \cup {None}]
      /\ proc[p].ofile \in [FD -> File \cup {None}]
      /\ RefsExact /\ OneEach /\ EndsOpen /\ \A q \in Proc : PlaceInv(q)
  BY PipeAssumption DEF TypeOK, FilesInv, ProcRec
<1>1. \A g \in File : file[g].ref \in Nat /\ file[g].end \in End
  BY <1>0
<1>2. Points(p, f)
  BY DEF Points
<1>3. file[f].ref >= 1 /\ file'[f].ref = file[f].ref - 1
  BY SMT, <1>0, <1>1, <1>2, PointsCounted
<1>4. \A g \in File : file'[g].ref \in Nat
  BY SMT, <1>1, <1>3
<1>5. RefsExact'
  <2>1. \A g \in File : g # f => Desc(g)' = Desc(g) /\ Locals(g)' = Locals(g)
    <3>1. \A q \in Proc, fd \in FD, g \in File : g # f =>
            (proc'[q].ofile[fd] = g <=> proc[q].ofile[fd] = g)
      BY SMT, <1>0
    <3>2. \A q \in Proc, k \in Local, g \in File : g # f =>
            (proc'[q].f[k] = g <=> proc[q].f[k] = g)
      BY SMT, <1>0
    <3> QED
      BY SMT, <3>1, <3>2 DEF Desc, Locals
  <2>2. \/ (\E d \in Desc(f) : Desc(f)' = Desc(f) \ {d}) /\ Locals(f)' = Locals(f)
        \/ (\E d \in Locals(f) : Locals(f)' = Locals(f) \ {d}) /\ Desc(f)' = Desc(f)
    <3>1. ASSUME NEW fd \in FD, proc[p].ofile[fd] = f, proc'[p].f = proc[p].f,
                 \A x \in FD : proc'[p].ofile[x] = IF x = fd THEN None ELSE proc[p].ofile[x]
          PROVE  /\ <<p, fd>> \in Desc(f) /\ Desc(f)' = Desc(f) \ {<<p, fd>>}
                 /\ Locals(f)' = Locals(f)
      <4>1. Locals(f)' = Locals(f)
        <5>1. \A q \in Proc : proc'[q].f = proc[q].f
          BY <3>1
        <5> QED
          BY SMT, <5>1 DEF Desc, Locals
      <4>2. \A q \in Proc, x \in FD : proc'[q].ofile[x] = f <=>
                                     proc[q].ofile[x] = f /\ <<q, x>> # <<p, fd>>
        BY SMTT(40), <1>0, <3>1
      <4> QED
        BY SMT, <3>1, <4>1, <4>2 DEF Desc, Locals
    <3>2. ASSUME NEW k \in Local, proc[p].f[k] = f, proc'[p].ofile = proc[p].ofile,
                 \A x \in Local : proc'[p].f[x] = IF x = k THEN None ELSE proc[p].f[x]
          PROVE  /\ <<p, k>> \in Locals(f) /\ Locals(f)' = Locals(f) \ {<<p, k>>}
                 /\ Desc(f)' = Desc(f)
      <4>1. Desc(f)' = Desc(f)
        <5>1. \A q \in Proc : proc'[q].ofile = proc[q].ofile
          BY <3>2
        <5> QED
          BY SMT, <5>1 DEF Desc, Locals
      <4>2. \A q \in Proc, x \in Local : proc'[q].f[x] = f <=>
                                     proc[q].f[x] = f /\ <<q, x>> # <<p, k>>
        BY SMT, <1>0, <3>2
      <4> QED
        BY SMT, <3>2, <4>1, <4>2 DEF Desc, Locals
    <3> QED
      BY <3>1, <3>2
  <2>3. \A g \in File : /\ Cardinality(Desc(g)) \in Nat /\ Cardinality(Locals(g)) \in Nat
                        /\ IsFiniteSet(Desc(g)) /\ IsFiniteSet(Locals(g))
    BY <1>0, RefsFacts
  <2>4. \/ Cardinality(Desc(f)') = Cardinality(Desc(f)) - 1 /\ Locals(f)' = Locals(f)
        \/ Cardinality(Locals(f)') = Cardinality(Locals(f)) - 1 /\ Desc(f)' = Desc(f)
    BY SMT, <2>2, <2>3, CF_Remove
  <2>5. \A g \in File : file'[g].ref - file[g].ref =
                           (Cardinality(Desc(g)') - Cardinality(Desc(g)))
                           + (Cardinality(Locals(g)') - Cardinality(Locals(g)))
    <3>1. ASSUME NEW g \in File, g # f
          PROVE  file'[g].ref - file[g].ref =
                           (Cardinality(Desc(g)') - Cardinality(Desc(g)))
                           + (Cardinality(Locals(g)') - Cardinality(Locals(g)))
      BY SMT, <1>1, <2>1, <2>3, <3>1
    <3>2. file'[f].ref - file[f].ref =
                           (Cardinality(Desc(f)') - Cardinality(Desc(f)))
                           + (Cardinality(Locals(f)') - Cardinality(Locals(f)))
      BY SMT, <1>1, <1>3, <2>3, <2>4
    <3> QED
      BY <3>1, <3>2
  <2> QED
    BY <1>0, <1>4, <2>5, RefsChange
<1>6. \A g \in File : \/ file'[g].end = file[g].end
                      \/ g = f /\ file[f].ref = 1 /\ file'[f].end = None
  OBVIOUS
<1>7. \A q \in Proc : /\ q # p => (At(q, "pipeclose")' <=> At(q, "pipeclose"))
                      /\ q # p => proc'[q].end = proc[q].end
                      /\ At(q, "pipeclose") => q # p /\ proc[q].end # None
  BY <1>0 DEF At, PlaceInv
<1>8. OneEach'
  <2>1. \A g \in File : file'[g].ref = 0 => file'[g].end = None
    BY SMTT(40), <1>0, <1>1, <1>3 DEF OneEach
  <2>2. \A g, h \in File : file'[g].end # None /\ g # h => file'[g].end # file'[h].end
    BY SMT, <1>0, <1>6 DEF OneEach
  <2>3. \A q, r \in Proc : At(q, "pipeclose")' /\ At(r, "pipeclose")' /\ q # r =>
          proc'[q].end # proc'[r].end
    <3>1. ASSUME NEW q \in Proc, At(q, "pipeclose"), At(p, "pipeclose")'
          PROVE  proc'[q].end # proc'[p].end
      BY SMT, <1>0, <1>7, <3>1 DEF OneEach, At
    <3> QED
      BY SMT, <1>0, <1>7, <3>1 DEF OneEach
  <2>4. \A q \in Proc, g \in File : At(q, "pipeclose")' => proc'[q].end # file'[g].end
    <3>1. ASSUME NEW g \in File, At(p, "pipeclose")' PROVE proc'[p].end # file'[g].end
      <4>1. proc'[p].end = file[f].end /\ file[f].end # None /\ file'[f].end = None
        BY <3>1 DEF At
      <4>2. g # f => file'[g].end # file[f].end
        BY SMT, <1>0, <1>6, <4>1 DEF OneEach
      <4> QED
        BY <4>1, <4>2
    <3>2. ASSUME NEW q \in Proc, q # p, NEW g \in File, At(q, "pipeclose")'
          PROVE  proc'[q].end # file'[g].end
      <4>1. At(q, "pipeclose") /\ proc'[q].end = proc[q].end /\ proc[q].end # None
        BY <1>7, <3>2
      <4>2. proc[q].end # file[g].end
        BY <1>0, <4>1 DEF OneEach
      <4> QED
        BY <1>6, <4>1, <4>2
    <3> QED
      BY <3>1, <3>2
  <2> QED
    BY <2>1, <2>2, <2>3, <2>4 DEF OneEach
<1>9. EndsOpen'
  <2>1. ASSUME NEW e \in End \ {None}
        PROVE  IsOpen(e)' <=> \/ \E g \in File : file'[g].ref > 0 /\ file'[g].end = e
                             \/ \E q \in Proc : At(q, "pipeclose")' /\ proc'[q].end = e
    <3>1. IsOpen(e)' <=> IsOpen(e)
      BY DEF IsOpen
    <3>2. IsOpen(e) <=> \/ \E g \in File : file[g].ref > 0 /\ file[g].end = e
                        \/ \E q \in Proc : At(q, "pipeclose") /\ proc[q].end = e
      BY <1>0 DEF EndsOpen
    <3>3. ASSUME NEW g \in File, file[g].ref > 0, file[g].end = e
          PROVE  \/ file'[g].ref > 0 /\ file'[g].end = e
                 \/ At(p, "pipeclose")' /\ proc'[p].end = e
      BY SMT, <1>1, <1>3, <3>3 DEF At
    <3>4. ASSUME NEW g \in File, file'[g].ref > 0, file'[g].end = e
          PROVE  file[g].ref > 0 /\ file[g].end = e
      BY SMT, <1>1, <1>3, <1>6, <3>4
    <3>5. At(p, "pipeclose")' /\ proc'[p].end = e => file[f].ref > 0 /\ file[f].end = e
      BY SMT, <1>1 DEF At
    <3> QED
      BY <1>7, <3>1, <3>2, <3>3, <3>4, <3>5
  <2>2. (page <=> pi.readopen \/ pi.writeopen)'
    BY <1>0 DEF EndsOpen
  <2> QED
    BY <2>1, <2>2 DEF EndsOpen
<1>10. \A q \in Proc : PlaceInv(q)'
  <2>1. Others(p)
    BY DEF Others, Same
  <2>2. \A g \in File : \/ file[g].ref = 1 /\ Points(p, g)
                        \/ file[g].ref # 1 /\ file'[g].end = file[g].end
                        \/ file'[g] = file[g]
    BY <1>2
  <2> QED
    BY <1>1, <2>1, <2>2, Unshared
<1> QED
  BY <1>5, <1>8, <1>9, <1>10 DEF FilesInv

\* fileclose() and pipeclose() return to where the locals of p say.
LEMMA ClosedPlace ==
  ASSUME NEW p \in Proc, NEW r \in ProcRec, proc'[p] = Closed(r),
         r.exiting => \A k \in Local : r.f[k] = None
  PROVE  PlaceInv(p)' /\ ~At(p, "pipeclose")'
<1>1. /\ Closed(r).f = r.f
      /\ IF \E k \in Local : r.f[k] # None
            THEN Closed(r).pc = "fileclose" /\ Closed(r).exiting = r.exiting
            ELSE \/ ~r.exiting /\ ~Closed(r).exiting /\ Closed(r).pc = "user"
                 \/ r.exiting /\ Closed(r).exiting /\ Closed(r).pc = "exit"
                 \/ r.exiting /\ Closed(r) = NewProc
  BY ClosedFacts
<1>2. CASE \E k \in Local : r.f[k] # None
  BY <1>1, <1>2 DEF PlaceInv, At, Reading, Writing, NoLocal
<1>3. CASE ~(\E k \in Local : r.f[k] # None) /\ Closed(r) # NewProc
  BY <1>1, <1>3 DEF PlaceInv, At, Reading, Writing, NoLocal
<1>4. CASE ~(\E k \in Local : r.f[k] # None) /\ Closed(r) = NewProc
  BY <1>4, NewProcFacts DEF PlaceInv, At, Reading, Writing, NoLocal
<1> QED
  BY <1>2, <1>3, <1>4

\* pipealloc() sets the pipe up: the two files of p become its ends.
LEMMA EndsSetUp ==
  ASSUME TypeOK, FilesInv, ~page, page' = TRUE, pi'.readopen = TRUE, pi'.writeopen = TRUE,
         NEW rf \in File, NEW wf \in File, rf # wf, file[rf].ref = 1, file[wf].ref = 1,
         \A g \in File : file'[g].ref = file[g].ref,
         \A g \in File : file'[g].end = IF g = rf THEN "read" ELSE IF g = wf THEN "write"
                                        ELSE file[g].end,
         \A q \in Proc : At(q, "pipeclose")' => At(q, "pipeclose")
  PROVE  OneEach' /\ EndsOpen'
<1>0. /\ file \in [File -> [ref: Nat, end: End]] /\ None \notin {"read", "write"}
      /\ OneEach /\ EndsOpen /\ \A q \in Proc : PlaceInv(q) /\ proc[q].end \in End
  BY PipeAssumption DEF TypeOK, FilesInv, ProcRec
<1>1. \A g \in File : file[g].ref \in Nat
  BY <1>0
<1>2. ~IsOpen("read") /\ ~IsOpen("write")
  BY <1>0 DEF EndsOpen, IsOpen
<1>3. /\ \A g \in File : file[g].ref > 0 => file[g].end \notin {"read", "write"}
      /\ \A q \in Proc : At(q, "pipeclose") => proc[q].end \notin {"read", "write"}
  <2>1. "read" \in End \ {None} /\ "write" \in End \ {None}
    BY <1>0 DEF End
  <2> QED
    BY <1>0, <1>2, <2>1 DEF EndsOpen
<1>4. \A g \in File : file[g].end = None
  <2>1. \A g \in File : file[g].end \in End /\ (file[g].ref = 0 => file[g].end = None)
    BY <1>0 DEF OneEach
  <2> QED
    BY SMT, <1>1, <1>3, <2>1 DEF End
<1>5. \A q \in Proc : ~At(q, "pipeclose")'
  <2>1. \A q \in Proc : At(q, "pipeclose") => proc[q].end # None
    BY <1>0 DEF PlaceInv
  <2> QED
    BY <1>0, <1>3, <2>1 DEF End
<1>6. OneEach'
  <2>1. \A g \in File : file'[g].end = IF g = rf THEN "read" ELSE IF g = wf THEN "write" ELSE None
    BY <1>4
  <2>2. \A g \in File : file'[g].ref = 0 => file'[g].end = None
    BY SMT, <2>1
  <2>3. \A g, h \in File : file'[g].end # None /\ g # h => file'[g].end # file'[h].end
    BY <2>1
  <2> QED
    BY <1>5, <2>2, <2>3 DEF OneEach
<1>7. EndsOpen'
  <2>1. ASSUME NEW e \in End \ {None}
        PROVE  IsOpen(e)' /\ \E g \in File : file'[g].ref > 0 /\ file'[g].end = e
    <3>1. /\ file'[rf].ref > 0 /\ file'[wf].ref > 0
          /\ file'[rf].end = "read" /\ file'[wf].end = "write"
      BY SMT
    <3> QED
      BY <3>1 DEF IsOpen, End
  <2> QED
    BY <2>1 DEF EndsOpen
<1> QED
  BY <1>6, <1>7

\* Two free descriptors of p take over the pointers of its local variables.
LEMMA KallocRefs ==
  ASSUME CardinalityFacts, RefsExact, NEW p \in Proc, NEW rf \in File, NEW wf \in File, rf # wf,
         None \notin File, NEW fd0 \in FD, NEW fd1 \in FD, fd0 # fd1,
         proc[p].f[0] = rf, proc[p].f[1] = wf, \A k \in Local : proc'[p].f[k] = None,
         proc[p].ofile[fd0] = None, proc[p].ofile[fd1] = None,
         \A x \in FD : proc'[p].ofile[x] = IF x = fd0 THEN rf ELSE IF x = fd1 THEN wf
                                           ELSE proc[p].ofile[x],
         \A q \in Proc : q # p => proc'[q] = proc[q],
         \A g \in File : file'[g].ref = file[g].ref /\ file[g].ref \in Nat
  PROVE  RefsExact'
<1>1. Local = {0, 1}
  BY DEF Local
<1>2. ASSUME NEW g \in File, g # rf, g # wf
      PROVE  Desc(g)' = Desc(g) /\ Locals(g)' = Locals(g)
  <2>1. \A q \in Proc, x \in FD : proc'[q].ofile[x] = g <=> proc[q].ofile[x] = g
    BY SMT, <1>2
  <2>2. \A q \in Proc, k \in Local : proc'[q].f[k] = g <=> proc[q].f[k] = g
    BY SMT, <1>1, <1>2
  <2> QED
    BY SMT, <2>1, <2>2 DEF Desc, Locals
<1>3. /\ Desc(rf)' = Desc(rf) \cup {<<p, fd0>>} /\ <<p, fd0>> \notin Desc(rf)
      /\ Desc(wf)' = Desc(wf) \cup {<<p, fd1>>} /\ <<p, fd1>> \notin Desc(wf)
  <2>1. \A q \in Proc, x \in FD :
          /\ proc'[q].ofile[x] = rf <=> proc[q].ofile[x] = rf \/ <<q, x>> = <<p, fd0>>
          /\ proc'[q].ofile[x] = wf <=> proc[q].ofile[x] = wf \/ <<q, x>> = <<p, fd1>>
    BY SMT
  <2>2. proc[p].ofile[fd0] # rf /\ proc[p].ofile[fd1] # wf
    BY SMT
  <2> QED
    BY SMT, <2>1, <2>2 DEF Desc
<1>4. /\ Locals(rf)' = Locals(rf) \ {<<p, 0>>} /\ <<p, 0>> \in Locals(rf)
      /\ Locals(wf)' = Locals(wf) \ {<<p, 1>>} /\ <<p, 1>> \in Locals(wf)
  <2>1. \A q \in Proc, k \in Local :
          /\ proc'[q].f[k] = rf <=> proc[q].f[k] = rf /\ <<q, k>> # <<p, 0>>
          /\ proc'[q].f[k] = wf <=> proc[q].f[k] = wf /\ <<q, k>> # <<p, 1>>
    BY SMT, <1>1
  <2>2. 0 \in Local /\ 1 \in Local
    BY <1>1
  <2> QED
    BY SMT, <2>1, <2>2 DEF Locals
<1>5. \A g \in File : /\ Cardinality(Desc(g)) \in Nat /\ Cardinality(Locals(g)) \in Nat
                      /\ IsFiniteSet(Desc(g)) /\ IsFiniteSet(Locals(g))
  BY RefsFacts
<1>6. /\ Cardinality(Desc(rf)') = Cardinality(Desc(rf)) + 1
      /\ Cardinality(Desc(wf)') = Cardinality(Desc(wf)) + 1
  <2>1. \A g \in File : \A x : x \notin Desc(g) =>
          Cardinality(Desc(g) \cup {x}) = Cardinality(Desc(g)) + 1
    BY <1>5, CF_Add
  <2> QED
    BY SMT, <1>3, <2>1
<1>7. /\ Cardinality(Locals(rf)') = Cardinality(Locals(rf)) - 1
      /\ Cardinality(Locals(wf)') = Cardinality(Locals(wf)) - 1
  <2>1. \A g \in File : \A x : x \in Locals(g) =>
          Cardinality(Locals(g) \ {x}) = Cardinality(Locals(g)) - 1
    BY <1>5, CF_Remove
  <2> QED
    BY SMT, <1>4, <2>1
<1>8. ASSUME NEW g \in File
      PROVE  file'[g].ref - file[g].ref =
                         (Cardinality(Desc(g)') - Cardinality(Desc(g)))
                         + (Cardinality(Locals(g)') - Cardinality(Locals(g)))
  <2>1. CASE g # rf /\ g # wf
    BY SMT, <1>2, <1>5, <2>1
  <2>2. CASE g = rf
    BY SMT, <1>5, <1>6, <1>7, <2>2
  <2>3. CASE g = wf
    BY SMT, <1>5, <1>6, <1>7, <2>3
  <2> QED
    BY <2>1, <2>2, <2>3
<1> QED
  BY <1>8, RefsChange

LEMMA KallocStep ==
  ASSUME CardinalityFacts, TypeOK, FilesInv, NEW p \in Proc, At(p, "kalloc"),
         ~page, page' = TRUE, pi'.readopen = TRUE, pi'.writeopen = TRUE,
         NEW rf, NEW wf, rf = proc[p].f[0], wf = proc[p].f[1],
         \A g \in File : file'[g].ref = file[g].ref,
         \A g \in File : g # rf /\ g # wf => file'[g] = file[g],
         rf # wf => file'[rf].end = "read", file'[wf].end = "write",
         \A q \in Proc : q # p => proc'[q] = proc[q],
         ~proc'[p].exiting,
         \/ /\ proc'[p].pc = "user" /\ \A k \in Local : proc'[p].f[k] = None
            /\ \E fd0, fd1 \in FD :
                 /\ fd0 # fd1 /\ proc[p].ofile[fd0] = None /\ proc[p].ofile[fd1] = None
                 /\ \A x \in FD : proc'[p].ofile[x] = IF x = fd0 THEN rf
                                       ELSE IF x = fd1 THEN wf ELSE proc[p].ofile[x]
         \/ /\ proc'[p].pc = "fileclose"
            /\ proc'[p].f = proc[p].f /\ proc'[p].ofile = proc[p].ofile
  PROVE  FilesInv'
<1>0. None \notin File /\ RefsExact /\ PlaceInv(p) /\ \A g \in File : file[g].ref \in Nat
  BY PipeAssumption DEF TypeOK, FilesInv
<1>1. Fresh(rf) /\ Fresh(wf) /\ rf # wf /\ 0 \in Local /\ 1 \in Local
  BY <1>0 DEF PlaceInv, Local
<1>2. rf \in File /\ wf \in File /\ file[rf].ref = 1 /\ file[wf].ref = 1
  BY <1>1 DEF Fresh
<1>3. OneEach' /\ EndsOpen'
  <2>1. \A q \in Proc : At(q, "pipeclose")' => At(q, "pipeclose")
    BY DEF At
  <2>2. \A g \in File : file'[g].end = IF g = rf THEN "read" ELSE IF g = wf THEN "write"
                                        ELSE file[g].end
    BY <1>1, <1>2
  <2> QED
    BY <1>1, <1>2, <2>1, <2>2, EndsSetUp
<1>4. Points(p, rf) /\ Points(p, wf)
  BY <1>1 DEF Points
<1>5. PlaceInv(p)'
  <2>1. CASE proc'[p].pc = "user" /\ \A k \in Local : proc'[p].f[k] = None
    BY <2>1 DEF PlaceInv, At, Reading, Writing, NoLocal
  <2>2. CASE proc'[p].pc = "fileclose" /\ proc'[p].f = proc[p].f
    <3>1. ~NoLocal(p)'
      BY SMT, <1>0, <1>1, <1>2, <2>2 DEF NoLocal
    <3> QED
      BY <2>2, <3>1 DEF PlaceInv, At, Reading, Writing
  <2> QED
    BY <2>1, <2>2
<1>6. \A q \in Proc : PlaceInv(q)'
  <2>1. Others(p)
    BY DEF Others, Same
  <2>2. \A g \in File : \/ file[g].ref = 1 /\ Points(p, g)
                        \/ file'[g] = file[g]
    BY <1>2, <1>4
  <2> QED
    BY <1>0, <1>5, <2>1, <2>2, Unshared
<1>7. RefsExact'
  <2>1. CASE proc'[p].f = proc[p].f /\ proc'[p].ofile = proc[p].ofile
    <3>1. /\ \A q \in Proc : proc'[q].ofile = proc[q].ofile
          /\ \A q \in Proc : proc'[q].f = proc[q].f
      BY <2>1
    <3> QED
      BY <1>0, <3>1, RefsSame
  <2>2. CASE /\ \A k \in Local : proc'[p].f[k] = None
             /\ \E fd0, fd1 \in FD :
                 /\ fd0 # fd1 /\ proc[p].ofile[fd0] = None /\ proc[p].ofile[fd1] = None
                 /\ \A x \in FD : proc'[p].ofile[x] = IF x = fd0 THEN rf
                                       ELSE IF x = fd1 THEN wf ELSE proc[p].ofile[x]
    <3>1. PICK fd0, fd1 \in FD :
            /\ fd0 # fd1 /\ proc[p].ofile[fd0] = None /\ proc[p].ofile[fd1] = None
            /\ \A x \in FD : proc'[p].ofile[x] = IF x = fd0 THEN rf
                                  ELSE IF x = fd1 THEN wf ELSE proc[p].ofile[x]
      BY <2>2
    <3>2. \A k \in Local : proc'[p].f[k] = None
      BY <2>2
    <3>3. proc[p].f[0] = rf /\ proc[p].f[1] = wf
      OBVIOUS
    <3>4. \A g \in File : file'[g].ref = file[g].ref /\ file[g].ref \in Nat
      BY <1>0
    <3> QED
      BY SMT, <1>0, <1>1, <1>2, <3>1, <3>2, <3>3, <3>4, KallocRefs
  <2> QED
    BY <2>1, <2>2
<1> QED
  BY <1>3, <1>6, <1>7 DEF FilesInv

\* fork(): np gets the descriptors of p.
LEMMA ForkStep ==
  ASSUME CardinalityFacts, TypeOK, FilesInv, NEW p \in Proc, NEW np \in Proc, At(p, "user"), At(np, "unused"),
         \A f \in File : file'[f].ref = file[f].ref + Refs(proc[p], f),
         \A f \in File : file'[f].end = file[f].end,
         \A q \in Proc : q # np => proc'[q] = proc[q],
         proc'[np].ofile = proc[p].ofile, proc'[np].f = proc[np].f,
         proc'[np].pc = "user", ~proc'[np].exiting,
         page' = page, pi' = pi
  PROVE  FilesInv'
<1>0. /\ p # np /\ None \notin File /\ RefsExact /\ OneEach /\ EndsOpen
      /\ PlaceInv(p) /\ PlaceInv(np) /\ \A f \in File : file[f].ref \in Nat
  BY PipeAssumption DEF TypeOK, FilesInv, At
<1>1. /\ \A x \in FD : proc[np].ofile[x] = None
      /\ \A k \in Local : proc[np].f[k] = None
  BY <1>0, NewProcFacts DEF PlaceInv
<1> DEFINE S(f) == {fd \in FD : proc[p].ofile[fd] = f}
<1>2. ASSUME NEW f \in File
      PROVE  /\ Locals(f)' = Locals(f)
             /\ Desc(f)' = Desc(f) \cup ({np} \X S(f))
             /\ Desc(f) \cap ({np} \X S(f)) = {}
  <2>1. \A q \in Proc : proc'[q].f = proc[q].f
    OBVIOUS
  <2>2. \A q \in Proc, x \in FD :
          proc'[q].ofile[x] = f <=> proc[q].ofile[x] = f \/ (q = np /\ x \in S(f))
    BY <1>0, <1>1
  <2>3. \A x \in FD : proc[np].ofile[x] # f
    BY <1>0, <1>1
  <2>4. S(f) \subseteq FD
    OBVIOUS
  <2> HIDE DEF S
  <2> QED
    BY SMT, <2>1, <2>2, <2>3, <2>4 DEF Desc, Locals
<1>3. ASSUME NEW f \in File
      PROVE  /\ Refs(proc[p], f) = Cardinality({np} \X S(f)) /\ Refs(proc[p], f) \in Nat
             /\ IsFiniteSet({np} \X S(f))
  <2>1. IsFiniteSet({np}) /\ Cardinality({np}) = 1
    BY CF_Singleton
  <2>2. {np} \X S(f) \subseteq Proc \X FD
    OBVIOUS
  <2>3. IsFiniteSet({np} \X S(f))
    BY <2>2, PointersFinite
  <2>4. IsFiniteSet(S(f)) /\ Cardinality(S(f)) \in Nat
    <3>1. NOFILE \in Int /\ 1 \in Int
      BY SMT, PipeAssumption
    <3>2. IsFiniteSet(FD)
      BY <3>1, CF_Interval DEF FD
    <3>3. S(f) \in SUBSET FD
      OBVIOUS
    <3>4. IsFiniteSet(S(f))
      BY <3>2, <3>3, CF_Subset
    <3> QED
      BY <3>4, CF_Type
  <2>5. Cardinality({np} \X S(f)) = Cardinality({np}) * Cardinality(S(f))
    BY <2>1, <2>4, CF_Product
  <2>6. Refs(proc[p], f) = Cardinality(S(f))
    BY DEF Refs
  <2> QED
    BY SMT, <2>1, <2>3, <2>4, <2>5, <2>6
<1> HIDE DEF S
<1>4. RefsExact'
  <2>1. ASSUME NEW f \in File
        PROVE  /\ file'[f].ref \in Nat
               /\ file'[f].ref - file[f].ref =
                         (Cardinality(Desc(f)') - Cardinality(Desc(f)))
                         + (Cardinality(Locals(f)') - Cardinality(Locals(f)))
    <3>1. /\ Cardinality(Desc(f)) \in Nat /\ Cardinality(Locals(f)) \in Nat
          /\ IsFiniteSet(Desc(f))
      BY <1>0, RefsFacts
    <3>2. /\ Refs(proc[p], f) = Cardinality({np} \X S(f)) /\ Refs(proc[p], f) \in Nat
          /\ IsFiniteSet({np} \X S(f))
      BY <1>3
    <3>3. Cardinality(Desc(f) \cup ({np} \X S(f))) =
            Cardinality(Desc(f)) + Cardinality({np} \X S(f))
                                 - Cardinality(Desc(f) \cap ({np} \X S(f)))
      BY <3>1, <3>2, CF_Union
    <3>4. Cardinality(Desc(f) \cap ({np} \X S(f))) = 0
      BY <1>2, CF_Empty
    <3>5. Cardinality(Desc(f)') = Cardinality(Desc(f)) + Refs(proc[p], f)
      <4>1. Cardinality(Desc(f)') = Cardinality(Desc(f) \cup ({np} \X S(f)))
        BY <1>2
      <4>2. Cardinality(Desc(f)) + Cardinality({np} \X S(f)) - 0
              = Cardinality(Desc(f)) + Refs(proc[p], f)
        BY SMT, <3>1, <3>2
      <4> QED
        BY <3>3, <3>4, <4>1, <4>2
    <3>6. Locals(f)' = Locals(f) /\ file[f].ref \in Nat
          /\ file'[f].ref = file[f].ref + Refs(proc[p], f)
      BY <1>0, <1>2
    <3> QED
      BY SMT, <3>1, <3>2, <3>5, <3>6
  <2> QED
    BY <1>0, <2>1, RefsChange
<1>5. OneEach' /\ EndsOpen'
  <2>1. \A f \in File : Refs(proc[p], f) \in Nat
    BY <1>3
  <2>2. \A f \in File : file'[f].ref \in Nat /\ (file'[f].ref = 0 => file[f].end = None)
    BY SMT, <1>0, <2>1 DEF OneEach
  <2>3. \A q \in Proc : /\ At(q, "pipeclose")' <=> At(q, "pipeclose")
                        /\ At(q, "pipeclose") => proc'[q].end = proc[q].end
    BY DEF At
  <2> QED
    BY <1>0, <2>2, <2>3, EndsSame
<1>6. PlaceInv(np)'
  BY <1>1 DEF PlaceInv, At, Reading, Writing, NoLocal
<1>7. ASSUME NEW q \in Proc, NEW k \in Local, NEW f \in File, proc[q].f[k] = f, Fresh(f)
      PROVE  Fresh(f)'
  <2>1. NoLocal(p)
    BY <1>0 DEF PlaceInv, At
  <2>2. q # p /\ Points(q, f)
    BY <1>0, <1>7, <2>1 DEF NoLocal, Points
  <2>3. ~Points(p, f)
    <3>1. SUFFICES ASSUME Points(p, f) PROVE FALSE
      OBVIOUS
    <3>2. file[f].ref >= 2
      BY <1>0, <2>2, <3>1, SharedCounted
    <3> QED
      BY SMT, <1>7, <3>2 DEF Fresh
  <2>4. {fd \in FD : proc[p].ofile[fd] = f} = {}
    BY <2>3 DEF Points
  <2>5. Refs(proc[p], f) = 0
    BY <2>4, CF_Empty DEF Refs
  <2> QED
    BY SMT, <1>0, <1>7, <2>5 DEF Fresh
<1>8. \A q \in Proc : PlaceInv(q)'
  <2>1. Others(np)
    BY DEF Others, Same
  <2> QED
    BY <1>6, <1>7, <2>1, OthersKept
<1> QED
  BY <1>4, <1>5, <1>8 DEF FilesInv

\* pipeclose(): the end that p closes is nobody else's.
LEMMA PipecloseStep ==
  ASSUME CardinalityFacts, TypeOK, FilesInv, NEW p \in Proc, At(p, "pipeclose"), ~At(p, "pipeclose")',
         Others(p), PlaceInv(p)', file' = file,
         proc'[p].ofile = proc[p].ofile, proc'[p].f = proc[p].f,
         pi'.readopen = (pi.readopen /\ proc[p].end = "write"),
         pi'.writeopen = (pi.writeopen /\ proc[p].end # "write"),
         page' = (pi'.readopen \/ pi'.writeopen)
  PROVE  FilesInv'
<1>0. /\ RefsExact /\ OneEach /\ EndsOpen /\ PlaceInv(p) /\ None \notin {"read", "write"}
      /\ \A f \in File : file[f].ref \in Nat
      /\ proc[p].end \in End
  BY PipeAssumption DEF TypeOK, FilesInv, ProcRec
<1>1. RefsExact'
  BY <1>0, RefsSame DEF Others, Same
<1>2. \A q \in Proc : /\ q # p => (At(q, "pipeclose")' <=> At(q, "pipeclose"))
                      /\ q # p => proc'[q].end = proc[q].end
                      /\ q # p /\ At(q, "pipeclose") => proc[q].end # proc[p].end
  BY <1>0 DEF At, Others, Same, OneEach
<1>3. \A f \in File : file[f].end # proc[p].end
  BY <1>0 DEF OneEach
<1>4. OneEach'
  BY SMT, <1>0, <1>2 DEF OneEach
<1>5. EndsOpen'
  <2>1. proc[p].end \in {"read", "write"}
    BY <1>0 DEF PlaceInv, End
  <2>2. ASSUME NEW e \in End \ {None}
        PROVE  IsOpen(e)' <=> \/ \E f \in File : file'[f].ref > 0 /\ file'[f].end = e
                             \/ \E q \in Proc : At(q, "pipeclose")' /\ proc'[q].end = e
    <3>1. IsOpen(e) <=> \/ \E f \in File : file[f].ref > 0 /\ file[f].end = e
                        \/ \E q \in Proc : At(q, "pipeclose") /\ proc[q].end = e
      BY <1>0 DEF EndsOpen
    <3>2. CASE e = proc[p].end
      <4>1. ~IsOpen(e)'
        BY <2>1, <3>2 DEF IsOpen
      <4> QED
        BY <1>2, <1>3, <3>2, <4>1
    <3>3. CASE e # proc[p].end
      <4>1. e \in {"read", "write"}
        BY DEF End
      <4>2. IsOpen(e)' <=> IsOpen(e)
        BY <2>1, <3>3, <4>1 DEF IsOpen
      <4> QED
        BY <1>2, <3>1, <3>3, <4>2
    <3> QED
      BY <3>2, <3>3
  <2> QED
    BY <2>2 DEF EndsOpen
<1>6. \A q \in Proc : PlaceInv(q)'
  <2>1. \A f \in File : file'[f] = file[f]
    OBVIOUS
  <2> QED
    BY <1>0, <2>1, Unshared
<1> QED
  BY <1>1, <1>4, <1>5, <1>6 DEF FilesInv

-----------------------------------------------------------------------------
(* The lock and the sleepers                                               *)

\* A process that uses an end of the pipe finds it open.
LEMMA InUse ==
  ASSUME CardinalityFacts
  PROVE  TypeOK /\ FilesInv => PipeInUse
<1> SUFFICES ASSUME TypeOK, FilesInv PROVE PipeInUse
  OBVIOUS
<1>0. /\ RefsExact /\ EndsOpen /\ None \notin {"read", "write"}
      /\ \A p \in Proc : PlaceInv(p) /\ proc[p].end \in End
      /\ \A f \in File : file[f].ref \in Nat
  BY PipeAssumption DEF TypeOK, FilesInv, ProcRec
<1>1. ASSUME NEW p \in Proc, NEW e \in {"read", "write"}, \E fd \in FD : Opened(p, fd, e)
      PROVE  IsOpen(e)
  <2>1. PICK f \in File : Points(p, f) /\ file[f].end = e
    BY <1>1 DEF Opened, Points
  <2>2. file[f].ref > 0
    BY SMT, <1>0, <2>1, PointsCounted
  <2>3. e \in End \ {None}
    BY <1>0 DEF End
  <2> QED
    BY <1>0, <2>1, <2>2, <2>3 DEF EndsOpen
<1>2. ASSUME NEW p \in Proc, At(p, "pipeclose") PROVE IsOpen(proc[p].end)
  <2>1. PICK e \in End \ {None} : e = proc[p].end
    BY <1>0, <1>2 DEF PlaceInv
  <2> QED
    BY <1>0, <1>2, <2>1 DEF EndsOpen
<1>3. \A e : IsOpen(e) => page
  BY <1>0 DEF EndsOpen, IsOpen
<1>4. (IsOpen("read") <=> pi.readopen) /\ (IsOpen("write") <=> pi.writeopen)
  BY DEF IsOpen
<1>5. \A p \in Proc : /\ proc[p].pc \in Writing => IsOpen("write")
                      /\ proc[p].pc \in Reading => IsOpen("read")
  BY <1>0, <1>1 DEF PlaceInv
<1> QED
  BY <1>2, <1>3, <1>4, <1>5 DEF PipeInUse, Reading, Writing

\* A step outside of the critical sections of pi->lock.
LEMMA QuietStep ==
  ASSUME LockInv, SleepInv, NEW p \in Proc, Others(p), None \notin Proc,
         lock \in Proc \cup {None},
         pi' = pi, lock' = lock, cut' = cut,
         proc[p].pc # "copyin", proc'[p].pc \notin {"copyin", "sleep_nread", "sleep_nwrite"}
  PROVE  LockInv' /\ SleepInv'
<1>1. LockInv'
  <2>1. \A q \in Proc : At(q, "copyin")' <=> At(q, "copyin")
    BY DEF At, Others, Same
  <2> QED
    BY <2>1 DEF LockInv
<1>2. Storing => Storing'
  <2>1. lock # p
    BY DEF LockInv, At
  <2> QED
    BY <2>1 DEF Storing, Others, Same
<1>3. \A q \in Proc : /\ At(q, "sleep_nread")' => At(q, "sleep_nread")
                      /\ At(q, "sleep_nwrite")' => At(q, "sleep_nwrite")
  BY DEF At, Others, Same
<1>4. (Full' <=> Full) /\ (Empty' <=> Empty)
  BY DEF Full, Empty
<1>5. SleepInv'
  BY <1>2, <1>3, <1>4 DEF SleepInv, NoMutualSleep
<1> QED
  BY <1>1, <1>5

\* The type invariant in parts.
LEMMA TypeParts ==
  TypeOK <=> /\ file \in [File -> [ref: Nat, end: End]] /\ page \in BOOLEAN
             /\ pi \in PiRec /\ Used <= PIPESIZE /\ lock \in Proc \cup {None}
             /\ proc \in [Proc -> ProcRec] /\ cut \in BOOLEAN
BY DEF TypeOK, PiRec

\* A step that leaves the pipe alone.
LEMMA TypeQuiet ==
  ASSUME TypeOK, file' \in [File -> [ref: Nat, end: End]], proc' \in [Proc -> ProcRec],
         page' \in BOOLEAN, pi' = pi, lock' \in Proc \cup {None}, cut' \in BOOLEAN
  PROVE  TypeOK'
<1>1. Used' = Used
  BY DEF Used
<1> QED
  BY <1>1 DEF TypeOK

LEMMA PcFacts ==
  ASSUME NEW r \in ProcRec, NEW pc \in Pc
  PROVE  LET t == [r EXCEPT !.pc = pc]
         IN /\ t \in ProcRec /\ t.pc = pc /\ t.ofile = r.ofile /\ t.f = r.f
            /\ t.end = r.end /\ t.i = r.i /\ t.killed = r.killed /\ t.exiting = r.exiting
BY DEF ProcRec

LEMMA GotFacts ==
  ASSUME NEW r \in ProcRec, NEW k \in Local, NEW f \in File, NEW pc \in Pc
  PROVE  /\ Got(r, k, f, pc) \in ProcRec /\ Got(r, k, f, pc).pc = pc
         /\ Got(r, k, f, pc).ofile = r.ofile
         /\ Got(r, k, f, pc).f = [r.f EXCEPT ![k] = f]
         /\ Got(r, k, f, pc).exiting = r.exiting
BY DEF ProcRec, Got

\* filealloc() in sys_pipe(): for *f0, and then for *f1.
LEMMA GotInv ==
  ASSUME CardinalityFacts, PipeInv, NEW p \in Proc, NEW f \in File, NEW k \in Local, NEW pc \in Pc,
         \/ k = 0 /\ pc = "pipealloc" /\ At(p, "user")
         \/ k = 1 /\ pc = "kalloc" /\ At(p, "pipealloc"),
         FirstFree(f), file' = [file EXCEPT ![f].ref = 1],
         proc' = [proc EXCEPT ![p] = Got(proc[p], k, f, pc)],
         UNCHANGED <<page, pi, lock, cut>>
  PROVE  PipeInv'
<1>0. TypeOK /\ FilesInv /\ LockInv /\ SleepInv /\ PlaceInv(p) /\ file[f].ref = 0
  BY DEF PipeInv, FilesInv, FirstFree, Free
<1>1. /\ file \in [File -> [ref: Nat, end: End]] /\ proc \in [Proc -> ProcRec]
      /\ proc[p] \in ProcRec /\ lock \in Proc \cup {None} /\ None \notin Proc
      /\ page \in BOOLEAN /\ cut \in BOOLEAN /\ proc[p].f \in [Local -> File \cup {None}]
  BY <1>0, PipeAssumption DEF TypeOK, ProcRec
<1>2. PICK t \in ProcRec : /\ t = Got(proc[p], k, f, pc) /\ t.pc = pc /\ t.ofile = proc[p].ofile
                           /\ t.f = [proc[p].f EXCEPT ![k] = f] /\ t.exiting = proc[p].exiting
  BY SMT, <1>1, GotFacts
<1>3. /\ proc' \in [Proc -> ProcRec] /\ proc'[p] = t /\ Others(p)
      /\ \A q \in Proc : q # p => proc'[q] = proc[q]
  <2>1. proc' = [proc EXCEPT ![p] = t]
    BY <1>2
  <2> QED
    BY <1>1, <2>1, OneProc
<1>4. /\ file' \in [File -> [ref: Nat, end: End]] /\ file'[f].ref = 1
      /\ file'[f].end = file[f].end /\ \A g \in File : g # f => file'[g] = file[g]
  BY <1>1
<1>5. TypeOK'
  BY <1>0, <1>1, <1>3, <1>4, TypeQuiet
<1>6. proc[p].f[k] = None /\ ~proc[p].exiting
  BY <1>0 DEF PlaceInv, NoLocal, At, Local
<1>7. \A x \in Local : proc'[p].f[x] = IF x = k THEN f ELSE proc[p].f[x]
  BY SMT, <1>1, <1>2, <1>3
<1>8. PlaceInv(p)'
  <2>1. Fresh(f)'
    <3>1. file[f].end = None
      BY <1>0 DEF FilesInv, OneEach
    <3> QED
      BY <1>4, <3>1 DEF Fresh
  <2>2. CASE k = 0 /\ pc = "pipealloc" /\ At(p, "user")
    <3>1. proc'[p].f[0] = f /\ proc'[p].f[1] = None
      BY SMT, <1>0, <1>7, <2>2 DEF Local, PlaceInv, NoLocal, At
    <3>2. proc'[p].pc = "pipealloc" /\ ~proc'[p].exiting
      BY <1>2, <1>3, <1>6, <2>2
    <3> QED
      BY <2>1, <3>1, <3>2 DEF PlaceInv, At, Reading, Writing
  <2>3. CASE k = 1 /\ pc = "kalloc" /\ At(p, "pipealloc")
    <3>1. PICK g \in File : g = proc[p].f[0] /\ Fresh(g)
      BY <1>0, <2>3 DEF PlaceInv, At, Fresh
    <3>2. g # f /\ Fresh(g)'
      BY SMT, <1>0, <1>4, <3>1 DEF Fresh
    <3>3. proc'[p].f[0] = g /\ proc'[p].f[1] = f
      BY SMT, <1>7, <2>3, <3>1 DEF Local
    <3>4. proc'[p].pc = "kalloc" /\ ~proc'[p].exiting
      BY <1>2, <1>3, <1>6, <2>3
    <3> QED
      BY <2>1, <3>2, <3>3, <3>4 DEF PlaceInv, At, Reading, Writing
  <2> QED
    BY <2>2, <2>3
<1>9. FilesInv'
  <2>1. ~At(p, "pipeclose") /\ ~At(p, "pipeclose")'
    BY <1>2, <1>3 DEF At
  <2>2. proc'[p].ofile = proc[p].ofile /\ proc'[p].f = [proc[p].f EXCEPT ![k] = f]
    BY <1>2, <1>3
  <2> QED
    BY <1>0, <1>3, <1>6, <1>8, <2>1, <2>2, GotStep
<1>10. LockInv' /\ SleepInv'
  <2>1. proc[p].pc # "copyin" /\ proc'[p].pc \notin {"copyin", "sleep_nread", "sleep_nwrite"}
    BY <1>2, <1>3 DEF At
  <2> QED
    BY <1>0, <1>1, <1>3, <2>1, QuietStep
<1> QED
  BY <1>5, <1>9, <1>10 DEF PipeInv

\* A step of p that touches nothing but its own record, and no file in it.
LEMMA CalmInv ==
  ASSUME PipeInv, NEW p \in Proc, NEW t \in ProcRec, proc' = [proc EXCEPT ![p] = t],
         UNCHANGED <<file, page, pi, lock, cut>>,
         t.ofile = proc[p].ofile, t.f = proc[p].f,
         proc[p].pc # "copyin", t.pc \notin {"copyin", "sleep_nread", "sleep_nwrite"},
         \/ /\ proc[p].pc \in Calm \cup {"unused"} /\ t.pc = "user" /\ ~t.exiting
         \/ proc[p].pc = "user" /\ t = NewProc
         \/ /\ proc[p].pc \in {"pipealloc", "kalloc"} /\ t.pc = "fileclose"
            /\ t.exiting = proc[p].exiting
  PROVE  PipeInv'
<1>0. TypeOK /\ FilesInv /\ LockInv /\ SleepInv
  BY DEF PipeInv
<1>1. /\ file \in [File -> [ref: Nat, end: End]] /\ proc \in [Proc -> ProcRec]
      /\ lock \in Proc \cup {None} /\ None \notin Proc /\ page \in BOOLEAN /\ cut \in BOOLEAN
  BY <1>0, PipeAssumption DEF TypeOK
<1>2. proc' \in [Proc -> ProcRec] /\ proc'[p] = t /\ Others(p)
  BY <1>1, OneProc
<1>3. TypeOK'
  BY <1>0, <1>1, <1>2, TypeQuiet
<1>4. FilesInv'
  BY <1>0, <1>2, CalmStep DEF Calm, Reading, Writing
<1>5. LockInv' /\ SleepInv'
  BY <1>0, <1>1, <1>2, QuietStep
<1> QED
  BY <1>3, <1>4, <1>5 DEF PipeInv

LEMMA SysPipeStep ==
  ASSUME CardinalityFacts, PipeInv, NEW p \in Proc, sys_pipe(p)
  PROVE  PipeInv'
<1>1. 0 \in Local /\ "pipealloc" \in Pc
  BY DEF Local, Pc
<1>2. PICK f \in File : /\ FirstFree(f) /\ file' = [file EXCEPT ![f].ref = 1]
                        /\ proc' = [proc EXCEPT ![p] = Got(proc[p], 0, f, "pipealloc")]
  BY DEF sys_pipe
<1>3. UNCHANGED <<page, pi, lock, cut>> /\ At(p, "user")
  BY DEF sys_pipe, InUser
<1> QED
  BY <1>1, <1>2, <1>3, GotInv

LEMMA PipeallocStep ==
  ASSUME CardinalityFacts, PipeInv, NEW p \in Proc, pipealloc(p) \/ kalloc_fails(p)
  PROVE  PipeInv'
<1>1. 1 \in Local /\ "kalloc" \in Pc /\ "fileclose" \in Pc /\ proc[p] \in ProcRec
  BY DEF Local, Pc, PipeInv, TypeOK
<1>2. CASE \E f \in File : /\ FirstFree(f) /\ file' = [file EXCEPT ![f].ref = 1]
                           /\ proc' = [proc EXCEPT ![p] = Got(proc[p], 1, f, "kalloc")]
                           /\ UNCHANGED <<page, pi, lock, cut>> /\ At(p, "pipealloc")
  <2>1. PICK f \in File : /\ FirstFree(f) /\ file' = [file EXCEPT ![f].ref = 1]
                          /\ proc' = [proc EXCEPT ![p] = Got(proc[p], 1, f, "kalloc")]
                          /\ UNCHANGED <<page, pi, lock, cut>> /\ At(p, "pipealloc")
    BY <1>2
  <2> QED
    BY <1>1, <2>1, GotInv
<1>3. CASE /\ proc' = [proc EXCEPT ![p].pc = "fileclose"]
           /\ UNCHANGED <<file, page, pi, lock, cut>> /\ proc[p].pc \in {"pipealloc", "kalloc"}
  <2>0. PICK r \in ProcRec, pc \in Pc : r = proc[p] /\ pc = "fileclose"
    BY <1>1
  <2>1. PICK t \in ProcRec : /\ t = [proc[p] EXCEPT !.pc = "fileclose"] /\ t.pc = "fileclose"
                             /\ t.ofile = proc[p].ofile /\ t.f = proc[p].f
                             /\ t.exiting = proc[p].exiting
    BY ZenonT(60), <2>0, PcFacts
  <2>2. proc' = [proc EXCEPT ![p] = t]
    BY <1>3, <2>1
  <2>3. UNCHANGED <<file, page, pi, lock, cut>> /\ proc[p].pc \in {"pipealloc", "kalloc"}
    BY <1>3
  <2> QED
    BY <2>1, <2>2, <2>3, CalmInv
<1> QED
  BY <1>2, <1>3 DEF pipealloc, kalloc_fails, At

LEMMA SpawnStep ==
  ASSUME PipeInv, NEW p \in Proc, spawn(p)
  PROVE  PipeInv'
<1>1. "user" \in Pc /\ proc[p] \in ProcRec /\ PlaceInv(p) /\ At(p, "unused")
  BY DEF Pc, PipeInv, TypeOK, FilesInv, spawn
<1>2. PICK t \in ProcRec : /\ t = [proc[p] EXCEPT !.pc = "user"] /\ t.pc = "user"
                           /\ t.ofile = proc[p].ofile /\ t.f = proc[p].f
                           /\ t.exiting = proc[p].exiting
  BY ZenonT(60), <1>1, PcFacts
<1>3. proc' = [proc EXCEPT ![p] = t] /\ UNCHANGED <<file, page, pi, lock, cut>>
  BY <1>2 DEF spawn
<1>4. ~t.exiting /\ proc[p].pc = "unused"
  BY <1>1, <1>2, NewProcFacts DEF PlaceInv, At
<1> QED
  BY <1>2, <1>3, <1>4, CalmInv

LEMMA UsedPrimed ==
  ASSUME pi' \in PiRec
  PROVE  /\ Used' = IF pi'.nread <= pi'.nwrite THEN pi'.nwrite - pi'.nread
                    ELSE pi'.nwrite - pi'.nread + UINT
         /\ Used' \in Nat /\ Used' < UINT
         /\ Empty' <=> Used' = 0
         /\ Full' <=> Used' = PIPESIZE
<1>1. pi \in PiRec => /\ Used = IF pi.nread <= pi.nwrite THEN pi.nwrite - pi.nread
                                ELSE pi.nwrite - pi.nread + UINT
                      /\ Used \in Nat /\ Used < UINT
                      /\ Empty <=> Used = 0
                      /\ Full <=> Used = PIPESIZE
  BY UsedFacts
<1>2. (pi \in PiRec => /\ Used = IF pi.nread <= pi.nwrite THEN pi.nwrite - pi.nread
                                 ELSE pi.nwrite - pi.nread + UINT
                       /\ Used \in Nat /\ Used < UINT
                       /\ Empty <=> Used = 0
                       /\ Full <=> Used = PIPESIZE)'
  BY UsedFacts, PTL
<1> QED
  BY <1>2

\* Nobody is asleep after the step, and the lock is left alone.
LEMMA NoSleeper ==
  ASSUME LockInv, NEW p \in Proc, Others(p), lock' = lock,
         proc[p].pc # "copyin", proc'[p].pc # "copyin",
         \A q \in Proc : proc'[q].pc \notin {"sleep_nread", "sleep_nwrite"}
  PROVE  LockInv' /\ SleepInv'
<1>1. \A q \in Proc : At(q, "copyin")' <=> At(q, "copyin")
  BY DEF At, Others, Same
<1>2. LockInv'
  BY <1>1 DEF LockInv
<1> QED
  BY <1>2 DEF SleepInv, NoMutualSleep, At

LEMMA KallocInv ==
  ASSUME CardinalityFacts, PipeInv, NEW p \in Proc, kalloc(p)
  PROVE  PipeInv'
<1>0. /\ TypeOK /\ FilesInv /\ LockInv /\ PlaceInv(p) /\ At(p, "kalloc")
      /\ ~page /\ page' = TRUE /\ UNCHANGED <<lock, cut>>
      /\ pi' = [pi EXCEPT !.nread = 0, !.nwrite = 0, !.readopen = TRUE, !.writeopen = TRUE]
  BY DEF PipeInv, FilesInv, kalloc
<1>1. /\ file \in [File -> [ref: Nat, end: End]] /\ proc \in [Proc -> ProcRec]
      /\ lock \in Proc \cup {None} /\ cut \in BOOLEAN /\ pi \in PiRec
      /\ proc[p] \in ProcRec /\ proc[p].ofile \in [FD -> File \cup {None}]
  BY <1>0 DEF TypeOK, PiRec, ProcRec
<1>2. PICK rf, wf \in File : rf = proc[p].f[0] /\ wf = proc[p].f[1] /\ rf # wf
  BY <1>0 DEF PlaceInv, Fresh
<1>3. /\ file' = [file EXCEPT ![rf].end = "read", ![wf].end = "write"]
      /\ \/ \E fd0, fd1 \in FD :
                /\ fd0 < fd1 /\ proc[p].ofile[fd0] = None /\ proc[p].ofile[fd1] = None
                /\ proc' = [proc EXCEPT ![p] = Return(
                     [proc[p] EXCEPT !.f = NewProc.f,
                               !.ofile = [proc[p].ofile EXCEPT ![fd0] = rf, ![fd1] = wf]])]
         \/ proc' = [proc EXCEPT ![p] = [proc[p] EXCEPT !.pc = "fileclose"]]
  BY <1>2 DEF kalloc
<1>4. pi' \in PiRec /\ pi'.nread = 0 /\ pi'.nwrite = 0 /\ pi'.readopen = TRUE /\ pi'.writeopen = TRUE
  <2>1. 0 \in 0..(UINT - 1)
    BY SMT, PipeAssumption
  <2> QED
    BY <1>0, <1>1, <2>1 DEF PiRec
<1>5. Used' <= PIPESIZE
  BY SMT, <1>4, UsedPrimed, PipeAssumption
<1>6. /\ file' \in [File -> [ref: Nat, end: End]]
      /\ \A g \in File : file'[g].ref = file[g].ref
      /\ \A g \in File : g # rf /\ g # wf => file'[g] = file[g]
      /\ file'[rf].end = "read" /\ file'[wf].end = "write"
  <2>1. file' = [file EXCEPT ![rf].end = "read", ![wf].end = "write"]
    BY <1>3
  <2>2. "read" \in End /\ "write" \in End
    BY DEF End
  <2>3. \A g \in File : file'[g] = IF g = wf THEN [file[wf] EXCEPT !.end = "write"]
                                   ELSE IF g = rf THEN [file[rf] EXCEPT !.end = "read"]
                                   ELSE file[g]
    BY <1>1, <1>2, <2>1
  <2>4. \A g \in File, e \in End : /\ [file[g] EXCEPT !.end = e] \in [ref: Nat, end: End]
                                   /\ [file[g] EXCEPT !.end = e].end = e
                                   /\ [file[g] EXCEPT !.end = e].ref = file[g].ref
    BY <1>1
  <2>5. file' \in [File -> [ref: Nat, end: End]]
    <3>1. \A g \in File : file'[g] \in [ref: Nat, end: End]
      BY SMT, <1>1, <2>2, <2>3, <2>4
    <3>2. DOMAIN file' = File /\ file' = [g \in DOMAIN file' |-> file'[g]]
      BY <1>1, <2>1
    <3> QED
      BY <3>1, <3>2
  <2> QED
    BY SMT, <1>2, <2>2, <2>3, <2>4, <2>5
<1>7. PICK t \in ProcRec :
        /\ proc' = [proc EXCEPT ![p] = t] /\ t.exiting = proc[p].exiting
        /\ \/ /\ t.pc = "user" /\ \A k \in Local : t.f[k] = None
              /\ \E fd0, fd1 \in FD :
                   /\ fd0 # fd1 /\ proc[p].ofile[fd0] = None /\ proc[p].ofile[fd1] = None
                   /\ \A x \in FD : t.ofile[x] = IF x = fd0 THEN rf
                                       ELSE IF x = fd1 THEN wf ELSE proc[p].ofile[x]
           \/ t.pc = "fileclose" /\ t.f = proc[p].f /\ t.ofile = proc[p].ofile
  <2>1. CASE proc' = [proc EXCEPT ![p] = [proc[p] EXCEPT !.pc = "fileclose"]]
    <3>1. "fileclose" \in Pc
      BY DEF Pc
    <3>2. PICK t \in ProcRec : /\ t = [proc[p] EXCEPT !.pc = "fileclose"] /\ t.pc = "fileclose"
                               /\ t.ofile = proc[p].ofile /\ t.f = proc[p].f
                               /\ t.exiting = proc[p].exiting
      <4>1. PICK r \in ProcRec, pc \in Pc : r = proc[p] /\ pc = "fileclose"
        BY <1>1, <3>1
      <4> QED
        BY ZenonT(60), <4>1, PcFacts
    <3> QED
      BY <2>1, <3>2
  <2>2. CASE \E fd0, fd1 \in FD :
                /\ fd0 < fd1 /\ proc[p].ofile[fd0] = None /\ proc[p].ofile[fd1] = None
                /\ proc' = [proc EXCEPT ![p] = Return(
                     [proc[p] EXCEPT !.f = NewProc.f,
                               !.ofile = [proc[p].ofile EXCEPT ![fd0] = rf, ![fd1] = wf]])]
    <3>1. PICK fd0, fd1 \in FD :
                /\ fd0 < fd1 /\ proc[p].ofile[fd0] = None /\ proc[p].ofile[fd1] = None
                /\ proc' = [proc EXCEPT ![p] = Return(
                     [proc[p] EXCEPT !.f = NewProc.f,
                               !.ofile = [proc[p].ofile EXCEPT ![fd0] = rf, ![fd1] = wf]])]
      BY <2>2
    <3>2. fd0 # fd1
      BY SMT, <3>1 DEF FD
    <3> DEFINE o == [proc[p].ofile EXCEPT ![fd0] = rf, ![fd1] = wf]
               s == [proc[p] EXCEPT !.f = NewProc.f, !.ofile = o]
    <3>3. /\ o \in [FD -> File \cup {None}]
          /\ \A x \in FD : o[x] = IF x = fd0 THEN rf ELSE IF x = fd1 THEN wf ELSE proc[p].ofile[x]
      BY <1>1, <3>2
    <3> HIDE DEF o
    <3>4. s \in ProcRec /\ s.f = NewProc.f /\ s.ofile = o /\ s.exiting = proc[p].exiting
      BY <1>1, <3>3, NewProcFacts DEF ProcRec
    <3> HIDE DEF s
    <3>5. PICK t \in ProcRec : /\ t = Return(s) /\ t.pc = "user" /\ t.f = NewProc.f /\ t.ofile = o
                               /\ t.exiting = proc[p].exiting
      BY SMT, <3>4, ReturnFacts
    <3>6. proc' = [proc EXCEPT ![p] = t]
      BY <3>1, <3>5 DEF s, o
    <3>7. \A k \in Local : t.f[k] = None
      BY <3>5, NewProcFacts
    <3>8. \A x \in FD : t.ofile[x] = IF x = fd0 THEN rf ELSE IF x = fd1 THEN wf ELSE proc[p].ofile[x]
      BY <3>3, <3>5
    <3>9. proc[p].ofile[fd0] = None /\ proc[p].ofile[fd1] = None
      BY <3>1
    <3>10. \E a, b \in FD :
             /\ a # b /\ proc[p].ofile[a] = None /\ proc[p].ofile[b] = None
             /\ \A x \in FD : t.ofile[x] = IF x = a THEN rf ELSE IF x = b THEN wf
                                           ELSE proc[p].ofile[x]
      BY <3>2, <3>8, <3>9
    <3>11. t \in ProcRec /\ t.pc = "user" /\ t.exiting = proc[p].exiting
      BY <3>5
    <3> QED
      BY <3>6, <3>7, <3>10, <3>11
  <2> QED
    BY <1>3, <2>1, <2>2
<1>8. /\ proc' \in [Proc -> ProcRec] /\ proc'[p] = t /\ Others(p)
      /\ \A q \in Proc : q # p => proc'[q] = proc[q]
  BY <1>1, <1>7, OneProc
<1>9. TypeOK'
  BY ZenonT(60), <1>0, <1>1, <1>4, <1>5, <1>6, <1>8 DEF TypeOK, PiRec
<1>10. FilesInv'
  <2>1. ~proc[p].exiting
    BY <1>0 DEF PlaceInv, At
  <2> QED
    BY SMT, <1>0, <1>2, <1>4, <1>6, <1>7, <1>8, <2>1, KallocStep
<1>11. LockInv' /\ SleepInv'
  <2>1. \A q \in Proc : proc[q].pc \notin {"sleep_nread", "sleep_nwrite"}
    BY <1>0, InUse DEF PipeInUse
  <2>2. \A q \in Proc : proc'[q].pc \notin {"sleep_nread", "sleep_nwrite"}
    BY <1>7, <1>8, <2>1
  <2>3. proc[p].pc # "copyin" /\ proc'[p].pc # "copyin"
    BY <1>0, <1>7, <1>8 DEF At
  <2> QED
    BY <1>0, <1>8, <2>2, <2>3, NoSleeper
<1> QED
  BY <1>9, <1>10, <1>11 DEF PipeInv

LEMMA ForkInv ==
  ASSUME CardinalityFacts, PipeInv, NEW p \in Proc, NEW np \in Proc, fork(p, np)
  PROVE  PipeInv'
<1>0. /\ TypeOK /\ FilesInv /\ LockInv /\ SleepInv /\ PlaceInv(np)
      /\ At(p, "user") /\ At(np, "unused") /\ UNCHANGED <<page, pi, lock, cut>>
      /\ file' = [f \in File |-> [file[f] EXCEPT !.ref = file[f].ref + Refs(proc[p], f)]]
  BY DEF PipeInv, FilesInv, fork, InUser
<1>1. /\ file \in [File -> [ref: Nat, end: End]] /\ proc \in [Proc -> ProcRec]
      /\ lock \in Proc \cup {None} /\ cut \in BOOLEAN /\ page \in BOOLEAN /\ None \notin Proc
      /\ proc[p].ofile \in [FD -> File \cup {None}]
  BY <1>0, PipeAssumption DEF TypeOK, ProcRec
<1>2. PICK t \in ProcRec : /\ t = [NewProc EXCEPT !.pc = "user", !.ofile = proc[p].ofile]
                           /\ t.pc = "user" /\ t.ofile = proc[p].ofile /\ t.f = NewProc.f
                           /\ t.exiting = NewProc.exiting
  <2> DEFINE t == [NewProc EXCEPT !.pc = "user", !.ofile = proc[p].ofile]
  <2>1. /\ t \in ProcRec /\ t.pc = "user" /\ t.ofile = proc[p].ofile /\ t.f = NewProc.f
        /\ t.exiting = NewProc.exiting
    BY <1>1, NewProcFacts DEF ProcRec, Pc
  <2> QED
    BY <2>1
<1>3. proc' = [proc EXCEPT ![np] = t]
  BY <1>2 DEF fork
<1>4. /\ proc' \in [Proc -> ProcRec] /\ proc'[np] = t /\ Others(np)
      /\ \A q \in Proc : q # np => proc'[q] = proc[q]
  BY <1>1, <1>3, OneProc
<1>5. \A f \in File : Refs(proc[p], f) \in Nat
  <2>1. NOFILE \in Int /\ 1 \in Int
    BY SMT, PipeAssumption
  <2>2. IsFiniteSet(FD)
    BY <2>1, CF_Interval DEF FD
  <2>3. ASSUME NEW f \in File PROVE IsFiniteSet({fd \in FD : proc[p].ofile[fd] = f})
    <3>1. {fd \in FD : proc[p].ofile[fd] = f} \in SUBSET FD
      OBVIOUS
    <3> QED
      BY <2>2, <3>1, CF_Subset
  <2> QED
    BY <2>3, CF_Type DEF Refs
<1>6. /\ \A f \in File : file'[f].ref = file[f].ref + Refs(proc[p], f)
      /\ \A f \in File : file'[f].end = file[f].end
      /\ file' \in [File -> [ref: Nat, end: End]]
  BY SMT, <1>0, <1>1, <1>5
<1>7. TypeOK'
  BY <1>0, <1>1, <1>4, <1>6, TypeQuiet
<1>8. t.f = proc[np].f /\ ~t.exiting
  BY <1>0, <1>2, NewProcFacts DEF PlaceInv
<1>9. FilesInv'
  <2>1. /\ TypeOK /\ FilesInv /\ At(p, "user") /\ At(np, "unused") /\ page' = page /\ pi' = pi
        /\ proc'[np].ofile = proc[p].ofile /\ proc'[np].f = proc[np].f
        /\ proc'[np].pc = "user" /\ ~proc'[np].exiting
    BY <1>0, <1>2, <1>4, <1>8
  <2>2. \A f \in File : file'[f].ref = file[f].ref + Refs(proc[p], f)
    BY <1>6
  <2>3. \A f \in File : file'[f].end = file[f].end
    BY <1>6
  <2>4. \A q \in Proc : q # np => proc'[q] = proc[q]
    BY <1>4
  <2> QED
    BY <2>1, <2>2, <2>3, <2>4, ForkStep
<1>10. LockInv' /\ SleepInv'
  <2>1. proc[np].pc # "copyin" /\ proc'[np].pc = "user"
    BY <1>0, <1>2, <1>4 DEF At
  <2> QED
    BY <1>0, <1>1, <1>4, <2>1, QuietStep
<1> QED
  BY <1>7, <1>9, <1>10 DEF PipeInv

\* The critical section of fileclose(), for a descriptor of p that r has in f[k]
\* or for a file that pipealloc() has got.
LEMMA FilecloseInv ==
  ASSUME CardinalityFacts, PipeInv, NEW p \in Proc, NEW r \in ProcRec, NEW k \in Local, NEW f \in File,
         f = r.f[k], Fileclose(p, r, k), proc[p].pc \in {"user", "exit", "fileclose"},
         r.exiting => \A x \in Local : x # k => r.f[x] = None,
         \/ /\ \E fd \in FD :
                 /\ proc[p].ofile[fd] = f
                 /\ \A x \in FD : r.ofile[x] = IF x = fd THEN None ELSE proc[p].ofile[x]
            /\ \A x \in Local : proc[p].f[x] = None /\ (x # k => r.f[x] = None)
         \/ r.ofile = proc[p].ofile /\ r.f = proc[p].f
  PROVE  PipeInv'
<1>0. TypeOK /\ FilesInv /\ LockInv /\ SleepInv
  BY DEF PipeInv
<1>1. /\ file \in [File -> [ref: Nat, end: End]] /\ proc \in [Proc -> ProcRec]
      /\ lock \in Proc \cup {None} /\ cut \in BOOLEAN /\ page \in BOOLEAN /\ None \notin Proc
      /\ r.f \in [Local -> File \cup {None}] /\ proc[p].f \in [Local -> File \cup {None}]
      /\ r.ofile \in [FD -> File \cup {None}]
  BY <1>0, PipeAssumption DEF TypeOK, ProcRec
<1> DEFINE fn == [r.f EXCEPT ![k] = None]
           rest == [r EXCEPT !.f = fn]
           last == file[f].ref = 1
           moved == [rest EXCEPT !.pc = "pipeclose", !.end = file[f].end]
<1>2. /\ fn \in [Local -> File \cup {None}]
      /\ \A x \in Local : fn[x] = IF x = k THEN None ELSE r.f[x]
  BY <1>1
<1>3. /\ file' = [file EXCEPT ![f] = IF last THEN Unreferenced(file[f])
                                     ELSE [file[f] EXCEPT !.ref = file[f].ref - 1]]
      /\ proc' = [proc EXCEPT ![p] = IF last /\ file[f].end # None THEN moved ELSE Closed(rest)]
      /\ UNCHANGED <<page, pi, lock, cut>>
  BY DEF Fileclose
<1> HIDE DEF fn
<1>4. rest \in ProcRec /\ rest.f = fn /\ rest.ofile = r.ofile /\ rest.exiting = r.exiting
  BY <1>2 DEF ProcRec
<1> HIDE DEF rest
<1>5. /\ moved \in ProcRec /\ moved.pc = "pipeclose" /\ moved.end = file[f].end
      /\ moved.f = fn /\ moved.ofile = r.ofile /\ moved.exiting = r.exiting
  <2>1. file[f].end \in End /\ "pipeclose" \in Pc
    BY <1>1 DEF Pc
  <2> QED
    BY <1>4, <2>1 DEF ProcRec
<1> HIDE DEF moved
<1>6. Closed(rest) \in ProcRec /\ Closed(rest).f = fn /\ Closed(rest).ofile = r.ofile
  BY <1>4, ClosedFacts
<1> DEFINE t == IF last /\ file[f].end # None THEN moved ELSE Closed(rest)
<1>7. t \in ProcRec /\ t.f = fn /\ t.ofile = r.ofile
  BY <1>5, <1>6
<1>8. proc' = [proc EXCEPT ![p] = t]
  BY <1>3
<1>9. /\ proc' \in [Proc -> ProcRec] /\ proc'[p] = t /\ Others(p)
      /\ \A q \in Proc : q # p => proc'[q] = proc[q]
  <2> HIDE DEF t
  <2> QED
    BY <1>1, <1>7, <1>8, OneProc
<1>10. /\ proc'[p].f = fn /\ proc'[p].ofile = r.ofile
       /\ last /\ file[f].end # None => proc'[p] = moved
       /\ ~(last /\ file[f].end # None) => proc'[p] = Closed(rest)
  BY <1>7, <1>9
<1> HIDE DEF t
<1>11. r.exiting => \A x \in Local : fn[x] = None
  BY <1>2
<1>12. /\ PlaceInv(p)'
       /\ IF last /\ file[f].end # None
          THEN proc'[p].pc = "pipeclose" /\ proc'[p].end = file[f].end
          ELSE proc'[p].pc # "pipeclose"
  <2>1. CASE last /\ file[f].end # None
    BY <1>5, <1>10, <1>11, <2>1 DEF PlaceInv, At, NoLocal, Reading, Writing
  <2>2. CASE ~(last /\ file[f].end # None)
    <3>1. proc'[p] = Closed(rest) /\ rest \in ProcRec
      BY <1>4, <1>10, <2>2
    <3>2. rest.exiting => \A x \in Local : rest.f[x] = None
      BY <1>4, <1>11
    <3>3. PlaceInv(p)' /\ ~At(p, "pipeclose")'
      BY <3>1, <3>2, ClosedPlace
    <3> QED
      BY <2>2, <3>3 DEF At
  <2> QED
    BY <2>1, <2>2
<1>13. /\ file' \in [File -> [ref: Nat, end: End]]
       /\ \A g \in File : g # f => file'[g] = file[g]
       /\ file[f].ref = 1 => file'[f].ref = 0 /\ file'[f].end = None
       /\ file[f].ref # 1 => file'[f].ref = file[f].ref - 1 /\ file'[f].end = file[f].end
  <2>1. file[f].ref >= 1
    <3>1. Points(p, f)
      BY DEF Points
    <3> QED
      BY <1>0, <3>1, PointsCounted DEF FilesInv
  <2>2. PICK g \in [ref: Nat, end: End] :
          /\ g = IF last THEN Unreferenced(file[f]) ELSE [file[f] EXCEPT !.ref = file[f].ref - 1]
          /\ last => g.ref = 0 /\ g.end = None
          /\ ~last => g.ref = file[f].ref - 1 /\ g.end = file[f].end
    <3>1. PICK h \in [ref: Nat, end: End] : h = file[f]
      BY <1>1
    <3>2. /\ [h EXCEPT !.ref = 0, !.end = None] \in [ref: Nat, end: End]
          /\ [h EXCEPT !.ref = 0, !.end = None].ref = 0
          /\ [h EXCEPT !.ref = 0, !.end = None].end = None
      BY DEF End
    <3>3. /\ [h EXCEPT !.ref = h.ref - 1] \in [ref: Nat, end: End]
          /\ [h EXCEPT !.ref = h.ref - 1].ref = h.ref - 1
          /\ [h EXCEPT !.ref = h.ref - 1].end = h.end
      BY SMT, <2>1, <3>1
    <3> QED
      BY <3>1, <3>2, <3>3 DEF Unreferenced
  <2>3. file' = [file EXCEPT ![f] = g]
    BY <1>3, <2>2
  <2> QED
    BY <1>1, <2>2, <2>3
<1>14. TypeOK'
  BY <1>0, <1>1, <1>3, <1>9, <1>13, TypeQuiet
<1>15. FilesInv'
  <2>1. \/ /\ \E fd \in FD :
                /\ proc[p].ofile[fd] = f
                /\ \A x \in FD : proc'[p].ofile[x] = IF x = fd THEN None ELSE proc[p].ofile[x]
           /\ proc'[p].f = proc[p].f
        \/ /\ \E y \in Local :
                /\ proc[p].f[y] = f
                /\ \A x \in Local : proc'[p].f[x] = IF x = y THEN None ELSE proc[p].f[x]
           /\ proc'[p].ofile = proc[p].ofile
    <3>1. CASE /\ \E fd \in FD :
                   /\ proc[p].ofile[fd] = f
                   /\ \A x \in FD : r.ofile[x] = IF x = fd THEN None ELSE proc[p].ofile[x]
               /\ \A x \in Local : proc[p].f[x] = None /\ (x # k => r.f[x] = None)
      <4>1. \A x \in Local : fn[x] = proc[p].f[x]
        BY <1>2, <3>1
      <4>2. fn = proc[p].f
        BY SMT, <1>1, <1>2, <4>1
      <4> QED
        BY SMT, <1>10, <3>1, <4>2
    <3>2. CASE r.ofile = proc[p].ofile /\ r.f = proc[p].f
      BY SMT, <1>2, <1>10, <3>2
    <3> QED
      BY <3>1, <3>2
  <2>2. ~At(p, "pipeclose") /\ page' = page /\ pi' = pi
    BY <1>3 DEF At
  <2> HIDE DEF last
  <2> QED
    BY <1>0, <1>9, <1>12, <1>13, <2>1, <2>2, CloseStep DEF last
<1>16. LockInv' /\ SleepInv'
  <2>1. proc'[p].pc \notin {"copyin", "sleep_nread", "sleep_nwrite"}
    <3>1. Closed(rest).pc \in {"fileclose", "user", "exit", "unused"}
      BY <1>4, ClosedFacts, NewProcFacts
    <3> QED
      BY <1>5, <1>10, <3>1
  <2> QED
    BY <1>0, <1>1, <1>3, <1>9, <2>1, QuietStep
<1> QED
  BY <1>14, <1>15, <1>16 DEF PipeInv

LEMMA ClosingFacts ==
  ASSUME NEW r \in ProcRec, NEW fd \in FD, r.ofile[fd] # None
  PROVE  /\ Closing(r, fd) \in ProcRec /\ Closing(r, fd).exiting = r.exiting
         /\ Closing(r, fd).f[0] = r.ofile[fd] /\ r.ofile[fd] \in File
         /\ \A x \in Local : x # 0 => Closing(r, fd).f[x] = r.f[x]
         /\ \A x \in FD : Closing(r, fd).ofile[x] = IF x = fd THEN None ELSE r.ofile[x]
<1> DEFINE fn == [r.f EXCEPT ![0] = r.ofile[fd]]
           o == [r.ofile EXCEPT ![fd] = None]
<1>1. r.f \in [Local -> File \cup {None}] /\ r.ofile \in [FD -> File \cup {None}] /\ 0 \in Local
  BY DEF ProcRec, Local
<1>2. /\ fn \in [Local -> File \cup {None}] /\ fn[0] = r.ofile[fd] /\ r.ofile[fd] \in File
      /\ \A x \in Local : x # 0 => fn[x] = r.f[x]
  BY <1>1
<1>3. /\ o \in [FD -> File \cup {None}]
      /\ \A x \in FD : o[x] = IF x = fd THEN None ELSE r.ofile[x]
  BY <1>1
<1>4. Closing(r, fd) = [r EXCEPT !.f = fn, !.ofile = o]
  BY DEF Closing
<1> HIDE DEF fn, o
<1>5. /\ Closing(r, fd) \in ProcRec /\ Closing(r, fd).exiting = r.exiting
      /\ Closing(r, fd).f = fn /\ Closing(r, fd).ofile = o
  BY <1>2, <1>3, <1>4 DEF ProcRec
<1> QED
  BY <1>2, <1>3, <1>5

\* close() of a descriptor, by a process that has no other file to close.
LEMMA ClosingInv ==
  ASSUME CardinalityFacts, PipeInv, NEW p \in Proc, NEW r \in ProcRec, NEW fd \in FD, r.ofile[fd] # None,
         r.ofile = proc[p].ofile, \A x \in Local : r.f[x] = None,
         proc[p].pc \in {"user", "exit"}, Fileclose(p, Closing(r, fd), 0)
  PROVE  PipeInv'
<1>1. PlaceInv(p) /\ 0 \in Local
  BY DEF PipeInv, FilesInv, Local
<1>2. \A x \in Local : proc[p].f[x] = None
  BY <1>1 DEF PlaceInv, NoLocal
<1>3. PICK c \in ProcRec : c = Closing(r, fd)
  BY ClosingFacts
<1>4. PICK f \in File : f = proc[p].ofile[fd]
  BY ClosingFacts
<1>5. /\ f = c.f[0] /\ \A x \in Local : x # 0 => c.f[x] = None
      /\ \A x \in FD : c.ofile[x] = IF x = fd THEN None ELSE proc[p].ofile[x]
  BY SMT, <1>3, <1>4, ClosingFacts
<1>6. Fileclose(p, c, 0) /\ proc[p].pc \in {"user", "exit", "fileclose"}
  BY <1>3
<1>7. /\ \E y \in FD :
           /\ proc[p].ofile[y] = f
           /\ \A x \in FD : c.ofile[x] = IF x = y THEN None ELSE proc[p].ofile[x]
      /\ \A x \in Local : proc[p].f[x] = None /\ (x # 0 => c.f[x] = None)
  BY <1>2, <1>4, <1>5
<1> QED
  BY <1>1, <1>5, <1>6, <1>7, FilecloseInv

LEMMA SysCloseStep ==
  ASSUME CardinalityFacts, PipeInv, NEW p \in Proc, NEW fd \in FD, sys_close(p, fd)
  PROVE  PipeInv'
<1>1. PICK r \in ProcRec : r = proc[p]
  BY DEF PipeInv, TypeOK
<1>2. /\ proc[p].pc = "user" /\ r.ofile[fd] # None /\ Fileclose(p, Closing(r, fd), 0)
      /\ \A x \in Local : r.f[x] = None
  BY <1>1 DEF sys_close, InUser, At, PipeInv, FilesInv, PlaceInv, NoLocal
<1> QED
  BY <1>1, <1>2, ClosingInv

LEMMA ExitStep ==
  ASSUME CardinalityFacts, PipeInv, NEW p \in Proc, exit(p) \/ exit_next(p)
  PROVE  PipeInv'
<1>0. proc[p] \in ProcRec /\ PlaceInv(p)
  BY DEF PipeInv, TypeOK, FilesInv
<1>1. CASE exit_next(p)
  <2>1. PICK r \in ProcRec : r = proc[p]
    BY <1>0
  <2>2. /\ proc[p].pc = "exit" /\ \A x \in Local : r.f[x] = None
        /\ \E fd \in FD : r.ofile[fd] # None /\ Fileclose(p, Closing(r, fd), 0)
    BY <1>0, <1>1, <2>1 DEF exit_next, At, ExitLoop, PlaceInv, NoLocal
  <2> QED
    BY <2>1, <2>2, ClosingInv
<1>2. CASE At(p, "user") /\ ExitLoop(p, [NewProc EXCEPT !.ofile = proc[p].ofile, !.exiting = TRUE])
  <2>1. PICK r \in ProcRec : /\ r = [NewProc EXCEPT !.ofile = proc[p].ofile, !.exiting = TRUE]
                             /\ r.ofile = proc[p].ofile /\ r.f = NewProc.f
    <3> DEFINE r == [NewProc EXCEPT !.ofile = proc[p].ofile, !.exiting = TRUE]
    <3>1. r \in ProcRec /\ r.ofile = proc[p].ofile /\ r.f = NewProc.f
      BY <1>0, NewProcFacts DEF ProcRec
    <3> QED
      BY <3>1
  <2>2. /\ proc[p].pc = "user" /\ \A x \in Local : r.f[x] = None
        /\ \E fd \in FD : r.ofile[fd] # None /\ Fileclose(p, Closing(r, fd), 0)
    BY <1>2, <2>1, NewProcFacts DEF At, ExitLoop
  <2> QED
    BY <2>1, <2>2, ClosingInv
<1>3. CASE /\ At(p, "user") /\ \A fd \in FD : proc[p].ofile[fd] = None
           /\ proc' = [proc EXCEPT ![p] = NewProc]
           /\ UNCHANGED <<file, page, pi, lock, cut>>
  <2>1. /\ proc[p].ofile \in [FD -> File \cup {None}] /\ proc[p].f \in [Local -> File \cup {None}]
        /\ \A k \in Local : proc[p].f[k] = None
    BY <1>0, <1>3 DEF ProcRec, PlaceInv, At, NoLocal
  <2>2. proc[p].ofile = [fd \in FD |-> None] /\ proc[p].f = [k \in Local |-> None]
    BY <1>3, <2>1
  <2>3. NewProc.ofile = proc[p].ofile /\ NewProc.f = proc[p].f
    BY <2>2 DEF NewProc
  <2> QED
    BY <1>3, <2>3, NewProcFacts, CalmInv DEF At
<1> QED
  BY <1>1, <1>2, <1>3 DEF exit

LEMMA FilecloseStep ==
  ASSUME CardinalityFacts, PipeInv, NEW p \in Proc, fileclose(p)
  PROVE  PipeInv'
<1>0. PlaceInv(p) /\ proc[p].pc = "fileclose"
  BY DEF PipeInv, FilesInv, fileclose, At
<1>1. PICK r \in ProcRec : r = proc[p]
  BY DEF PipeInv, TypeOK
<1>2. PICK k \in Local : k = IF proc[p].f[0] # None THEN 0 ELSE 1
  BY DEF Local
<1>3. Fileclose(p, r, k)
  BY <1>1, <1>2 DEF fileclose
<1>4. PICK f \in File : f = r.f[k]
  <2>1. r.f[k] # None
    BY <1>0, <1>1, <1>2 DEF PlaceInv, NoLocal, At, Local
  <2> QED
    BY <2>1 DEF ProcRec
<1>5. ~r.exiting
  BY <1>0, <1>1 DEF PlaceInv
<1> QED
  BY <1>0, <1>1, <1>3, <1>4, <1>5, FilecloseInv

LEMMA PipecloseInv ==
  ASSUME CardinalityFacts, PipeInv, NEW p \in Proc, pipeclose(p)
  PROVE  PipeInv'
<1>0. /\ TypeOK /\ FilesInv /\ LockInv /\ PlaceInv(p) /\ At(p, "pipeclose")
      /\ file' = file /\ lock' = lock /\ lock = None
  BY DEF PipeInv, FilesInv, pipeclose
<1>1. /\ file \in [File -> [ref: Nat, end: End]] /\ proc \in [Proc -> ProcRec]
      /\ cut \in BOOLEAN /\ pi \in PiRec /\ Used <= PIPESIZE
      /\ proc[p] \in ProcRec /\ proc[p].end \in End
  BY <1>0 DEF TypeOK, PiRec, ProcRec
<1> DEFINE w == proc[p].end = "write"
           after == [pi EXCEPT !.readopen = pi.readopen /\ w, !.writeopen = pi.writeopen /\ ~w]
<1>2. /\ page' = ~Unused(after)
      /\ pi' = IF page' THEN after ELSE NoPipe
      /\ proc' = Wakeup([proc EXCEPT ![p] = Closed(proc[p])],
                        IF w THEN "sleep_nread" ELSE "sleep_nwrite")
      /\ cut' = (cut /\ page' /\ ~w)
  BY DEF pipeclose
<1>3. /\ after \in PiRec /\ after.readopen = (pi.readopen /\ w)
      /\ after.writeopen = (pi.writeopen /\ ~w)
      /\ after.nread = pi.nread /\ after.nwrite = pi.nwrite
  <2>1. (pi.readopen /\ w) \in BOOLEAN /\ (pi.writeopen /\ ~w) \in BOOLEAN
    BY <1>1
  <2>2. PICK a, b \in BOOLEAN : a = (pi.readopen /\ w) /\ b = (pi.writeopen /\ ~w)
    BY <2>1
  <2>3. after = [pi EXCEPT !.readopen = a, !.writeopen = b]
    BY <2>2
  <2> HIDE DEF after, w
  <2> QED
    BY <1>1, <2>2, <2>3 DEF PiRec
<1> HIDE DEF after
<1>4. /\ NoPipe \in PiRec /\ NoPipe.readopen = FALSE /\ NoPipe.writeopen = FALSE
      /\ NoPipe.nread = 0 /\ NoPipe.nwrite = 0
  <2>1. 0 \in 0..(UINT - 1)
    BY SMT, PipeAssumption
  <2> QED
    BY <2>1 DEF NoPipe, PiRec
<1>5. /\ pi' \in PiRec
      /\ pi'.readopen = (pi.readopen /\ w) /\ pi'.writeopen = (pi.writeopen /\ ~w)
      /\ page' = (pi'.readopen \/ pi'.writeopen)
      /\ page' \in BOOLEAN /\ cut' \in BOOLEAN
      /\ \/ pi'.nread = pi.nread /\ pi'.nwrite = pi.nwrite
         \/ pi'.nread = 0 /\ pi'.nwrite = 0
  <2> HIDE DEF w
  <2>1. page' = (after.readopen \/ after.writeopen) /\ page' \in BOOLEAN
    BY <1>2 DEF Unused
  <2>2. CASE page'
    BY <1>2, <1>3, <2>1, <2>2
  <2>3. CASE ~page'
    BY <1>2, <1>3, <1>4, <2>1, <2>3
  <2> QED
    BY <2>1, <2>2, <2>3
<1>6. Used' <= PIPESIZE
  <2>1. CASE pi'.nread = pi.nread /\ pi'.nwrite = pi.nwrite
    BY <1>1, <2>1 DEF Used
  <2>2. CASE pi'.nread = 0 /\ pi'.nwrite = 0
    BY SMT, <1>5, <2>2, UsedPrimed, PipeAssumption
  <2> QED
    BY <1>5, <2>1, <2>2
<1>7. PICK s \in {"sleep_nread", "sleep_nwrite"} : s = IF w THEN "sleep_nread" ELSE "sleep_nwrite"
  OBVIOUS
<1>8. PICK t \in ProcRec : /\ t = Closed(proc[p]) /\ t.ofile = proc[p].ofile /\ t.f = proc[p].f
                           /\ t.pc \in {"fileclose", "user", "exit", "unused"}
  <2>1. PICK r \in ProcRec : r = proc[p]
    BY <1>1
  <2>2. /\ Closed(r) \in ProcRec /\ Closed(r).ofile = r.ofile /\ Closed(r).f = r.f
        /\ Closed(r).pc \in {"fileclose", "user", "exit", "unused"}
    BY ClosedFacts, NewProcFacts
  <2> QED
    BY <2>1, <2>2
<1>9. /\ proc' \in [Proc -> ProcRec] /\ proc'[p] = t /\ Others(p)
      /\ \A q \in Proc : proc'[q].pc # s
  <2>1. PICK ps \in [Proc -> ProcRec] : /\ ps = [proc EXCEPT ![p] = t] /\ ps[p] = t
                                        /\ \A q \in Proc : q # p => ps[q] = proc[q]
    <3> DEFINE ps == [proc EXCEPT ![p] = t]
    <3>1. proc \in [Proc -> ProcRec]
      BY <1>1
    <3>2. ps \in [Proc -> ProcRec] /\ ps[p] = t /\ \A q \in Proc : q # p => ps[q] = proc[q]
      BY <3>1
    <3> QED
      BY <3>2
  <2>2. proc' = Wakeup(ps, s) /\ t.pc # s
    BY <1>2, <1>7, <1>8, <2>1
  <2>3. proc \in [Proc -> ProcRec]
    BY <1>1
  <2> QED
    <3>1. proc' = Wakeup(ps, s)
      BY <2>2
    <3>2. ps[p] = t /\ t.pc # s
      BY <2>1, <2>2
    <3>3. \A q \in Proc : q # p => ps[q] = proc[q]
      BY <2>1
    <3> QED
      BY SMT, <2>3, <3>1, <3>2, <3>3, WakeupFacts
<1>10. TypeOK'
  BY <1>0, <1>1, <1>5, <1>6, <1>9 DEF TypeOK, PiRec
<1>11. FilesInv'
  <2>1. PlaceInv(p)' /\ ~At(p, "pipeclose")'
    <3>1. proc[p].exiting => \A k \in Local : proc[p].f[k] = None
      BY <1>0 DEF PlaceInv, NoLocal
    <3>2. proc'[p] = Closed(proc[p])
      BY <1>8, <1>9
    <3> QED
      BY <1>1, <3>1, <3>2, ClosedPlace
  <2>2. proc'[p].ofile = proc[p].ofile /\ proc'[p].f = proc[p].f
    BY <1>8, <1>9
  <2> QED
    BY <1>0, <1>5, <1>9, <2>1, <2>2, PipecloseStep
<1>12. PipeInUse'
  BY <1>10, <1>11, InUse, PTL
<1>13. LockInv' /\ SleepInv'
  <2>1. \A q \in Proc : proc'[q].pc \notin {"sleep_nread", "sleep_nwrite"}
    BY <1>5, <1>7, <1>9, <1>12 DEF PipeInUse
  <2>2. proc[p].pc # "copyin" /\ proc'[p].pc # "copyin"
    BY <1>0, <1>8, <1>9 DEF At
  <2> QED
    BY <1>0, <1>9, <2>1, <2>2, NoSleeper
<1> QED
  BY <1>10, <1>11, <1>13 DEF PipeInv

LEMMA KillStep ==
  ASSUME PipeInv, NEW p \in Proc, kill(p)
  PROVE  PipeInv'
<1>0. /\ TypeOK /\ FilesInv /\ LockInv /\ SleepInv
      /\ UNCHANGED <<file, page, pi, lock, cut>> /\ ~At(p, "unused")
  BY DEF PipeInv, kill
<1>1. /\ file \in [File -> [ref: Nat, end: End]] /\ proc \in [Proc -> ProcRec]
      /\ proc[p] \in ProcRec /\ lock \in Proc \cup {None} /\ None \notin Proc
      /\ page \in BOOLEAN /\ cut \in BOOLEAN
  BY <1>0, PipeAssumption DEF TypeOK
<1>2. PICK r \in ProcRec : /\ r = [proc[p] EXCEPT !.killed = TRUE] /\ r.pc = proc[p].pc
                           /\ r.ofile = proc[p].ofile /\ r.f = proc[p].f /\ r.end = proc[p].end
                           /\ r.exiting = proc[p].exiting /\ r.i = proc[p].i
  <2> DEFINE r == [proc[p] EXCEPT !.killed = TRUE]
  <2>1. /\ r \in ProcRec /\ r.pc = proc[p].pc
        /\ r.ofile = proc[p].ofile /\ r.f = proc[p].f /\ r.end = proc[p].end
        /\ r.exiting = proc[p].exiting /\ r.i = proc[p].i
    BY <1>1 DEF ProcRec
  <2> QED
    BY <2>1
<1>3. PICK t \in ProcRec :
        /\ t = Woken(r) /\ t.ofile = r.ofile /\ t.f = r.f /\ t.end = r.end
        /\ t.exiting = r.exiting /\ t.i = r.i
        /\ t.pc = IF r.pc = "sleep_nread" THEN "piperead"
                   ELSE IF r.pc = "sleep_nwrite" THEN "pipewrite" ELSE r.pc
  BY WokenFacts
<1>4. proc' = [proc EXCEPT ![p] = t]
  BY <1>2, <1>3 DEF kill
<1>5. proc' \in [Proc -> ProcRec] /\ proc'[p] = t /\ Others(p)
  BY <1>1, <1>4, OneProc
<1>6. Same(p)
  BY <1>0, <1>2, <1>3, <1>5 DEF Same, At
<1>7. TypeOK'
  BY <1>0, <1>1, <1>5, TypeQuiet
<1>8. FilesInv'
  <2>1. proc'[p].ofile = proc[p].ofile /\ proc'[p].f = proc[p].f
    BY <1>6 DEF Same
  <2> QED
    BY <1>0, <1>5, <1>6, <2>1, CalmStep
<1>9. \A q \in Proc : Same(q)
  BY <1>5, <1>6 DEF Others
<1>10. LockInv'
  <2>1. \A q \in Proc : At(q, "copyin")' <=> At(q, "copyin")
    BY <1>9 DEF At, Same
  <2> QED
    BY <1>0, <2>1 DEF LockInv
<1>11. SleepInv'
  <2>1. Storing => Storing'
    BY <1>0, <1>1, <1>9 DEF Storing, Same
  <2>2. \A q \in Proc : /\ At(q, "sleep_nread")' => At(q, "sleep_nread")
                        /\ At(q, "sleep_nwrite")' => At(q, "sleep_nwrite")
    BY <1>9 DEF At, Same
  <2>3. (Full' <=> Full) /\ (Empty' <=> Empty)
    BY <1>0 DEF Full, Empty
  <2> QED
    BY <1>0, <2>1, <2>2, <2>3 DEF SleepInv, NoMutualSleep
<1> QED
  BY <1>7, <1>8, <1>10, <1>11 DEF PipeInv

\* acquire(&pi->lock) before the loop of pipewrite().
LEMMA AcquireInv ==
  ASSUME PipeInv, NEW p \in Proc, NEW t \in ProcRec, proc' = [proc EXCEPT ![p] = t],
         lock = None, lock' = p, UNCHANGED <<file, page, pi, cut>>,
         t.pc = "copyin", t.ofile = proc[p].ofile, t.f = proc[p].f, ~t.exiting,
         proc[p].pc \in {"user", "pipewrite"}, \E fd \in FD : Opened(p, fd, "write")
  PROVE  PipeInv'
<1>0. TypeOK /\ FilesInv /\ LockInv /\ SleepInv
  BY DEF PipeInv
<1>1. /\ file \in [File -> [ref: Nat, end: End]] /\ proc \in [Proc -> ProcRec]
      /\ None \notin Proc /\ page \in BOOLEAN /\ cut \in BOOLEAN
  BY <1>0, PipeAssumption DEF TypeOK
<1>2. proc' \in [Proc -> ProcRec] /\ proc'[p] = t /\ Others(p)
  BY <1>1, OneProc
<1>3. TypeOK'
  BY <1>0, <1>1, <1>2, TypeQuiet
<1>4. FilesInv'
  BY <1>0, <1>2, CalmStep DEF Calm, Reading, Writing
<1>5. LockInv'
  BY <1>0, <1>1, <1>2 DEF LockInv, At, Others, Same
<1>6. SleepInv'
  <2>1. ~Storing
    BY DEF Storing
  <2>2. \A q \in Proc : /\ At(q, "sleep_nread")' => At(q, "sleep_nread")
                        /\ At(q, "sleep_nwrite")' => At(q, "sleep_nwrite")
    BY <1>2 DEF At, Others, Same
  <2>3. (Full' <=> Full) /\ (Empty' <=> Empty)
    BY DEF Full, Empty
  <2> QED
    BY <1>0, <2>1, <2>2, <2>3 DEF SleepInv, NoMutualSleep
<1> QED
  BY <1>3, <1>4, <1>5, <1>6 DEF PipeInv

LEMMA WriteBegins ==
  ASSUME PipeInv, NEW p \in Proc,
         pipewrite(p) \/ \E fd \in FD, n \in Count : filewrite(p, fd, n)
  PROVE  PipeInv'
<1>0. proc[p] \in ProcRec /\ PlaceInv(p) /\ "copyin" \in Pc /\ Count \subseteq Nat
  BY PipeAssumption DEF PipeInv, TypeOK, FilesInv, Pc
<1>1. ASSUME NEW fd \in FD, NEW n \in Count, filewrite(p, fd, n) PROVE PipeInv'
  <2> DEFINE t == [proc[p] EXCEPT !.pc = "copyin", !.n = n]
  <2>1. /\ t \in ProcRec /\ t.pc = "copyin" /\ t.ofile = proc[p].ofile /\ t.f = proc[p].f
        /\ t.exiting = proc[p].exiting
    BY <1>0 DEF ProcRec
  <2>2. proc' = [proc EXCEPT ![p] = t]
    BY <1>1 DEF filewrite
  <2>3. /\ lock = None /\ lock' = p /\ UNCHANGED <<file, page, pi, cut>>
        /\ proc[p].pc = "user" /\ Opened(p, fd, "write")
    BY <1>1 DEF filewrite, InUser, At
  <2>4. ~proc[p].exiting
    BY <1>0, <2>3 DEF PlaceInv
  <2> HIDE DEF t
  <2> QED
    BY <2>1, <2>2, <2>3, <2>4, AcquireInv
<1>2. CASE pipewrite(p)
  <2> DEFINE t == [proc[p] EXCEPT !.pc = "copyin"]
  <2>1. /\ t \in ProcRec /\ t.pc = "copyin" /\ t.ofile = proc[p].ofile /\ t.f = proc[p].f
        /\ t.exiting = proc[p].exiting
    BY <1>0 DEF ProcRec
  <2>2. proc' = [proc EXCEPT ![p] = t]
    BY <1>2, <2>1 DEF pipewrite
  <2>3. /\ lock = None /\ lock' = p /\ UNCHANGED <<file, page, pi, cut>>
        /\ proc[p].pc = "pipewrite"
    BY <1>2 DEF pipewrite, At
  <2>4. ~proc[p].exiting /\ \E fd \in FD : Opened(p, fd, "write")
    BY <1>0, <2>3 DEF PlaceInv, Writing
  <2> HIDE DEF t
  <2> QED
    BY <2>1, <2>2, <2>3, <2>4, AcquireInv
<1> QED
  BY <1>1, <1>2

\* The end of a critical section of pipewrite(), with or without wakeup().
LEMMA ReleaseInv ==
  ASSUME PipeInv, NEW p \in Proc, At(p, "copyin"), lock' = None,
         UNCHANGED <<file, page, pi>>, cut' \in BOOLEAN,
         proc' \in [Proc -> ProcRec], Others(p),
         proc'[p].ofile = proc[p].ofile, proc'[p].f = proc[p].f,
         proc'[p].exiting = proc[p].exiting, proc'[p].pc \in {"user", "sleep_nwrite"},
         proc'[p].pc = "sleep_nwrite" => Full /\ pi.readopen,
         \/ \A q \in Proc : proc'[q].pc # "sleep_nread"
         \/ proc'[p].pc = "user" /\ cut' = (cut \/ proc[p].i > 0)
  PROVE  PipeInv'
<1>0. TypeOK /\ FilesInv /\ LockInv /\ SleepInv /\ PlaceInv(p)
  BY DEF PipeInv, FilesInv
<1>1. /\ file \in [File -> [ref: Nat, end: End]] /\ proc \in [Proc -> ProcRec]
      /\ None \notin Proc /\ page \in BOOLEAN
  BY <1>0, PipeAssumption DEF TypeOK
<1>2. TypeOK'
  BY <1>0, <1>1, TypeQuiet
<1>3. FilesInv'
  <2>1. ~proc[p].exiting /\ \E fd \in FD : Opened(p, fd, "write")
    BY <1>0 DEF PlaceInv, At, Writing
  <2>2. proc[p].pc \in Calm /\ proc'[p].pc \in Calm /\ proc'[p].pc \notin Reading
    BY DEF At, Calm, Reading, Writing
  <2> QED
    BY <1>0, <2>1, <2>2, CalmStep
<1>4. lock = p /\ \A q \in Proc : At(q, "copyin") <=> q = p
  BY <1>0 DEF LockInv
<1>5. LockInv'
  <2>1. ASSUME NEW q \in Proc, q # p PROVE ~At(q, "copyin")'
    <3>1. Same(q) /\ ~At(q, "copyin")
      BY <1>4, <2>1 DEF Others
    <3> QED
      BY <3>1 DEF At, Same
  <2>2. \A q \in Proc : ~At(q, "copyin")'
    BY <2>1 DEF At
  <2> QED
    BY <1>1, <2>2 DEF LockInv
<1>6. /\ \A q \in Proc : At(q, "sleep_nread")' => At(q, "sleep_nread")
      /\ \A q \in Proc : At(q, "sleep_nwrite")' => At(q, "sleep_nwrite") \/ (Full /\ pi.readopen)
  <2>1. ASSUME NEW q \in Proc, q # p
        PROVE  /\ At(q, "sleep_nread")' => At(q, "sleep_nread")
               /\ At(q, "sleep_nwrite")' => At(q, "sleep_nwrite")
    <3>1. Same(q)
      BY <2>1 DEF Others
    <3> QED
      BY <3>1 DEF At, Same
  <2> QED
    BY <2>1 DEF At
<1>7. (Full' <=> Full) /\ (Empty' <=> Empty)
  BY DEF Full, Empty
<1>8. SleepInv'
  <2>1. CASE \A q \in Proc : proc'[q].pc # "sleep_nread"
    BY <1>0, <1>6, <1>7, <2>1 DEF SleepInv, NoMutualSleep, At
  <2>2. CASE proc'[p].pc = "user" /\ cut' = (cut \/ proc[p].i > 0)
    <3>1. Storing <=> proc[p].i > 0
      BY <1>1, <1>4 DEF Storing
    <3>2. \A q \in Proc : At(q, "sleep_nwrite")' => At(q, "sleep_nwrite")
      BY <2>2 DEF At, Others, Same
    <3> QED
      BY <1>0, <1>6, <1>7, <2>2, <3>1, <3>2 DEF SleepInv, NoMutualSleep
  <2> QED
    BY <2>1, <2>2
<1> QED
  BY <1>2, <1>3, <1>5, <1>8 DEF PipeInv

LEMMA WriteEnds ==
  ASSUME PipeInv, NEW p \in Proc,
         pipewrite_fails(p) \/ pipewrite_full(p) \/ pipewrite_end(p)
  PROVE  PipeInv'
<1>0. /\ proc \in [Proc -> ProcRec] /\ cut \in BOOLEAN /\ "sleep_nwrite" \in Pc
      /\ At(p, "copyin") /\ lock' = None /\ UNCHANGED <<file, page, pi>>
  BY DEF PipeInv, TypeOK, Pc, pipewrite_fails, pipewrite_full, pipewrite_end, CanWrite, InLoop
<1>1. PICK r \in ProcRec : r = proc[p]
  BY <1>0
<1>2. PICK u \in ProcRec : /\ u = Return(r) /\ u.pc = "user" /\ u.ofile = r.ofile /\ u.f = r.f
                           /\ u.exiting = r.exiting
  BY ReturnFacts
<1>3. CASE pipewrite_fails(p)
  <2>1. proc' = [proc EXCEPT ![p] = u] /\ cut' = (cut \/ proc[p].i > 0)
    BY <1>1, <1>2, <1>3 DEF pipewrite_fails
  <2>2. proc' \in [Proc -> ProcRec] /\ proc'[p] = u /\ Others(p)
    BY <1>0, <2>1, OneProc
  <2>3. cut' \in BOOLEAN
    BY <2>1
  <2> QED
    BY <1>0, <1>1, <1>2, <2>1, <2>2, <2>3, ReleaseInv
<1>4. CASE pipewrite_end(p)
  <2>a. PICK ps \in [Proc -> ProcRec] : /\ ps = [proc EXCEPT ![p] = u] /\ ps[p] = u
                                        /\ \A q \in Proc : q # p => ps[q] = proc[q]
    <3> DEFINE ps == [proc EXCEPT ![p] = u]
    <3>1. proc \in [Proc -> ProcRec]
      BY <1>0
    <3>2. ps \in [Proc -> ProcRec] /\ ps[p] = u /\ \A q \in Proc : q # p => ps[q] = proc[q]
      BY <3>1
    <3> QED
      BY <3>2
  <2>1. proc' = Wakeup(ps, "sleep_nread") /\ cut' = FALSE
    BY <2>a, <1>1, <1>2, <1>4 DEF pipewrite_end
  <2>2. /\ proc' \in [Proc -> ProcRec] /\ proc'[p] = u /\ Others(p)
        /\ \A q \in Proc : proc'[q].pc # "sleep_nread"
    <3>1. PICK s \in {"sleep_nread", "sleep_nwrite"} : s = "sleep_nread"
      OBVIOUS
    <3>2. proc' = Wakeup(ps, s) /\ proc \in [Proc -> ProcRec]
      BY <1>0, <2>1, <3>1
    <3>3. ps[p] = u /\ u.pc # s
      BY <1>2, <2>a, <3>1
    <3>4. \A q \in Proc : q # p => ps[q] = proc[q]
      BY <2>a
    <3> QED
      BY SMT, <3>1, <3>2, <3>3, <3>4, WakeupFacts
  <2>3. cut' \in BOOLEAN
    BY <2>1
  <2> QED
    BY <1>0, <1>1, <1>2, <2>2, <2>3, ReleaseInv
<1>5. CASE pipewrite_full(p)
  <2>0. PICK t \in ProcRec : /\ t = [r EXCEPT !.pc = "sleep_nwrite"] /\ t.pc = "sleep_nwrite"
                             /\ t.ofile = r.ofile /\ t.f = r.f /\ t.exiting = r.exiting
    <3>1. PICK pc \in Pc : pc = "sleep_nwrite"
      BY <1>0
    <3> QED
      BY <3>1, PcFacts
  <2>a. PICK ps \in [Proc -> ProcRec] : /\ ps = [proc EXCEPT ![p] = t] /\ ps[p] = t
                                        /\ \A q \in Proc : q # p => ps[q] = proc[q]
    <3> DEFINE ps == [proc EXCEPT ![p] = t]
    <3>1. proc \in [Proc -> ProcRec]
      BY <1>0
    <3>2. ps \in [Proc -> ProcRec] /\ ps[p] = t /\ \A q \in Proc : q # p => ps[q] = proc[q]
      BY <3>1
    <3> QED
      BY <3>2
  <2>1. /\ proc' = Wakeup(ps, "sleep_nread") /\ cut' = FALSE
        /\ Full /\ pi.readopen
    BY <2>a, <1>1, <1>5, <2>0 DEF pipewrite_full, WakeReaders, CanWrite
  <2>2. /\ proc' \in [Proc -> ProcRec] /\ proc'[p] = t /\ Others(p)
        /\ \A q \in Proc : proc'[q].pc # "sleep_nread"
    <3>1. PICK s \in {"sleep_nread", "sleep_nwrite"} : s = "sleep_nread"
      OBVIOUS
    <3>2. proc' = Wakeup(ps, s) /\ proc \in [Proc -> ProcRec]
      BY <1>0, <2>1, <3>1
    <3>3. ps[p] = t /\ t.pc # s
      BY <2>0, <2>a, <3>1
    <3>4. \A q \in Proc : q # p => ps[q] = proc[q]
      BY <2>a
    <3> QED
      BY SMT, <3>1, <3>2, <3>3, <3>4, WakeupFacts
  <2>3. cut' \in BOOLEAN
    BY <2>1
  <2> QED
    BY <1>0, <1>1, <2>0, <2>1, <2>2, <2>3, ReleaseInv
<1> QED
  BY <1>3, <1>4, <1>5

\* The loop of pipewrite() stores a byte.
LEMMA WriteByteStep ==
  ASSUME PipeInv, NEW p \in Proc, NEW b \in Byte, pipewrite_byte(p, b)
  PROVE  PipeInv'
<1>0. /\ TypeOK /\ FilesInv /\ LockInv /\ SleepInv /\ PlaceInv(p) /\ At(p, "copyin") /\ ~Full
      /\ UNCHANGED <<file, page, lock, cut>>
  BY DEF PipeInv, FilesInv, pipewrite_byte, CanWrite, InLoop
<1>1. /\ proc \in [Proc -> ProcRec] /\ proc[p] \in ProcRec /\ pi \in PiRec /\ Used <= PIPESIZE
      /\ None \notin Proc
  BY <1>0, PipeAssumption DEF TypeOK, PiRec
<1>2. /\ pi' \in PiRec /\ pi'.nread = pi.nread /\ pi'.nwrite = (pi.nwrite + 1) % UINT
      /\ pi'.readopen = pi.readopen /\ pi'.writeopen = pi.writeopen
  <2>1. PICK nw \in 0..(UINT - 1) : nw = (pi.nwrite + 1) % UINT
    <3>1. pi.nwrite \in Nat /\ UINT \in Nat /\ UINT > 0
      BY SMT, <1>1, PipeAssumption DEF PiRec
    <3> QED
      BY SMT, <3>1
  <2>2. PICK d \in [0..(PIPESIZE - 1) -> Byte \cup {None}] :
          d = [pi.data EXCEPT ![WriteIndex] = b]
    BY <1>1 DEF PiRec
  <2>3. pi' = [pi EXCEPT !.data = d, !.nwrite = nw]
    BY <2>1, <2>2 DEF pipewrite_byte
  <2>4. /\ pi' \in PiRec /\ pi'.nread = pi.nread /\ pi'.nwrite = nw
        /\ pi'.readopen = pi.readopen /\ pi'.writeopen = pi.writeopen
    BY <1>1, <2>3 DEF PiRec
  <2> QED
    BY <2>1, <2>4
<1>3. Used' <= PIPESIZE
  <2>1. Used' = Used + 1
    BY <1>0, <1>1, <1>2, UsedStep
  <2>2. Used \in Nat /\ Used # PIPESIZE /\ PIPESIZE \in Nat
    BY <1>0, <1>1, UsedFacts, PipeAssumption
  <2> QED
    BY SMT, <1>1, <2>1, <2>2
<1> DEFINE t == [proc[p] EXCEPT !.i = proc[p].i + 1]
<1>4. /\ t \in ProcRec /\ t.pc = proc[p].pc /\ t.ofile = proc[p].ofile /\ t.f = proc[p].f
      /\ t.exiting = proc[p].exiting /\ t.i > 0
  BY SMT, <1>1 DEF ProcRec
<1>5. proc' = [proc EXCEPT ![p] = t]
  BY DEF pipewrite_byte
<1> HIDE DEF t
<1>6. proc' \in [Proc -> ProcRec] /\ proc'[p] = t /\ Others(p)
  BY <1>1, <1>4, <1>5, OneProc
<1>7. TypeOK'
  BY <1>0, <1>2, <1>3, <1>6 DEF TypeOK, PiRec
<1>8. FilesInv'
  <2>1. ~proc[p].exiting /\ \E fd \in FD : Opened(p, fd, "write")
    BY <1>0 DEF PlaceInv, At, Writing
  <2>2. proc[p].pc \in Calm /\ proc'[p].pc \in Calm /\ proc'[p].pc \notin Reading
    BY <1>0, <1>4, <1>6 DEF At, Calm, Reading, Writing
  <2>3. proc'[p].ofile = proc[p].ofile /\ proc'[p].f = proc[p].f /\ ~proc'[p].exiting
    BY <1>4, <1>6, <2>1
  <2> QED
    BY <1>0, <1>2, <1>6, <2>1, <2>2, <2>3, CalmStep
<1>9. \A q \in Proc : /\ At(q, "copyin")' <=> At(q, "copyin")
                      /\ At(q, "sleep_nread")' => At(q, "sleep_nread")
                      /\ At(q, "sleep_nwrite")' => At(q, "sleep_nwrite")
  BY <1>4, <1>6 DEF At, Others, Same
<1>10. LockInv'
  BY <1>0, <1>9 DEF LockInv
<1>11. SleepInv'
  <2>1. lock' = p /\ proc'[p].i > 0
    BY <1>0, <1>4, <1>6 DEF LockInv
  <2>2. Storing'
    BY <1>1, <2>1 DEF Storing
  <2>3. \A q \in Proc : ~At(q, "sleep_nwrite")'
    BY <1>0, <1>9 DEF SleepInv
  <2> QED
    BY <1>0, <1>2, <1>9, <2>2, <2>3 DEF SleepInv, NoMutualSleep
<1> QED
  BY <1>7, <1>8, <1>10, <1>11 DEF PipeInv

\* piperead() takes bytes from the buffer.
LEMMA TakenFacts ==
  ASSUME pi \in PiRec, Used <= PIPESIZE, NEW k \in Nat, k <= Used,
         pi' = [pi EXCEPT !.nread = (pi.nread + k) % UINT]
  PROVE  /\ pi' \in PiRec /\ pi'.nread = (pi.nread + k) % UINT /\ pi'.nwrite = pi.nwrite
         /\ pi'.data = pi.data /\ pi'.readopen = pi.readopen /\ pi'.writeopen = pi.writeopen
         /\ Used' = Used - k
<1>1. PICK nr \in 0..(UINT - 1) : nr = (pi.nread + k) % UINT
  <2>1. pi.nread \in Nat /\ UINT \in Nat /\ UINT > 0
    BY SMT, PipeAssumption DEF PiRec
  <2> QED
    BY SMT, <2>1
<1>2. pi' = [pi EXCEPT !.nread = nr]
  BY <1>1
<1>3. /\ pi' \in PiRec /\ pi'.nread = nr /\ pi'.nwrite = pi.nwrite
      /\ pi'.data = pi.data /\ pi'.readopen = pi.readopen /\ pi'.writeopen = pi.writeopen
  BY <1>2 DEF PiRec
<1>4. Used' = Used - k
  BY <1>1, <1>3, UsedStep
<1> QED
  BY <1>1, <1>3, <1>4

\* The critical section of piperead().
LEMMA ReadInv ==
  ASSUME PipeInv, NEW p \in Proc, NEW n \in Nat, Piperead(p, n),
         proc[p].pc \in {"user", "piperead"}, \E fd \in FD : Opened(p, fd, "read")
  PROVE  PipeInv'
<1>0. /\ TypeOK /\ FilesInv /\ LockInv /\ SleepInv /\ PlaceInv(p) /\ lock = None
      /\ UNCHANGED <<file, page, lock, cut>>
  BY DEF PipeInv, FilesInv, Piperead
<1>1. /\ proc \in [Proc -> ProcRec] /\ pi \in PiRec /\ Used <= PIPESIZE
      /\ None \notin Proc /\ cut \in BOOLEAN /\ PIPESIZE > 0 /\ PIPESIZE \in Nat
  BY SMT, <1>0, PipeAssumption DEF TypeOK, PiRec
<1>2. PICK r \in ProcRec : r = proc[p]
  BY <1>1
<1>3. PICK u \in ProcRec : /\ u = Return(r) /\ u.pc = "user" /\ u.ofile = r.ofile /\ u.f = r.f
                           /\ u.exiting = r.exiting
  BY ReturnFacts
<1>4. ~r.exiting
  BY <1>0, <1>2 DEF PlaceInv
<1>5. CASE Empty /\ pi.writeopen /\ pi' = pi /\ r.killed /\ proc' = [proc EXCEPT ![p] = u]
  BY <1>0, <1>2, <1>3, <1>4, <1>5, CalmInv DEF Calm, Reading
<1>6. CASE /\ Empty /\ pi.writeopen /\ pi' = pi
           /\ proc' = [proc EXCEPT ![p] = [r EXCEPT !.pc = "sleep_nread", !.n = n]]
  <2> DEFINE t == [r EXCEPT !.pc = "sleep_nread", !.n = n]
  <2>1. /\ t \in ProcRec /\ t.pc = "sleep_nread" /\ t.ofile = r.ofile /\ t.f = r.f
        /\ t.exiting = r.exiting
    BY DEF ProcRec, Pc
  <2>2. proc' = [proc EXCEPT ![p] = t] /\ pi' = pi /\ Empty /\ pi.writeopen
    BY <1>6
  <2> HIDE DEF t
  <2>3. proc' \in [Proc -> ProcRec] /\ proc'[p] = t /\ Others(p)
    BY <1>1, <2>1, <2>2, OneProc
  <2>4. TypeOK'
    BY <1>0, <2>2, <2>3, TypeQuiet DEF TypeOK
  <2>5. FilesInv'
    <3>1. proc[p].pc \in Calm /\ proc'[p].pc \in Calm /\ proc'[p].pc \notin Writing
      BY <2>1, <2>3 DEF Calm, Reading, Writing
    <3>2. proc'[p].ofile = proc[p].ofile /\ proc'[p].f = proc[p].f /\ ~proc'[p].exiting
      BY <1>2, <1>4, <2>1, <2>3
    <3> QED
      BY <1>0, <2>2, <2>3, <3>1, <3>2, CalmStep
  <2>6. \A q \in Proc : /\ At(q, "copyin")' <=> At(q, "copyin")
                        /\ At(q, "sleep_nwrite")' => At(q, "sleep_nwrite")
    BY <2>1, <2>3 DEF At, Others, Same
  <2>7. LockInv'
    BY <1>0, <2>6 DEF LockInv
  <2>8. ~Full
    BY SMT, <1>1, <2>2, UsedFacts
  <2>9. Empty'
    BY <2>2 DEF Empty
  <2>10. SleepInv'
    BY <1>0, <2>2, <2>6, <2>8, <2>9 DEF SleepInv, NoMutualSleep
  <2> QED
    BY <2>4, <2>5, <2>7, <2>10 DEF PipeInv
<1>7. CASE /\ ~Empty \/ ~pi.writeopen
           /\ \E k \in 0..n : k <= Used /\ pi' = [pi EXCEPT !.nread = (pi.nread + k) % UINT]
           /\ proc' = WakeWriters([proc EXCEPT ![p] = u])
  <2>1. PICK k \in 0..n : k <= Used /\ pi' = [pi EXCEPT !.nread = (pi.nread + k) % UINT]
    BY <1>7
  <2>2. /\ pi' \in PiRec /\ pi'.nwrite = pi.nwrite /\ Used' = Used - k
        /\ pi'.readopen = pi.readopen /\ pi'.writeopen = pi.writeopen /\ Used \in Nat
    <3>1. k \in Nat
      BY SMT
    <3>2. Used \in Nat
      BY <1>1, UsedFacts
    <3> QED
      BY <1>1, <2>1, <3>1, <3>2, TakenFacts
  <2>3. Used' <= PIPESIZE
    <3>1. k \in Nat
      BY SMT
    <3> QED
      BY SMT, <1>1, <2>2, <3>1
  <2>4. /\ proc' \in [Proc -> ProcRec] /\ proc'[p] = u /\ Others(p)
        /\ \A q \in Proc : proc'[q].pc # "sleep_nwrite"
    <3>1. PICK s \in {"sleep_nread", "sleep_nwrite"} : s = "sleep_nwrite"
      OBVIOUS
    <3> DEFINE ps == [proc EXCEPT ![p] = u]
    <3>2. ps \in [Proc -> ProcRec] /\ ps[p] = u /\ \A q \in Proc : q # p => ps[q] = proc[q]
      BY <1>1
    <3>3. proc' = Wakeup(ps, s)
      BY <1>7, <3>1 DEF WakeWriters
    <3> HIDE DEF ps
    <3>4. PICK c \in [Proc -> ProcRec] : c = ps
      BY <3>2
    <3>5. proc' = Wakeup(c, s) /\ c[p] = u /\ \A q \in Proc : q # p => c[q] = proc[q]
      BY <3>2, <3>3, <3>4
    <3>6. u.pc # s /\ proc \in [Proc -> ProcRec]
      BY <1>1, <1>3, <3>1
    <3> QED
      BY SMT, <3>1, <3>5, <3>6, WakeupFacts
  <2>5. TypeOK'
    BY <1>0, <2>2, <2>3, <2>4 DEF TypeOK, PiRec
  <2>6. FilesInv'
    <3>1. proc[p].pc \in Calm /\ proc'[p].pc = "user"
      BY <1>3, <2>4 DEF Calm, Reading
    <3>2. proc'[p].ofile = proc[p].ofile /\ proc'[p].f = proc[p].f /\ ~proc'[p].exiting
      BY <1>2, <1>3, <1>4, <2>4
    <3> QED
      BY <1>0, <2>2, <2>4, <3>1, <3>2, CalmStep DEF Calm, Reading, Writing
  <2>7. \A q \in Proc : /\ At(q, "copyin")' <=> At(q, "copyin")
                        /\ At(q, "sleep_nread")' => At(q, "sleep_nread")
    BY <1>3, <2>4 DEF At, Others, Same
  <2>8. LockInv'
    BY <1>0, <2>7 DEF LockInv
  <2>9. SleepInv'
    <3>1. \A q \in Proc : At(q, "sleep_nread") => pi.writeopen /\ cut
      <4>1. ~Storing
        BY <1>0 DEF Storing
      <4> QED
        BY <1>0, <1>7, <4>1 DEF SleepInv
    <3> QED
      BY <1>0, <2>2, <2>4, <2>7, <3>1 DEF SleepInv, NoMutualSleep, At
  <2> QED
    BY <2>5, <2>6, <2>8, <2>9 DEF PipeInv
<1> QED
  BY <1>2, <1>3, <1>5, <1>6, <1>7 DEF Piperead

LEMMA ReadStep ==
  ASSUME PipeInv, NEW p \in Proc,
         piperead(p) \/ \E fd \in FD, n \in Count : fileread(p, fd, n)
  PROVE  PipeInv'
<1>0. proc[p] \in ProcRec /\ PlaceInv(p) /\ Count \subseteq Nat
  BY PipeAssumption DEF PipeInv, TypeOK, FilesInv
<1>1. ASSUME NEW fd \in FD, NEW n \in Count, fileread(p, fd, n) PROVE PipeInv'
  <2>1. n \in Nat /\ Piperead(p, n) /\ proc[p].pc = "user" /\ Opened(p, fd, "read")
    BY <1>0, <1>1 DEF fileread, InUser, At
  <2> QED
    BY <2>1, ReadInv
<1>2. CASE piperead(p)
  <2>1. PICK n \in Nat : n = proc[p].n
    BY <1>0 DEF ProcRec
  <2>2. Piperead(p, n) /\ proc[p].pc = "piperead" /\ \E fd \in FD : Opened(p, fd, "read")
    BY <1>0, <1>2, <2>1 DEF piperead, At, PlaceInv, Reading
  <2> QED
    BY <2>2, ReadInv
<1> QED
  BY <1>1, <1>2

-----------------------------------------------------------------------------
(* The invariant                                                           *)

LEMMA PipeInit ==
  ASSUME CardinalityFacts
  PROVE  Init => PipeInv
<1> SUFFICES ASSUME Init PROVE PipeInv
  OBVIOUS
<1>1. /\ NewProc \in ProcRec /\ NewProc.pc = "unused" /\ ~NewProc.exiting /\ NewProc.end = None
      /\ (\A fd \in FD : NewProc.ofile[fd] = None) /\ \A k \in Local : NewProc.f[k] = None
  BY NewProcFacts DEF NewProc
<1>2. /\ (\A p \in Proc : proc[p] = NewProc) /\ proc \in [Proc -> ProcRec]
      /\ (\A f \in File : file[f].ref = 0 /\ file[f].end = None)
      /\ file \in [File -> [ref: Nat, end: End]]
      /\ page = FALSE /\ lock = None /\ cut = FALSE
  <2>1. (\A p \in Proc : proc[p] = NewProc) /\ proc \in [Proc -> ProcRec]
    BY <1>1 DEF Init
  <2>2. PICK e \in [ref: Nat, end: End] : e = [ref |-> 0, end |-> None]
    BY DEF End
  <2>3. file = [f \in File |-> e] /\ e.ref = 0 /\ e.end = None
    BY <2>2 DEF Init
  <2> QED
    BY <2>1, <2>3 DEF Init
<1>3. /\ pi \in PiRec /\ pi.nread = 0 /\ pi.nwrite = 0 /\ ~pi.readopen /\ ~pi.writeopen
  BY SMT, PipeAssumption DEF Init, NoPipe, PiRec
<1>4. Used = 0
  BY SMTT(40), <1>3, UsedFacts
<1>5. TypeOK
  <2>1. Used <= PIPESIZE
    BY SMT, <1>4, PipeAssumption
  <2>2. page \in BOOLEAN /\ cut \in BOOLEAN /\ lock \in Proc \cup {None}
    BY <1>2
  <2> QED
    BY <1>2, <1>3, <2>1, <2>2 DEF TypeOK, PiRec
<1>6. FilesInv
  <2>1. RefsExact
    <3> SUFFICES ASSUME NEW f \in File
                 PROVE  file[f].ref = Cardinality(Desc(f)) + Cardinality(Locals(f))
      BY DEF RefsExact, Desc, Locals
    <3>1. f # None
      BY PipeAssumption
    <3>2. Desc(f) = {}
      BY <1>1, <1>2, <3>1 DEF Desc
    <3>3. Locals(f) = {}
      BY <1>1, <1>2, <3>1 DEF Locals
    <3>4. Cardinality({}) = 0
      BY CF_Empty
    <3>5. file[f].ref = 0
      BY <1>2
    <3> QED
      BY SMT, <3>2, <3>3, <3>4, <3>5
  <2>2. OneEach
    BY <1>1, <1>2 DEF OneEach, At
  <2>3. EndsOpen
    <3>1. \A e \in End \ {None} : ~IsOpen(e) /\ e # None
      BY <1>3 DEF IsOpen
    <3>2. \A p \in Proc : ~At(p, "pipeclose")
      BY <1>1, <1>2 DEF At
    <3> QED
      BY <1>2, <1>3, <3>1, <3>2 DEF EndsOpen
  <2>4. ASSUME NEW p \in Proc PROVE PlaceInv(p)
    BY <1>1, <1>2 DEF PlaceInv, NoLocal, At, Reading, Writing
  <2> QED
    BY <2>1, <2>2, <2>3, <2>4 DEF FilesInv
<1>7. LockInv
  BY <1>1, <1>2, PipeAssumption DEF LockInv, At
<1>8. SleepInv
  BY <1>1, <1>2 DEF SleepInv, NoMutualSleep, At
<1> QED
  BY <1>5, <1>6, <1>7, <1>8 DEF PipeInv

LEMMA PipeStutter ==
  PipeInv /\ UNCHANGED vars => PipeInv'
<1> SUFFICES ASSUME PipeInv, UNCHANGED <<file, page, pi, lock, proc, cut>> PROVE PipeInv'
  BY DEF vars
<1>1. TypeOK' <=> TypeOK
  BY DEF TypeOK, Used
<1>2. (RefsExact' <=> RefsExact) /\ (OneEach' <=> OneEach) /\ (EndsOpen' <=> EndsOpen)
  BY DEF RefsExact, OneEach, EndsOpen, IsOpen, At
<1>3. \A p \in Proc : PlaceInv(p)' <=> PlaceInv(p)
  BY SMT DEF PlaceInv, NoLocal, Fresh, Opened, At
<1>4. (LockInv' <=> LockInv) /\ (SleepInv' <=> SleepInv)
  BY DEF LockInv, At, SleepInv, Storing, Full, Empty, NoMutualSleep
<1> QED
  BY <1>1, <1>2, <1>3, <1>4 DEF PipeInv, FilesInv

LEMMA PipeNext ==
  ASSUME CardinalityFacts
  PROVE  PipeInv /\ Next => PipeInv'
<1> SUFFICES ASSUME PipeInv, NEW p \in Proc, 
                    \/ sys_pipe(p) \/ pipealloc(p) \/ kalloc(p) \/ kalloc_fails(p)
                    \/ spawn(p) \/ exit(p) \/ exit_next(p) \/ kill(p)
                    \/ fileclose(p) \/ pipeclose(p)
                    \/ \E np \in Proc : fork(p, np)
                    \/ \E fd \in FD : sys_close(p, fd)
                    \/ \E fd \in FD, n \in Count : filewrite(p, fd, n) \/ fileread(p, fd, n)
                    \/ pipewrite(p) \/ pipewrite_fails(p) \/ pipewrite_full(p)
                    \/ pipewrite_end(p)
                    \/ \E b \in Byte : pipewrite_byte(p, b)
                    \/ piperead(p)
             PROVE  PipeInv'
  BY DEF Next
<1>1. CASE sys_pipe(p)
  BY <1>1, SysPipeStep
<1>2. CASE pipealloc(p) \/ kalloc_fails(p)
  BY <1>2, PipeallocStep
<1>3. CASE kalloc(p)
  BY <1>3, KallocInv
<1>4. CASE spawn(p)
  BY <1>4, SpawnStep
<1>5. CASE exit(p) \/ exit_next(p)
  BY <1>5, ExitStep
<1>6. CASE kill(p)
  BY <1>6, KillStep
<1>7. CASE fileclose(p)
  BY <1>7, FilecloseStep
<1>8. CASE pipeclose(p)
  BY <1>8, PipecloseInv
<1>9. CASE \E np \in Proc : fork(p, np)
  BY <1>9, ForkInv
<1>10. CASE \E fd \in FD : sys_close(p, fd)
  BY <1>10, SysCloseStep
<1>11. CASE pipewrite(p) \/ \E fd \in FD, n \in Count : filewrite(p, fd, n)
  BY <1>11, WriteBegins
<1>12. CASE piperead(p) \/ \E fd \in FD, n \in Count : fileread(p, fd, n)
  BY <1>12, ReadStep
<1>13. CASE pipewrite_fails(p) \/ pipewrite_full(p) \/ pipewrite_end(p)
  BY <1>13, WriteEnds
<1>14. CASE \E b \in Byte : pipewrite_byte(p, b)
  BY <1>14, WriteByteStep
<1> QED
  BY <1>1, <1>2, <1>3, <1>4, <1>5, <1>6, <1>7, <1>8, <1>9, <1>10, <1>11, <1>12, <1>13, <1>14

-----------------------------------------------------------------------------
(* The pipe implements the channel                                         *)

LEMMA Division ==
  ASSUME NEW a \in Int
  PROVE  \E q \in Int, r \in 0..(PIPESIZE - 1) : a = PIPESIZE * q + r /\ r = a % PIPESIZE
<1>1. PIPESIZE \in Nat /\ PIPESIZE > 0
  BY SMT, PipeAssumption
<1> QED
  BY SMT, <1>1

\* The remainder is unique.
LEMMA Remainder ==
  ASSUME NEW a \in Int, NEW b \in Int, NEW r \in 0..(PIPESIZE - 1), a = PIPESIZE * b + r
  PROVE  a % PIPESIZE = r
<1>1. PIPESIZE \in Nat /\ PIPESIZE > 0
  BY SMT, PipeAssumption
<1>2. PICK q \in Int, s \in 0..(PIPESIZE - 1) : a = PIPESIZE * q + s /\ s = a % PIPESIZE
  BY SMT, <1>1
<1>3. PICK d \in Int : d = b - q
  BY SMT
<1>4. PIPESIZE * d = s - r
  <2>1. PIPESIZE * (q + d) = PIPESIZE * q + PIPESIZE * d
    BY SMT, <1>1
  <2>2. b = q + d
    BY SMT, <1>3
  <2>3. PIPESIZE * q \in Int /\ PIPESIZE * d \in Int
    BY SMT, <1>1
  <2> QED
    BY SMT, <1>1, <1>2, <2>1, <2>2, <2>3
<1>5. d <= 0
  <2>1. SUFFICES ASSUME d >= 1 PROVE FALSE
    BY SMT
  <2>2. PIPESIZE * d >= PIPESIZE
    BY SMT, <1>1, <2>1
  <2> QED
    BY SMT, <1>1, <1>4, <2>2
<1>6. d >= 0
  <2>1. SUFFICES ASSUME d <= -1 PROVE FALSE
    BY SMT
  <2>2. PIPESIZE * d <= -PIPESIZE
    BY SMT, <1>1, <2>1
  <2> QED
    BY SMT, <1>1, <1>4, <2>2
<1>7. s - r = 0
  <2>1. d = 0
    BY SMT, <1>5, <1>6
  <2>2. PIPESIZE * 0 = 0
    BY SMT, <1>1
  <2> QED
    BY <1>4, <2>1, <2>2
<1>8. s \in Int /\ r \in Int
  BY SMT, <1>1
<1>9. s = r
  BY SMT, <1>7, <1>8
<1> QED
  BY <1>2, <1>9

\* Since the width of the counters is a multiple of PIPESIZE, an index that
\* wraps around stays the same slot of the buffer.
LEMMA SlotWraps ==
  ASSUME NEW x \in Nat, x >= UINT
  PROVE  (x - UINT) % PIPESIZE = x % PIPESIZE
<1>1. PIPESIZE \in Nat /\ PIPESIZE > 0 /\ UINT \in Nat /\ UINT % PIPESIZE = 0
  BY SMT, PipeAssumption
<1>2. PICK m \in Int : UINT = PIPESIZE * m
  BY SMT, <1>1
<1>3. PICK q \in Int, r \in 0..(PIPESIZE - 1) : x = PIPESIZE * q + r /\ r = x % PIPESIZE
  BY SMT, <1>1
<1>4. x - UINT = PIPESIZE * (q - m) + r
  <2>1. PIPESIZE * (q - m) = PIPESIZE * q - PIPESIZE * m
    BY SMT, <1>1
  <2>2. PIPESIZE * q \in Int /\ PIPESIZE * m \in Int
    BY SMT, <1>1
  <2> QED
    BY SMTT(40), <1>1, <1>2, <1>3, <2>1, <2>2
<1>5. x - UINT \in Int /\ q - m \in Int
  BY SMT, <1>1
<1>6. (x - UINT) % PIPESIZE = r
  BY <1>4, <1>5, Remainder
<1> QED
  BY <1>3, <1>6

LEMMA SlotOf ==
  ASSUME NEW x \in Nat, x < 2 * UINT
  PROVE  (x % UINT) % PIPESIZE = x % PIPESIZE
<1>1. UINT \in Nat
  BY PipeAssumption
<1> QED
  BY SMT, <1>1, Wrap, SlotWraps

\* Fewer than PIPESIZE indices in a row are different slots.
LEMMA SlotsDiffer ==
  ASSUME NEW x \in Nat, NEW d \in 1..(PIPESIZE - 1)
  PROVE  (x + d) % PIPESIZE # x % PIPESIZE
<1>1. PIPESIZE \in Nat /\ PIPESIZE > 0
  BY SMT, PipeAssumption
<1>2. PICK q \in Int, r \in 0..(PIPESIZE - 1) : x = PIPESIZE * q + r /\ r = x % PIPESIZE
  BY SMT, <1>1
<1>3. PICK y \in Int : y = x + d
  <2>1. d \in Int
    BY SMT, <1>1
  <2>2. x + d \in Int
    BY SMT, <2>1
  <2> QED
    BY <2>2
<1>4. PICK k \in Int, s \in 0..(PIPESIZE - 1) : y = PIPESIZE * k + s /\ s = y % PIPESIZE
  BY Division
<1>5. SUFFICES ASSUME r = s PROVE FALSE
  BY <1>2, <1>3, <1>4
<1>6. PICK e \in Int : e = k - q
  BY SMT
<1>7. PIPESIZE * e = d
  <2>1. PIPESIZE * (q + e) = PIPESIZE * q + PIPESIZE * e
    BY SMT, <1>1
  <2>2. k = q + e
    BY SMT, <1>6
  <2>3. PICK u \in Int, v \in Int : u = PIPESIZE * q /\ v = PIPESIZE * e
    BY SMT, <1>1
  <2>4. d \in Int /\ r \in Int /\ x \in Int
    BY SMT, <1>1
  <2>5. x = u + r /\ x + d = (u + v) + r
    BY <1>2, <1>3, <1>4, <1>5, <2>1, <2>2, <2>3
  <2>6. v = d
    BY SMTT(40), <2>3, <2>4, <2>5
  <2> QED
    BY <2>3, <2>6
<1>8. CASE e >= 1
  <2>1. PIPESIZE * e >= PIPESIZE
    BY SMT, <1>1, <1>8
  <2> QED
    BY SMT, <1>1, <1>7, <2>1
<1>9. CASE e <= 0
  <2>1. PIPESIZE * e <= 0
    BY SMT, <1>1, <1>9
  <2> QED
    BY SMT, <1>1, <1>7, <2>1
<1> QED
  BY SMT, <1>8, <1>9

\* The bytes of the queue are in consecutive slots of the buffer.
LEMMA QueueFacts ==
  pi \in PiRec /\ page =>
    /\ queue \in Seq(Byte \cup {None}) /\ Len(queue) = Used
    /\ \A j \in 1..Used : queue[j] = pi.data[(pi.nread + j - 1) % PIPESIZE]
<1> SUFFICES ASSUME pi \in PiRec, page
             PROVE  /\ queue \in Seq(Byte \cup {None}) /\ Len(queue) = Used
                    /\ \A j \in 1..Used : queue[j] = pi.data[(pi.nread + j - 1) % PIPESIZE]
  OBVIOUS
<1>1. /\ Used \in Nat /\ Used < UINT /\ UINT \in Nat /\ PIPESIZE \in Nat \ {0}
      /\ pi.nread \in 0..(UINT - 1) /\ pi.data \in [0..(PIPESIZE - 1) -> Byte \cup {None}]
  BY UsedFacts, PipeAssumption DEF PiRec
<1> HIDE DEF Used
<1>2. ASSUME NEW k \in 1..Used
      PROVE  /\ ((pi.nread + k - 1) % UINT) % PIPESIZE = (pi.nread + k - 1) % PIPESIZE
             /\ pi.data[(pi.nread + k - 1) % PIPESIZE] \in Byte \cup {None}
  <2>1. PICK x \in Nat : x = pi.nread + k - 1 /\ x < 2 * UINT
    BY SMT, <1>1
  <2>2. (x % UINT) % PIPESIZE = x % PIPESIZE
    BY <2>1, SlotOf
  <2>3. x % PIPESIZE \in 0..(PIPESIZE - 1)
    BY SMT, <1>1
  <2> QED
    BY <1>1, <2>1, <2>2, <2>3
<1>3. queue = [k \in 1..Used |-> pi.data[(pi.nread + k - 1) % PIPESIZE]]
  BY <1>2 DEF queue
<1>4. queue \in [1..Used -> Byte \cup {None}]
  BY <1>2, <1>3
<1>5. queue \in Seq(Byte \cup {None}) /\ Len(queue) = Used
  BY SMTT(40), <1>1, <1>4
<1> QED
  BY <1>3, <1>5

LEMMA QueuePrimed ==
  (pi \in PiRec /\ page =>
     /\ queue \in Seq(Byte \cup {None}) /\ Len(queue) = Used
     /\ \A j \in 1..Used : queue[j] = pi.data[(pi.nread + j - 1) % PIPESIZE])'
  BY QueueFacts, PTL

\* Sequences with the same elements are equal.
LEMMA SameElements ==
  ASSUME NEW S, NEW s \in Seq(S), NEW t \in Seq(S), Len(s) = Len(t),
         \A k \in 1..Len(s) : s[k] = t[k]
  PROVE  s = t
  BY SMT

\* A byte that pipewrite() stores becomes the last one of the queue: its slot
\* is none of those in use.
LEMMA SendStep ==
  ASSUME CardinalityFacts, PipeInv, PipeInv', NEW p \in Proc, NEW b \in Byte, pipewrite_byte(p, b)
  PROVE  C!Send(b)
<1>0. /\ pi \in PiRec /\ pi' \in PiRec /\ Used <= PIPESIZE /\ page' = page
      /\ CanWrite(p) /\ ~Full /\ At(p, "copyin") /\ pi.readopen
  BY DEF PipeInv, TypeOK, PiRec, pipewrite_byte, CanWrite, InLoop
<1>1. page /\ pi.writeopen
  BY <1>0, InUse DEF PipeInv, PipeInUse, At
<1>2. /\ Used \in Nat /\ Used < PIPESIZE /\ PIPESIZE \in Nat \ {0} /\ UINT \in Nat
      /\ PIPESIZE < UINT /\ pi.nread \in 0..(UINT - 1)
      /\ pi.data \in [0..(PIPESIZE - 1) -> Byte \cup {None}]
  <2>1. Used \in Nat /\ Used # PIPESIZE
    BY <1>0, UsedFacts
  <2> QED
    BY SMTT(40), <1>0, <2>1, PipeAssumption DEF PiRec
<1>3. /\ pi'.data = [pi.data EXCEPT ![WriteIndex] = b] /\ pi'.nread = pi.nread
      /\ pi'.nwrite = (pi.nwrite + 1) % UINT
      /\ pi'.readopen = pi.readopen /\ pi'.writeopen = pi.writeopen
  BY <1>0 DEF pipewrite_byte, PiRec
<1>4. Used' = Used + 1
  BY <1>0, <1>3, UsedStep
<1>5. WriteIndex = (pi.nread + Used) % PIPESIZE /\ WriteIndex \in 0..(PIPESIZE - 1)
  <2>1. PICK x \in Nat : x = pi.nread + Used /\ x < 2 * UINT
    BY SMT, <1>2
  <2>2. x % UINT = pi.nwrite
    <3>1. PICK nw \in 0..(UINT - 1), nr \in 0..(UINT - 1), n \in Nat :
            nw = pi.nwrite /\ nr = pi.nread /\ n = Used
      BY <1>0, <1>2 DEF PiRec
    <3>2. n = (IF nr <= nw THEN nw - nr ELSE nw - nr + UINT) /\ x = nr + n
      BY <1>0, <2>1, <3>1, UsedFacts
    <3>3. x = nw \/ x = nw + UINT
      BY SMT, <1>2, <3>2
    <3>4. x % UINT = IF x < UINT THEN x ELSE x - UINT
      BY <2>1, Wrap
    <3>5. x % UINT = nw
      BY SMT, <1>2, <3>3, <3>4
    <3> QED
      BY <3>1, <3>5
  <2>3. (x % UINT) % PIPESIZE = x % PIPESIZE
    BY <2>1, SlotOf
  <2>4. x % PIPESIZE \in 0..(PIPESIZE - 1)
    BY SMT, <1>2
  <2> QED
    BY <2>1, <2>2, <2>3, <2>4 DEF WriteIndex
<1>6. /\ queue \in Seq(Byte \cup {None}) /\ Len(queue) = Used
      /\ \A j \in 1..Used : queue[j] = pi.data[(pi.nread + j - 1) % PIPESIZE]
  BY <1>0, <1>1, QueueFacts
<1>7. /\ queue' \in Seq(Byte \cup {None}) /\ Len(queue') = Used + 1
      /\ \A k \in 1..(Used + 1) : queue'[k] = pi'.data[(pi.nread + k - 1) % PIPESIZE]
  <2>1. (pi \in PiRec /\ page =>
           /\ queue \in Seq(Byte \cup {None}) /\ Len(queue) = Used
           /\ \A j \in 1..Used : queue[j] = pi.data[(pi.nread + j - 1) % PIPESIZE])'
    BY QueuePrimed
  <2>2. pi' \in PiRec' /\ page'
    BY <1>0, <1>1 DEF PiRec
  <2> QED
    BY <1>3, <1>4, <2>1, <2>2
<1>8. ASSUME NEW k \in 1..Used PROVE queue'[k] = queue[k]
  <2>1. PICK x \in Nat, d \in 1..(PIPESIZE - 1) :
          x = pi.nread + k - 1 /\ x + d = pi.nread + Used
    <3>1. pi.nread + k - 1 \in Nat /\ Used - k + 1 \in 1..(PIPESIZE - 1)
      BY SMT, <1>2
    <3>2. (pi.nread + k - 1) + (Used - k + 1) = pi.nread + Used
      BY SMT, <1>2
    <3> QED
      BY <3>1, <3>2
  <2>2. x % PIPESIZE # WriteIndex
    BY <1>5, <2>1, SlotsDiffer
  <2>3. x % PIPESIZE \in 0..(PIPESIZE - 1)
    BY SMT, <1>2
  <2>4. pi'.data[x % PIPESIZE] = pi.data[x % PIPESIZE]
    BY <1>2, <1>3, <2>2, <2>3
  <2>5. k \in 1..(Used + 1)
    BY SMT, <1>2
  <2> QED
    BY <1>6, <1>7, <2>1, <2>4, <2>5
<1>9. queue'[Used + 1] = b
  <2>1. pi.nread + (Used + 1) - 1 = pi.nread + Used /\ Used + 1 \in 1..(Used + 1)
    BY SMT, <1>2
  <2>2. pi'.data[WriteIndex] = b
    BY <1>2, <1>3, <1>5
  <2>3. queue'[Used + 1] = pi'.data[(pi.nread + (Used + 1) - 1) % PIPESIZE]
    BY <1>7, <2>1
  <2> QED
    BY <1>5, <2>1, <2>2, <2>3
<1>10. queue' = Append(queue, b)
  <2> DEFINE t == Append(queue, b)
  <2>1. /\ t \in Seq(Byte \cup {None}) /\ Len(t) = Used + 1 /\ t[Used + 1] = b
        /\ \A k \in 1..Used : t[k] = queue[k]
    BY SMT, <1>2, <1>6
  <2> HIDE DEF t
  <2>2. \A k \in 1..Len(t) : t[k] = queue'[k]
    <3>1. \A k \in 1..(Used + 1) : k \in 1..Used \/ k = Used + 1
      BY SMT, <1>2
    <3> QED
      BY <1>8, <1>9, <2>1, <3>1
  <2>3. t = queue'
    BY <1>7, <2>1, <2>2, SameElements
  <2> QED
    BY <2>3 DEF t
<1> QED
  BY <1>0, <1>1, <1>2, <1>3, <1>6, <1>10 DEF C!Send

\* piperead() takes the oldest bytes of the queue.
LEMMA TakeStep ==
  ASSUME PipeInv, page, NEW k \in Nat, k <= Used, page' = page,
         pi' = [pi EXCEPT !.nread = (pi.nread + k) % UINT]
  PROVE  /\ queue' = SubSeq(queue, k + 1, Len(queue)) /\ Len(queue) = Used
         /\ Used \in Nat /\ UNCHANGED <<pi.readopen, pi.writeopen>>
<1>0. pi \in PiRec /\ Used <= PIPESIZE
  BY DEF PipeInv, TypeOK, PiRec
<1>1. /\ pi' \in PiRec /\ pi'.nread = (pi.nread + k) % UINT /\ pi'.data = pi.data
      /\ pi'.readopen = pi.readopen /\ pi'.writeopen = pi.writeopen /\ Used' = Used - k
  BY <1>0, TakenFacts
<1>2. /\ Used \in Nat /\ Used < UINT /\ PIPESIZE \in Nat \ {0} /\ UINT \in Nat
      /\ pi.nread \in 0..(UINT - 1)
  BY <1>0, UsedFacts, PipeAssumption DEF PiRec
<1>3. /\ queue \in Seq(Byte \cup {None}) /\ Len(queue) = Used
      /\ \A j \in 1..Used : queue[j] = pi.data[(pi.nread + j - 1) % PIPESIZE]
  BY <1>0, QueueFacts
<1>4. /\ queue' \in Seq(Byte \cup {None}) /\ Len(queue') = Used - k
      /\ \A j \in 1..(Used - k) : queue'[j] = pi.data[(pi'.nread + j - 1) % PIPESIZE]
  <2>1. (pi \in PiRec /\ page =>
           /\ queue \in Seq(Byte \cup {None}) /\ Len(queue) = Used
           /\ \A j \in 1..Used : queue[j] = pi.data[(pi.nread + j - 1) % PIPESIZE])'
    BY QueuePrimed
  <2>2. pi' \in PiRec' /\ page'
    BY <1>1 DEF PiRec
  <2> QED
    BY <1>1, <2>1, <2>2
<1>5. ASSUME NEW j \in 1..(Used - k) PROVE queue'[j] = queue[k + j]
  <2>1. PICK x \in Nat, y \in Nat :
          x = pi.nread + k /\ y = x + j - 1 /\ x < 2 * UINT /\ y < 2 * UINT
    BY SMT, <1>2
  <2>2. (pi'.nread + j - 1) % PIPESIZE = y % PIPESIZE
    <3>1. CASE x < UINT
      <4>1. pi'.nread = x
        BY <1>1, <2>1, <3>1, Wrap
      <4> QED
        BY <2>1, <4>1
    <3>2. CASE x >= UINT
      <4>1. pi'.nread = x - UINT
        BY SMT, <1>1, <1>2, <2>1, <3>2, Wrap
      <4>2. pi'.nread + j - 1 = y - UINT /\ y >= UINT
        BY SMT, <1>2, <2>1, <3>2, <4>1
      <4> QED
        BY <4>2, SlotWraps
    <3> QED
      BY SMT, <1>2, <3>1, <3>2
  <2>3. k + j \in 1..Used /\ pi.nread + (k + j) - 1 = y
    BY SMT, <1>2, <2>1
  <2>4. queue[k + j] = pi.data[y % PIPESIZE]
    BY <1>3, <2>3
  <2> QED
    BY <1>4, <2>2, <2>4
<1>6. queue' = SubSeq(queue, k + 1, Len(queue))
  <2> DEFINE t == SubSeq(queue, k + 1, Len(queue))
  <2>1. /\ t \in Seq(Byte \cup {None}) /\ Len(t) = Used - k
        /\ \A j \in 1..(Used - k) : t[j] = queue[k + j]
    <3>1. k + 1 \in 1..(Len(queue) + 1) /\ Len(queue) \in (k + 1 - 1)..Len(queue)
      BY SMTT(40), <1>2, <1>3
    <3>2. /\ t \in Seq(Byte \cup {None})
          /\ Len(t) = IF k + 1 <= Len(queue) THEN Len(queue) - (k + 1) + 1 ELSE 0
          /\ \A j \in 1..(Len(queue) - (k + 1) + 1) : t[j] = queue[(k + 1) + j - 1]
      BY SMTT(40), <1>3, <3>1
    <3> HIDE DEF t
    <3>3. PICK n \in Nat : n = Used /\ k <= n /\ n = Len(queue)
      BY <1>2, <1>3
    <3>4. n - (k + 1) + 1 = n - k /\ \A j \in 1..(n - k) : (k + 1) + j - 1 = k + j
      BY SMT
    <3>5. Len(t) = n - k
      BY SMT, <3>2, <3>3
    <3> QED
      BY <3>2, <3>3, <3>4, <3>5
  <2> HIDE DEF t
  <2>2. \A j \in 1..Len(t) : t[j] = queue'[j]
    BY <1>5, <2>1
  <2>3. t = queue'
    BY <1>4, <2>1, <2>2, SameElements
  <2> QED
    BY <2>3 DEF t
<1> QED
  BY <1>1, <1>2, <1>3, <1>6

LEMMA QuietChannel ==
  ASSUME UNCHANGED <<page, pi>>
  PROVE  UNCHANGED C!vars
  BY DEF C!vars, queue, Used

\* A step of piperead() receives its bytes.
LEMMA ReceiveStep ==
  ASSUME PipeInv, NEW p \in Proc, NEW n \in Nat, Piperead(p, n), page, pi.readopen
  PROVE  [C!Next]_(C!vars)
<1>1. CASE pi' = pi
  BY <1>1, QuietChannel DEF Piperead
<1>2. ASSUME NEW k \in 0..n, k <= Used, pi' = [pi EXCEPT !.nread = (pi.nread + k) % UINT]
      PROVE  [C!Next]_(C!vars)
  <2>1. k \in Nat /\ page' = page /\ PIPESIZE \in Nat
    BY SMT, PipeAssumption DEF Piperead
  <2>2. /\ queue' = SubSeq(queue, k + 1, Len(queue)) /\ Len(queue) = Used
        /\ Used \in Nat /\ UNCHANGED <<pi.readopen, pi.writeopen>>
    BY <1>2, <2>1, TakeStep
  <2>3. CASE k = 0
    <3>1. pi' = pi
      <4>1. pi \in PiRec /\ UINT \in Nat
        BY PipeAssumption DEF PipeInv, TypeOK, PiRec
      <4>2. PICK nr \in 0..(UINT - 1) : nr = pi.nread
        BY <4>1 DEF PiRec
      <4>3. nr < 2 * UINT /\ nr + 0 = nr /\ nr \in Nat
        BY SMT, <4>1
      <4>4. (nr + 0) % UINT = nr
        BY SMT, <4>1, <4>3, Wrap
      <4>5. pi' = [pi EXCEPT !.nread = nr]
        BY <1>2, <2>3, <4>2, <4>4
      <4> QED
        BY <4>1, <4>2, <4>5 DEF PiRec
    <3> QED
      BY <1>1, <3>1
  <2>4. CASE k # 0
    <3>1. k \in 1..PIPESIZE
      BY SMTT(40), <1>2, <2>1, <2>2, <2>4 DEF PipeInv, TypeOK
    <3>2. C!Receive(k)
      BY <1>2, <2>2 DEF C!Receive
    <3> QED
      BY <3>1, <3>2 DEF C!Next
  <2> QED
    BY <2>3, <2>4
<1> QED
  BY <1>1, <1>2 DEF Piperead

\* The end of a process that reads is open, before and after it has slept.
LEMMA ReaderOpen ==
  ASSUME PipeInv, NEW p \in Proc, NEW fd \in FD, Opened(p, fd, "read")
  PROVE  page /\ pi.readopen
<1>1. PICK f \in File : proc[p].ofile[fd] = f /\ file[f].end = "read"
  BY DEF Opened
<1>2. file[f].ref > 0
  BY SMTT(40), <1>1, PipeAssumption DEF PipeInv, FilesInv, OneEach, TypeOK
<1>3. IsOpen("read")
  BY <1>1, <1>2, PipeAssumption DEF PipeInv, FilesInv, EndsOpen, End
<1> QED
  BY <1>3 DEF IsOpen, PipeInv, FilesInv, EndsOpen

\* kalloc() in pipealloc() opens the channel, and it is empty whatever was in
\* the page.
LEMMA OpenStep ==
  ASSUME PipeInv, NEW p \in Proc, kalloc(p)
  PROVE  C!Open
<1>1. /\ ~page /\ page' /\ pi \in PiRec
      /\ pi' = [pi EXCEPT !.nread = 0, !.nwrite = 0, !.readopen = TRUE, !.writeopen = TRUE]
  BY DEF kalloc, PipeInv, TypeOK, PiRec
<1>2. ~pi.readopen /\ ~pi.writeopen
  BY <1>1 DEF PipeInv, FilesInv, EndsOpen
<1>3. pi'.nread = 0 /\ pi'.nwrite = 0 /\ pi'.readopen /\ pi'.writeopen
  BY <1>1 DEF PiRec
<1>4. Used' = 0
  BY SMT, <1>3, PipeAssumption DEF Used
<1>5. queue' = <<>>
  <2>1. 1..0 = {}
    BY SMT
  <2>2. queue' = [k \in {} |-> pi'.data[((pi'.nread + k - 1) % UINT) % PIPESIZE]]
    BY <1>1, <1>4, <2>1 DEF queue
  <2> QED
    BY SMT, <2>2
<1> QED
  BY <1>2, <1>3, <1>5 DEF C!Open

\* pipeclose() closes one end; kfree() after the second one loses no byte that
\* could still be received.
LEMMA CloseChannel ==
  ASSUME CardinalityFacts, PipeInv, NEW p \in Proc, pipeclose(p)
  PROVE  C!Close
<1> DEFINE w == proc[p].end = "write"
           after == [pi EXCEPT !.readopen = pi.readopen /\ w, !.writeopen = pi.writeopen /\ ~w]
<1>1. pi \in PiRec /\ proc[p].end \in End /\ At(p, "pipeclose") /\ page' = ~Unused(after)
      /\ pi' = IF page' THEN after ELSE NoPipe
  BY DEF pipeclose, PipeInv, TypeOK, PiRec, ProcRec
<1>2. page /\ IsOpen(proc[p].end)
  BY <1>1, InUse DEF PipeInv, PipeInUse
<1>3. /\ after.nread = pi.nread /\ after.nwrite = pi.nwrite /\ after.data = pi.data
      /\ after.readopen = (pi.readopen /\ w) /\ after.writeopen = (pi.writeopen /\ ~w)
  BY <1>1 DEF PiRec
<1>4. NoPipe.readopen = FALSE /\ NoPipe.writeopen = FALSE
  BY DEF NoPipe
<1> HIDE DEF after
<1>5. page' <=> after.readopen \/ after.writeopen
  BY <1>1 DEF Unused
<1>6. pi'.readopen = after.readopen /\ pi'.writeopen = after.writeopen
  BY <1>1, <1>3, <1>4, <1>5 DEF PiRec
<1>7. queue' = IF page' THEN queue ELSE <<>>
  BY <1>1, <1>2, <1>3 DEF queue, Used
<1>8. \/ pi.readopen /\ ~pi'.readopen /\ pi'.writeopen = pi.writeopen
      \/ pi.writeopen /\ ~pi'.writeopen /\ pi'.readopen = pi.readopen
  BY <1>1, <1>2, <1>3, <1>6 DEF IsOpen, PiRec
<1> QED
  BY <1>5, <1>6, <1>7, <1>8 DEF C!Close

LEMMA ChannelStep ==
  ASSUME CardinalityFacts
  PROVE  PipeInv /\ PipeInv' /\ [Next]_vars => [C!Next]_(C!vars)
<1> SUFFICES ASSUME PipeInv, PipeInv', [Next]_vars PROVE [C!Next]_(C!vars)
  OBVIOUS
<1>1. CASE UNCHANGED vars
  BY <1>1, QuietChannel DEF vars
<1>2. ASSUME NEW p \in Proc, kalloc(p) PROVE [C!Next]_(C!vars)
  BY <1>2, OpenStep DEF C!Next
<1>3. ASSUME NEW p \in Proc, pipeclose(p) PROVE [C!Next]_(C!vars)
  BY <1>3, CloseChannel DEF C!Next
<1>4. ASSUME NEW p \in Proc, NEW b \in Byte, pipewrite_byte(p, b) PROVE [C!Next]_(C!vars)
  BY <1>4, SendStep DEF C!Next
<1>5. ASSUME NEW p \in Proc, piperead(p) PROVE [C!Next]_(C!vars)
  <2>1. proc[p].n \in Nat /\ Piperead(p, proc[p].n)
    BY <1>5 DEF piperead, PipeInv, TypeOK, ProcRec
  <2>2. PICK fd \in FD : Opened(p, fd, "read")
    BY <1>5 DEF piperead, PipeInv, FilesInv, PlaceInv, At, Reading
  <2> QED
    BY <2>1, <2>2, ReaderOpen, ReceiveStep
<1>6. ASSUME NEW p \in Proc, NEW fd \in FD, NEW n \in Count, fileread(p, fd, n)
      PROVE  [C!Next]_(C!vars)
  <2>1. n \in Nat /\ Piperead(p, n) /\ Opened(p, fd, "read")
    BY <1>6, PipeAssumption DEF fileread
  <2> QED
    BY <2>1, ReaderOpen, ReceiveStep
<1>7. ASSUME NEW p \in Proc,
             \/ sys_pipe(p) \/ pipealloc(p) \/ kalloc_fails(p) \/ spawn(p) \/ kill(p)
             \/ exit(p) \/ exit_next(p) \/ fileclose(p)
             \/ \E np \in Proc : fork(p, np)
             \/ \E fd \in FD : sys_close(p, fd)
             \/ \E fd \in FD, n \in Count : filewrite(p, fd, n)
             \/ pipewrite(p) \/ pipewrite_fails(p) \/ pipewrite_full(p) \/ pipewrite_end(p)
      PROVE  [C!Next]_(C!vars)
  <2>1. UNCHANGED <<page, pi>>
    BY <1>7 DEF sys_pipe, pipealloc, kalloc_fails, spawn, kill, exit, exit_next, ExitLoop,
                fileclose, Fileclose, fork, sys_close, filewrite, pipewrite,
                pipewrite_fails, pipewrite_full, pipewrite_end
  <2> QED
    BY <2>1, QuietChannel
<1> QED
  BY <1>1, <1>2, <1>3, <1>4, <1>5, <1>6, <1>7 DEF Next

-----------------------------------------------------------------------------
(* The facts about finite sets, from the library.                          *)

INSTANCE FiniteSetTheorems

\* The library's theorems on finite sets give the facts that the lemmas on the
\* reference counts of the files assume.
LEMMA FiniteSets_Facts == CardinalityFacts
<1>1. IsFiniteSet({}) /\ Cardinality({}) = 0
  BY FS_EmptySet
<1>2. \A x : IsFiniteSet({x}) /\ Cardinality({x}) = 1
  BY FS_Singleton
<1>3. \A a, b \in Int : IsFiniteSet(a .. b)
  BY FS_Interval
<1>4. ASSUME NEW S, IsFiniteSet(S)
      PROVE  /\ Cardinality(S) \in Nat /\ (Cardinality(S) = 0 <=> S = {})
             /\ \A x : WithElement(S, x) /\ WithoutElement(S, x)
             /\ \A T \in SUBSET S : IsFiniteSet(T) /\ Cardinality(T) <= Cardinality(S)
  <2>1. Cardinality(S) \in Nat /\ (Cardinality(S) = 0 <=> S = {})
    BY <1>4, FS_CardinalityType, FS_EmptySet
  <2>2. ASSUME NEW x PROVE WithElement(S, x) /\ WithoutElement(S, x)
    BY <1>4, FS_AddElement, FS_RemoveElement DEF WithElement, WithoutElement
  <2>3. \A T \in SUBSET S : IsFiniteSet(T) /\ Cardinality(T) <= Cardinality(S)
    BY <1>4, FS_Subset
  <2> QED
    BY <2>1, <2>2, <2>3
<1>5. ASSUME NEW S, NEW T, IsFiniteSet(S), IsFiniteSet(T)
      PROVE  /\ IsFiniteSet(S \X T) /\ Cardinality(S \X T) = Cardinality(S) * Cardinality(T)
             /\ IsFiniteSet(S \cup T)
             /\ Cardinality(S \cup T) = Cardinality(S) + Cardinality(T) - Cardinality(S \cap T)
  BY <1>5, FS_Product, FS_Union
<1> QED
  BY <1>1, <1>2, <1>3, <1>4, <1>5 DEF CardinalityFacts

-----------------------------------------------------------------------------
(* The theorems                                                            *)

\* Every step of sys_pipe(), fork(), close(), exit(), kill(), read() and
\* write() keeps the reference counts, the ends, the lock and the sleepers
\* consistent.
THEOREM Invariance == Spec => []PipeInv
<1>1. Init => PipeInv
  BY PipeInit, FiniteSets_Facts
<1>2. PipeInv /\ [Next]_vars => PipeInv'
  BY PipeNext, PipeStutter, FiniteSets_Facts
<1> QED
  BY <1>1, <1>2, PTL DEF Spec

\* The reference counts of the files (filealloc(), filedup(), fileclose()) are
\* exact, each end is open exactly as long as it is referred to, and no
\* process is in pipewrite(), piperead() or pipeclose() of a freed page.
THEOREM LifetimesAreExact == Spec => []LifetimesExact
<1>1. PipeInv => LifetimesExact
  BY InUse, FiniteSets_Facts DEF PipeInv, FilesInv, LifetimesExact
<1> QED
  BY <1>1, Invariance, PTL

\* No wakeup() of pipewrite(), piperead() and pipeclose() is lost, and readers
\* and writers never sleep for each other.
THEOREM SleepersAreServed == Spec => []SleepersServed
<1>1. PipeInv => SleepersServed
  BY DEF PipeInv, SleepInv, Storing, SleepersServed, NoLostWakeup
<1> QED
  BY <1>1, Invariance, PTL

\* pipewrite(), piperead() and pipeclose() implement the bounded first-in
\* first-out channel, for every PIPESIZE that divides the number of values of
\* the counters, which wrap around.
THEOREM PipeIsAChannel == Spec => ChannelSpec
<1>1. Init => C!Init
  <2> SUFFICES ASSUME Init PROVE C!Init
    OBVIOUS
  <2>1. queue = <<>>
    BY DEF Init, queue
  <2>2. ~pi.readopen /\ ~pi.writeopen
    BY DEF Init, NoPipe
  <2> QED
    BY <2>1, <2>2 DEF C!Init
<1>2. PipeInv /\ PipeInv' /\ [Next]_vars => [C!Next]_(C!vars)
  BY ChannelStep, FiniteSets_Facts
<1> QED
  BY <1>1, <1>2, Invariance, PTL DEF Spec, ChannelSpec, C!Spec

=============================================================================
