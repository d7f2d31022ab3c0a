----------------------------- MODULE AtomicDisk -----------------------------
(***************************************************************************)
(* What the log promises to file system operations: a disk whose contents  *)
(* survive a crash exactly as they were at some moment when no operation   *)
(* was active.  So the writes of an operation are durable together or not  *)
(* at all, and those of an earlier operation are not lost where those of a *)
(* later one survive.                                                      *)
(***************************************************************************)

CONSTANTS
  Block,      \* block numbers
  Value,      \* contents of a block
  Proc        \* processes that perform operations

VARIABLES
  stable,     \* the contents that a crash leaves
  current,    \* the contents that operations see
  busy        \* the processes with an operation under way

vars == <<stable, current, busy>>

Init ==
  /\ stable \in [Block -> Value]
  /\ current = stable
  /\ busy = {}

\* Operations join the active ones, or begin after everything that has ended
\* is durable.
Begin(p) ==
  /\ p \notin busy
  /\ busy = {} => stable = current
  /\ busy' = busy \cup {p}
  /\ UNCHANGED <<stable, current>>

Write(p, b, v) ==
  /\ p \in busy
  /\ current' = [current EXCEPT ![b] = v]
  /\ UNCHANGED <<stable, busy>>

End(p) ==
  /\ p \in busy
  /\ busy' = busy \ {p}
  /\ UNCHANGED <<stable, current>>

Commit ==
  /\ busy = {}
  /\ stable' = current
  /\ UNCHANGED <<current, busy>>

Crash ==
  /\ current' = stable
  /\ busy' = {}
  /\ UNCHANGED stable

Next ==
  \/ Commit \/ Crash
  \/ \E p \in Proc : Begin(p) \/ End(p) \/ \E b \in Block, v \in Value : Write(p, b, v)

Spec == Init /\ [][Next]_vars
=============================================================================
