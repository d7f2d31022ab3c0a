----------------------------- MODULE BlockStore -----------------------------
(***************************************************************************)
(* What the buffer cache promises: the blocks of the disk, each of which   *)
(* one process at a time holds and may change.                             *)
(***************************************************************************)

CONSTANTS
  Block,      \* block numbers
  Value,      \* contents of a block
  Proc,       \* processes
  None        \* nobody

VARIABLES
  store,      \* the contents of every block
  holder      \* the process that holds a block

vars == <<store, holder>>

Init ==
  /\ store \in [Block -> Value]
  /\ holder = [b \in Block |-> None]

\* The calls, as relations between [store, holder] before and after.
Take(old, new, p, b) ==
  /\ old.holder[b] = None
  /\ new = [old EXCEPT !.holder[b] = p]

Change(old, new, p, b, v) ==
  /\ old.holder[b] = p
  /\ new = [old EXCEPT !.store[b] = v]

Give(old, new, p, b) ==
  /\ old.holder[b] = p
  /\ new = [old EXCEPT !.holder[b] = None]

Both == [store |-> store, holder |-> holder]

Next ==
  \E old \in {Both}, new \in {Both'} :
    /\ new # old
    /\ \E p \in Proc, b \in Block :
         \/ Take(old, new, p, b) \/ Give(old, new, p, b)
         \/ \E v \in Value : Change(old, new, p, b, v)

Spec == Init /\ [][Next]_vars
=============================================================================
