------------------------------ MODULE BlockStore ------------------------------
(***************************************************************************)
(* What the buffer cache and the disk driver promise to the file system:   *)
(* every block is one register that one process at a time holds.  Only its *)
(* holder changes it, and what reaches the disk is what the holder sees.   *)
(* Log.tla takes this for granted.                                         *)
(***************************************************************************)
CONSTANTS Procs, Blocks, Values, Nobody

VARIABLES holder, \* who has the block locked, its contents in memory
          view,   \* the contents that the holder sees
          stable  \* the contents on disk

vars == <<holder, view, stable>>

Init ==
  /\ holder = [b \in Blocks |-> Nobody]
  /\ stable \in [Blocks -> Values]
  /\ view = stable

Acquire(p, b) ==
  /\ holder[b] = Nobody
  /\ holder' = [holder EXCEPT ![b] = p]
  /\ UNCHANGED <<view, stable>>

Modify(b, v) ==
  /\ holder[b] # Nobody
  /\ view' = [view EXCEPT ![b] = v]
  /\ UNCHANGED <<holder, stable>>

Sync(b) ==
  /\ holder[b] # Nobody
  /\ stable' = [stable EXCEPT ![b] = view[b]]
  /\ UNCHANGED <<holder, view>>

Release(b) ==
  /\ holder[b] # Nobody
  /\ holder' = [holder EXCEPT ![b] = Nobody]
  /\ UNCHANGED <<view, stable>>

Next ==
  \E b \in Blocks :
    \/ \E p \in Procs : Acquire(p, b)
    \/ \E v \in Values : Modify(b, v)
    \/ Sync(b)
    \/ Release(b)

Spec == Init /\ [][Next]_vars
===============================================================================
