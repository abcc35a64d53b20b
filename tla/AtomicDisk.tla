------------------------------ MODULE AtomicDisk ------------------------------
(***************************************************************************)
(* What log.c promises to the file system: every system call that brackets *)
(* its writes with begin_op() and end_op() reaches the disk as a whole or  *)
(* not at all, whenever the machine stops.                                 *)
(***************************************************************************)
CONSTANTS Procs, Blocks, Values, InitialValue

VARIABLES stable,  \* what a restart will find
          view,    \* what system calls read
          open     \* processes between begin_op() and end_op()

vars == <<stable, view, open>>

Init ==
  /\ stable = [b \in Blocks |-> InitialValue]
  /\ view   = stable
  /\ open   = {}

Begin(p) == p \notin open /\ open' = open \cup {p} /\ UNCHANGED <<stable, view>>

Write(p, b, v) ==
  /\ p \in open
  /\ view' = [view EXCEPT ![b] = v]
  /\ UNCHANGED <<stable, open>>

End(p) == p \in open /\ open' = open \ {p} /\ UNCHANGED <<stable, view>>

\* Only when no call is half done.
Commit == open = {} /\ stable' = view /\ UNCHANGED <<view, open>>

Crash == view' = stable /\ open' = {} /\ UNCHANGED stable

Next ==
  \/ \E p \in Procs : Begin(p) \/ End(p) \/ \E b \in Blocks, v \in Values : Write(p, b, v)
  \/ Commit \/ Crash

Spec == Init /\ [][Next]_vars
===============================================================================
