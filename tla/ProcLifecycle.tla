---------------------------- MODULE ProcLifecycle -----------------------------
(***************************************************************************)
(* What process management promises, whatever the scheduling policy: the   *)
(* life of a process as proc.h names its states, who may move it from one  *)
(* state to the next, and that a CPU runs at most one process, a process   *)
(* runs on at most one CPU.  The detailed specifications of the three      *)
(* kernels are checked against it.                                         *)
(***************************************************************************)
CONSTANTS Procs, CPUs, NULL, InitProc

VARIABLES state,    \* p->state
          parent,   \* p->parent
          running   \* cpus[c].proc

vars == <<state, parent, running>>

Init ==
  /\ state   = [p \in Procs |-> IF p = InitProc THEN "RUNNABLE" ELSE "UNUSED"]
  /\ parent  = [p \in Procs |-> NULL]
  /\ running = [c \in CPUs |-> NULL]

Move(p, from, to) == state[p] = from /\ state' = [state EXCEPT ![p] = to]

\* The running process starts a fork ...
Claim(c, p) ==
  /\ running[c] # NULL /\ Move(p, "UNUSED", "EMBRYO")
  /\ UNCHANGED <<parent, running>>

\* ... gives the slot back when memory runs out ...
Abandon(c, p) ==
  /\ running[c] # NULL /\ parent[p] = NULL /\ Move(p, "EMBRYO", "UNUSED")
  /\ UNCHANGED <<parent, running>>

\* ... or makes itself the parent and lets the child run.
Own(c, p) ==
  /\ running[c] # NULL /\ state[p] = "EMBRYO" /\ parent[p] = NULL
  /\ parent' = [parent EXCEPT ![p] = running[c]]
  /\ UNCHANGED <<state, running>>

Publish(c, p) ==
  /\ running[c] # NULL /\ parent[p] = running[c] /\ Move(p, "EMBRYO", "RUNNABLE")
  /\ UNCHANGED <<parent, running>>

Dispatch(c, p) ==
  /\ running[c] = NULL /\ Move(p, "RUNNABLE", "RUNNING")
  /\ running' = [running EXCEPT ![c] = p]
  /\ UNCHANGED parent

\* A process leaves the CPU: preempted, asleep, or for ever.  It dies childless.
Leave(c, to) ==
  /\ running[c] # NULL
  /\ Move(running[c], "RUNNING", to)
  /\ to = "ZOMBIE" => /\ running[c] # InitProc
                      /\ \A q \in Procs : parent[q] # running[c]
  /\ running' = [running EXCEPT ![c] = NULL]
  /\ UNCHANGED parent

Wake(S) ==
  /\ \A p \in S : state[p] = "SLEEPING"
  /\ state' = [p \in Procs |-> IF p \in S THEN "RUNNABLE" ELSE state[p]]
  /\ UNCHANGED <<parent, running>>

\* An exiting process hands its children to init.
Adopt(c) ==
  /\ running[c] \notin {NULL, InitProc}
  /\ parent' = [p \in Procs |-> IF parent[p] = running[c] THEN InitProc ELSE parent[p]]
  /\ UNCHANGED <<state, running>>

\* The two in one step, where one critical section does all of exit(): sleepers S wake.
Die(c, S) ==
  /\ running[c] \notin {NULL, InitProc} /\ state[running[c]] = "RUNNING"
  /\ \A p \in S : state[p] = "SLEEPING"
  /\ state' = [p \in Procs |-> IF p = running[c] THEN "ZOMBIE"
                              ELSE IF p \in S THEN "RUNNABLE" ELSE state[p]]
  /\ parent' = [p \in Procs |-> IF parent[p] = running[c] THEN InitProc ELSE parent[p]]
  /\ running' = [running EXCEPT ![c] = NULL]

\* Only the parent reaps.
Reap(c, p) ==
  /\ running[c] # NULL /\ parent[p] = running[c] /\ Move(p, "ZOMBIE", "UNUSED")
  /\ parent' = [parent EXCEPT ![p] = NULL]
  /\ UNCHANGED running

Next ==
  \/ \E c \in CPUs, p \in Procs :
       Claim(c, p) \/ Abandon(c, p) \/ Own(c, p) \/ Publish(c, p) \/ Dispatch(c, p) \/ Reap(c, p)
  \/ \E c \in CPUs, to \in {"RUNNABLE", "SLEEPING", "ZOMBIE"} : Leave(c, to)
  \/ \E S \in SUBSET Procs : Wake(S)
  \/ \E c \in CPUs : Adopt(c)
  \/ \E c \in CPUs, S \in SUBSET Procs : Die(c, S)

Spec == Init /\ [][Next]_vars
===============================================================================
