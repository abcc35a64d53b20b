------------------------------ MODULE RoundRobin ------------------------------
(***************************************************************************)
(* Process management of the round-robin kernel: round-robin/proc.c and    *)
(* the parts of trap.c that enter the kernel, preempt and force an exit.   *)
(*                                                                         *)
(* There are no run queues: scheduler() walks over the process table with  *)
(* ptable.lock held and starts every RUNNABLE process that it meets.  The  *)
(* lock crosses the context switch in both directions.  The process that   *)
(* is started releases it, or goes round the loop of wait() with it; the   *)
(* process that leaves acquires it, and scheduler() walks on with it from  *)
(* the next slot.  lock is the CPU that holds it between two steps; every  *)
(* other critical section is one action.  fork() writes np->parent, and    *)
(* np->state when it fails, without the lock.                              *)
(*                                                                         *)
(* Left out: the statistics (run_ticks, wait_ticks, context_switches...),  *)
(* which no decision reads, and what fork, exit and exec do to files and   *)
(* memory.                                                                 *)
(***************************************************************************)
EXTENDS Integers, FiniteSets, FiniteSetsExt

CONSTANTS NPROC,   \* number of slots of ptable (param.h: 64)
          NCPU,    \* number of CPUs found by mpinit
          Chans,   \* wait channels other than process pointers
          MaxPid   \* bound: processes created in a behaviour

ASSUME RRAssumption ==
  /\ NPROC \in Nat \ {0} /\ NCPU \in Nat \ {0} /\ MaxPid \in Nat \ {0}
  /\ Chans \cap (0 .. NPROC) = {}

NULL     == 0
Procs    == 1 .. NPROC
CPUs     == 0 .. (NCPU - 1)
NoCpu    == -1
InitProc == 1

ProcStates   == {"UNUSED", "EMBRYO", "SLEEPING", "RUNNABLE", "RUNNING", "ZOMBIE"}
KernelPoints == {"user", "sys", "forkcopy", "forkadd", "wait", "slept", "exit", "zombie"}
SchedPoints  == {"top", "walk", "busy"}

VARIABLES
  state, pid, parent, killed, chan,  \* struct proc
  kpc,       \* kernel program point of each process
  child,     \* fork()'s local np
  nextpid,
  proc,      \* cpus[c].proc
  spc,       \* scheduler(): "top" (no lock), "walk", "busy" (a process runs)
  turn,      \* scheduler()'s p: the slot where the walk goes on
  lock,      \* the CPU holding ptable.lock between two steps
  panicked

cpuVars  == <<proc, spc, turn>>
vars == <<state, pid, parent, killed, chan, kpc, child, nextpid, cpuVars, lock, panicked>>

TypeOK ==
  /\ state    \in [Procs -> ProcStates]
  /\ pid      \in [Procs -> Nat]
  /\ parent   \in [Procs -> Procs \cup {NULL}]
  /\ killed   \in [Procs -> BOOLEAN]
  /\ chan     \in [Procs -> {NULL} \cup Procs \cup Chans]
  /\ kpc      \in [Procs -> KernelPoints]
  /\ child    \in [Procs -> Procs \cup {NULL}]
  /\ nextpid  \in Nat
  /\ proc     \in [CPUs -> Procs \cup {NULL}]
  /\ spc      \in [CPUs -> SchedPoints]
  /\ turn     \in [CPUs -> 1 .. NPROC + 1]
  /\ lock     \in CPUs \cup {NoCpu}
  /\ panicked \in {"none", "init exiting", "zombie exit"}

\* userinit()
Init ==
  /\ state    = [p \in Procs |-> IF p = InitProc THEN "RUNNABLE" ELSE "UNUSED"]
  /\ pid      = [p \in Procs |-> IF p = InitProc THEN 1 ELSE 0]
  /\ parent   = [p \in Procs |-> NULL]
  /\ killed   = [p \in Procs |-> FALSE]
  /\ chan     = [p \in Procs |-> NULL]
  /\ kpc      = [p \in Procs |-> "user"]
  /\ child    = [p \in Procs |-> NULL]
  /\ nextpid  = 2
  /\ proc     = [c \in CPUs |-> NULL]
  /\ spc      = [c \in CPUs |-> "top"]
  /\ turn     = [c \in CPUs |-> 1]
  /\ lock     = NoCpu
  /\ panicked = "none"

-------------------------------------------------------------------------------
(* Helpers shared by the operations. *)

At(c, point)   == spc[c] = "busy" /\ kpc[proc[c]] = point
LockFree       == lock = NoCpu
Goto(p, point) == kpc' = [kpc EXCEPT ![p] = point]

Children(p) == {q \in Procs : parent[q] = p}

\* wait() without the test p->parent != curproc.
Zombies_anyone(p) == {q \in Procs : state[q] = "ZOMBIE"}

Zombies(p) == {q \in Children(p) : state[q] = "ZOMBIE"}

\* wakeup1() on the states st.
wakeup1(st, ch) ==
  [p \in Procs |-> IF st[p] = "SLEEPING" /\ chan[p] = ch THEN "RUNNABLE" ELSE st[p]]

\* sched() and what scheduler() does behind swtch(): ptable.lock stays held.
SwitchToScheduler(c) ==
  /\ proc' = [proc EXCEPT ![c] = NULL]
  /\ spc'  = [spc EXCEPT ![c] = "walk"]
  /\ lock' = c
  /\ UNCHANGED turn

-------------------------------------------------------------------------------
(* Entering the kernel, preemption: trap.c. *)

\* A fault in user space kills the process; a killed process gets no further than here.
Trap(c) ==
  LET p == proc[c] IN
  /\ At(c, "user")
  /\ \/ killed' = [killed EXCEPT ![p] = TRUE] /\ Goto(p, "exit")
     \/ ~killed[p] /\ Goto(p, "sys") /\ UNCHANGED killed
  /\ UNCHANGED <<state, pid, parent, chan, child, nextpid, cpuVars, lock, panicked>>

\* A system call that does nothing here, or fails.
sysReturns(c) ==
  /\ At(c, "sys")
  /\ Goto(proc[c], "user")
  /\ UNCHANGED <<state, pid, parent, killed, chan, child, nextpid, cpuVars, lock, panicked>>

\* A timer interrupt or the yield system call.
yield(c) ==
  /\ spc[c] = "busy" /\ LockFree
  /\ state' = [state EXCEPT ![proc[c]] = "RUNNABLE"]
  /\ SwitchToScheduler(c)
  /\ UNCHANGED <<pid, parent, killed, chan, kpc, child, nextpid, panicked>>

-------------------------------------------------------------------------------
(* fork() *)

allocproc(c) ==
  LET free == {q \in Procs : state[q] = "UNUSED"}
      np == Min(free)
  IN
  /\ At(c, "sys") /\ LockFree
  /\ free # {} /\ nextpid <= MaxPid
  /\ state'   = [state EXCEPT ![np] = "EMBRYO"]
  /\ pid'     = [pid EXCEPT ![np] = nextpid]
  /\ parent'  = [parent EXCEPT ![np] = NULL]
  /\ killed'  = [killed EXCEPT ![np] = FALSE]
  /\ nextpid' = nextpid + 1
  /\ child'   = [child EXCEPT ![proc[c]] = np]
  /\ kpc'     = [kpc EXCEPT ![proc[c]] = "forkcopy", ![np] = "user"]
  /\ UNCHANGED <<chan, cpuVars, lock, panicked>>

\* kalloc() or copyuvm() found no memory; the slot is given back without the lock.
forkFails(c) ==
  LET p == proc[c] IN
  /\ At(c, "forkcopy")
  /\ state' = [state EXCEPT ![child[p]] = "UNUSED"]
  /\ child' = [child EXCEPT ![p] = NULL]
  /\ Goto(p, "user")
  /\ UNCHANGED <<pid, parent, killed, chan, nextpid, cpuVars, lock, panicked>>

forkCopies(c) ==
  LET p == proc[c] IN
  /\ At(c, "forkcopy")
  /\ parent' = [parent EXCEPT ![child[p]] = p]
  /\ Goto(p, "forkadd")
  /\ UNCHANGED <<state, pid, killed, chan, child, nextpid, cpuVars, lock, panicked>>

forkAdds(c) ==
  LET p == proc[c] IN
  /\ At(c, "forkadd") /\ LockFree
  /\ state' = [state EXCEPT ![child[p]] = "RUNNABLE"]
  /\ child' = [child EXCEPT ![p] = NULL]
  /\ Goto(p, "user")
  /\ UNCHANGED <<pid, parent, killed, chan, nextpid, cpuVars, lock, panicked>>

-------------------------------------------------------------------------------
(* sleep(), wakeup(), kill() *)

SleepOn(c, ch, point) ==
  LET p == proc[c] IN
  /\ chan'  = [chan EXCEPT ![p] = ch]
  /\ state' = [state EXCEPT ![p] = "SLEEPING"]
  /\ SwitchToScheduler(c)
  /\ Goto(p, point)
  /\ UNCHANGED <<pid, parent, killed, child, nextpid, panicked>>

sleep(c, ch) == At(c, "sys") /\ LockFree /\ SleepOn(c, ch, "slept")

\* wakeup(chan), from a process or from an interrupt handler.
wakeup(ch) ==
  /\ LockFree
  /\ \E p \in Procs : state[p] = "SLEEPING" /\ chan[p] = ch
  /\ state' = wakeup1(state, ch)
  /\ UNCHANGED <<pid, parent, killed, chan, kpc, child, nextpid, cpuVars, lock, panicked>>

kill(c, n) ==
  LET found == {q \in Procs : pid[q] = n}
      v == Min(found)
  IN
  /\ At(c, "sys") /\ LockFree
  /\ found # {}
  /\ killed' = [killed EXCEPT ![v] = TRUE]
  /\ state'  = [state EXCEPT ![v] = IF @ = "SLEEPING" THEN "RUNNABLE" ELSE @]
  /\ Goto(proc[c], "user")
  /\ UNCHANGED <<pid, parent, chan, child, nextpid, cpuVars, lock, panicked>>

-------------------------------------------------------------------------------
(* exit() and wait() *)

sys_exit(c) ==
  /\ At(c, "sys")
  /\ Goto(proc[c], "exit")
  /\ UNCHANGED <<state, pid, parent, killed, chan, child, nextpid, cpuVars, lock, panicked>>

\* Only init is told, and only of a ZOMBIE that it inherits.
ExitWakes_initOnly(p) == IF Zombies(p) # {} THEN wakeup1(state, InitProc) ELSE state

\* The parent is woken, and init if it inherits a ZOMBIE.
ExitWakes(p) ==
  LET woken == wakeup1(state, parent[p]) IN
  IF Zombies(p) # {} THEN wakeup1(woken, InitProc) ELSE woken

\* exit(), files closed: wake the parent, hand the children to init, become a ZOMBIE.
exit(c) ==
  LET p == proc[c] IN
  /\ At(c, "exit") /\ LockFree /\ p # InitProc
  /\ state'  = [ExitWakes(p) EXCEPT ![p] = "ZOMBIE"]
  /\ parent' = [q \in Procs |-> IF parent[q] = p THEN InitProc ELSE parent[q]]
  /\ SwitchToScheduler(c)
  /\ Goto(p, "zombie")
  /\ UNCHANGED <<pid, killed, chan, child, nextpid, panicked>>

initExits(c) ==
  /\ At(c, "exit") /\ proc[c] = InitProc
  /\ panicked' = "init exiting"
  /\ UNCHANGED <<state, pid, parent, killed, chan, kpc, child, nextpid, cpuVars, lock>>

\* wait() is entered from the system call, or resumed with ptable.lock held.
InWait(c) == \/ At(c, "sys") /\ LockFree
             \/ At(c, "wait") /\ lock = c

\* The slot keeps its pid, its parent and its killed flag.
waitReaps(c) ==
  LET p == proc[c] IN
  /\ InWait(c) /\ Zombies(p) # {}
  /\ state' = [state EXCEPT ![Min(Zombies(p))] = "UNUSED"]
  /\ Goto(p, "user")
  /\ lock' = NoCpu
  /\ UNCHANGED <<pid, parent, killed, chan, child, nextpid, cpuVars, panicked>>

waitFails(c) ==
  LET p == proc[c] IN
  /\ InWait(c) /\ Zombies(p) = {}
  /\ Children(p) = {} \/ killed[p]
  /\ Goto(p, "user")
  /\ lock' = NoCpu
  /\ UNCHANGED <<state, pid, parent, killed, chan, child, nextpid, cpuVars, panicked>>

waitSleeps(c) ==
  LET p == proc[c] IN
  /\ InWait(c) /\ Zombies(p) = {}
  /\ Children(p) # {} /\ ~killed[p]
  /\ SleepOn(c, p, "wait")

-------------------------------------------------------------------------------
(* scheduler() *)

\* sti(), acquire(&ptable.lock): a new walk starts.
walkStarts(c) ==
  /\ spc[c] = "top" /\ LockFree
  /\ spc'  = [spc EXCEPT ![c] = "walk"]
  /\ turn' = [turn EXCEPT ![c] = 1]
  /\ lock' = c
  /\ UNCHANGED <<state, pid, parent, killed, chan, kpc, child, nextpid, proc, panicked>>

Ahead(c) == {p \in Procs : p >= turn[c] /\ state[p] = "RUNNABLE"}

\* The walk starts again at the first slot whenever a process has run.
NextTurn_first(p) == 1

\* p++ of the for loop.
NextTurn(p) == p + 1

\* The next RUNNABLE process is started.  Its kernel thread continues behind its own
\* sched(): it releases the lock, unless it is in wait().
run(c) ==
  LET p == Min(Ahead(c)) IN
  /\ spc[c] = "walk" /\ lock = c /\ Ahead(c) # {}
  /\ proc'  = [proc EXCEPT ![c] = p]
  /\ spc'   = [spc EXCEPT ![c] = "busy"]
  /\ turn'  = [turn EXCEPT ![c] = NextTurn(p)]
  /\ state' = [state EXCEPT ![p] = "RUNNING"]
  /\ chan'  = [chan EXCEPT ![p] = IF kpc[p] \in {"wait", "slept"} THEN NULL ELSE @]
  /\ Goto(p, IF kpc[p] = "slept" THEN "sys" ELSE kpc[p])
  /\ lock'  = IF kpc[p] = "wait" THEN c ELSE NoCpu
  /\ panicked' = IF kpc[p] = "zombie" THEN "zombie exit" ELSE panicked
  /\ UNCHANGED <<pid, parent, killed, child, nextpid>>

\* The end of the table: release(&ptable.lock).
walkEnds(c) ==
  /\ spc[c] = "walk" /\ lock = c /\ Ahead(c) = {}
  /\ spc'  = [spc EXCEPT ![c] = "top"]
  /\ turn' = [turn EXCEPT ![c] = 1]
  /\ lock' = NoCpu
  /\ UNCHANGED <<state, pid, parent, killed, chan, kpc, child, nextpid, proc, panicked>>

-------------------------------------------------------------------------------
PidArgs == 0 .. MaxPid

wait(c) == waitReaps(c) \/ waitFails(c) \/ waitSleeps(c)

Syscall(c) ==
  \/ sysReturns(c)
  \/ allocproc(c) \/ forkFails(c) \/ forkCopies(c) \/ forkAdds(c)
  \/ \E ch \in Chans : sleep(c, ch)
  \/ \E n \in PidArgs : kill(c, n)
  \/ sys_exit(c) \/ exit(c) \/ initExits(c)
  \/ wait(c)

Scheduler(c) == walkStarts(c) \/ run(c) \/ walkEnds(c)

Next ==
  /\ panicked = "none"
  /\ \/ \E c \in CPUs : Trap(c) \/ yield(c) \/ Syscall(c) \/ Scheduler(c)
     \/ \E ch \in Chans : wakeup(ch)

Spec == Init /\ [][Next]_vars

\* A CPU never stops: its scheduler walks on, a process that holds ptable.lock in wait()
\* goes on, and the timer interrupts whatever runs with interrupts on.
Fairness ==
  \A c \in CPUs : /\ WF_vars(panicked = "none" /\ Scheduler(c))
                  /\ WF_vars(panicked = "none" /\ lock = c /\ wait(c))
                  /\ WF_vars(panicked = "none" /\ yield(c))

FairSpec == Spec /\ Fairness

-------------------------------------------------------------------------------
(* Properties. *)

\* RUNNING means being the current process of exactly one CPU, though two schedulers
\* walk over the same table; a CPU holding ptable.lock is walking, or in wait().
CpuMatchesState ==
  /\ \A p \in Procs : state[p] = "RUNNING" <=> Cardinality({c \in CPUs : proc[c] = p}) = 1
  /\ \A p \in Procs : Cardinality({c \in CPUs : proc[c] = p}) <= 1
  /\ \A c \in CPUs : lock = c => spc[c] = "walk" \/ At(c, "wait")

\* No wakeup of wait() is lost: when ptable.lock is free, no process asleep in wait()
\* has a ZOMBIE child.
NoZombieMissed ==
  LockFree => \A p \in Procs :
                state[p] = "SLEEPING" /\ kpc[p] = "wait" => Zombies(p) = {}

\* The table and the CPUs agree, whoever walks over it, and wait() misses no child.
StaysConsistent == TypeOK /\ CpuMatchesState /\ NoZombieMissed

\* wait() leaves the parent in the slot it frees, where the life of a process has none.
LifecycleParent == [p \in Procs |-> IF state[p] = "UNUSED" THEN NULL ELSE parent[p]]

Lifecycle == INSTANCE ProcLifecycle WITH running <- proc, parent <- LifecycleParent

\* The round-robin kernel implements the life of a process.
RefinesLifecycle == Lifecycle!Spec

\* On any CPU every RUNNABLE process gets its turn, whatever the others do.
NoStarvation ==
  \A p \in Procs :
    state[p] = "RUNNABLE" ~> (state[p] = "RUNNING" \/ panicked # "none")

-------------------------------------------------------------------------------
(* The inductive invariant behind StaysConsistent and RefinesLifecycle. *)

\* A process is RUNNING exactly while it is the current process of a CPU, of one only; a
\* CPU has a current process exactly while its scheduler is switched out.
RunsOnce ==
  /\ \A p \in Procs : state[p] = "RUNNING" <=> \E c \in CPUs : proc[c] = p
  /\ \A c, d \in CPUs : proc[c] = proc[d] /\ proc[c] # NULL => c = d
  /\ \A c \in CPUs : spc[c] = "busy" <=> proc[c] # NULL

\* A scheduler walks only with ptable.lock, and only one who walks or is in wait() has it.
WalksLocked ==
  \A c \in CPUs : /\ spc[c] = "walk" => lock = c
                  /\ lock = c => spc[c] = "walk" \/ At(c, "wait")

\* Nobody who has left exit() for the last time can be started again.
DeadStayDead ==
  /\ panicked # "zombie exit"
  /\ \A p \in Procs : kpc[p] = "zombie" => state[p] \in {"ZOMBIE", "UNUSED"}

\* A fork() in progress owns an EMBRYO of its own, without a parent before the unlocked
\* copies and then with the process that forks.
ForkOwnsChild ==
  /\ \A p \in Procs : kpc[p] \in {"forkcopy", "forkadd"} =>
       /\ child[p] \in Procs /\ state[child[p]] = "EMBRYO"
       /\ parent[child[p]] = IF kpc[p] = "forkcopy" THEN NULL ELSE p
  /\ \A p, q \in {r \in Procs : kpc[r] \in {"forkcopy", "forkadd"}} :
       child[p] = child[q] => p = q

\* Whoever sleeps in wait() sleeps on himself and has no ZOMBIE to reap, whoever holds
\* ptable.lock.
WaitersAreTold ==
  \A p \in Procs : state[p] = "SLEEPING" /\ kpc[p] = "wait" =>
    chan[p] = p /\ Zombies(p) = {}

AliveStates == {"RUNNABLE", "RUNNING", "SLEEPING"}

\* init never dies and is nobody's child, and nobody is his own.
InitIsAlive ==
  /\ state[InitProc] \in AliveStates
  /\ parent[InitProc] = NULL
  /\ \A p \in Procs : parent[p] # p

\* The conjunction is inductive.
IInv ==
  /\ TypeOK
  /\ RunsOnce
  /\ WalksLocked
  /\ DeadStayDead
  /\ ForkOwnsChild
  /\ WaitersAreTold
  /\ InitIsAlive
===============================================================================
