------------------------------ MODULE PrioSched -------------------------------
(***************************************************************************)
(* Process management of the priority kernel: priority-scheduler/proc.c,   *)
(* sys_setpriority() and the parts of trap.c that enter the kernel,        *)
(* preempt and force an exit.                                              *)
(*                                                                         *)
(* Here rq_select() too is called with ptable_lock held, so every critical *)
(* section of ptable_lock is atomic and is one action.  The lock crosses a *)
(* context switch: a process that resumes inside wait() still has it and   *)
(* goes round the loop, which is a second step; waiter is the CPU where    *)
(* that happens.  fork() writes np->parent without the lock.               *)
(*                                                                         *)
(* Time: old[p] says that more than 10000 ticks have passed since p was    *)
(* created.  wait_ticks counts scheduler passes, as in the code.           *)
(* Left out: the statistics (waiting_time, cpu_time, context_switches...), *)
(* which no decision reads, and what fork, exit and exec do to files and   *)
(* memory.                                                                 *)
(***************************************************************************)
EXTENDS PrioRunqueue

CONSTANTS Chans,         \* wait channels other than process pointers
          PriorityArgs,  \* priorities that programs ask for
          AGE,           \* passes until a process ages (50)
          HIGH_PID,      \* pids above it are kept at priority SHORT (100)
          MaxPid         \* bound: processes created in a behaviour

ASSUME PrioSchedAssumption ==
  /\ Chans \cap (0 .. NPROC) = {}
  /\ PriorityArgs \subseteq Prios
  /\ AGE \in Nat \ {0} /\ HIGH_PID \in Nat /\ MaxPid \in Nat \ {0}

NoCpu    == -1
InitProc == 1

ProcStates   == {"UNUSED", "EMBRYO", "SLEEPING", "RUNNABLE", "RUNNING", "ZOMBIE"}
KernelPoints == {"user", "sys", "forkcopy", "forkadd", "wait", "slept", "exit", "zombie"}
SchedPoints  == {"top", "select", "busy"}
Panics       == {"none", "init exiting", "zombie exit", "invalid CPU assignment"}

VARIABLES
  state, pid, parent, killed, chan, priority, wait_ticks, cpu, old,  \* struct proc
  kpc,       \* kernel program point of each process
  child,     \* fork()'s local np
  nextpid,
  q,         \* the run queues and p->next
  proc,      \* cpus[c].proc
  spc,       \* scheduler(): "top", "select" (priorities updated), "busy"
  waiter,    \* the CPU whose process has resumed in wait(), holding ptable_lock
  panicked

procVars == <<pid, parent, killed, chan, wait_ticks, cpu, old>>
vars == <<procVars, state, priority, kpc, child, nextpid, q, proc, spc, waiter, panicked>>

TypeOK ==
  /\ state      \in [Procs -> ProcStates]
  /\ pid        \in [Procs -> Nat]
  /\ parent     \in [Procs -> Procs \cup {NULL}]
  /\ killed     \in [Procs -> BOOLEAN]
  /\ chan       \in [Procs -> {NULL} \cup Procs \cup Chans]
  /\ priority   \in [Procs -> Prios]
  /\ wait_ticks \in [Procs -> 0 .. AGE - 1]
  /\ cpu        \in [Procs -> CPUs \cup {NoCpu}]
  /\ old        \in [Procs -> BOOLEAN]
  /\ kpc        \in [Procs -> KernelPoints]
  /\ child      \in [Procs -> Procs \cup {NULL}]
  /\ nextpid    \in Nat
  /\ q          \in Queues
  /\ proc       \in [CPUs -> Procs \cup {NULL}]
  /\ spc        \in [CPUs -> SchedPoints]
  /\ waiter     \in CPUs \cup {NoCpu}
  /\ panicked   \in Panics

\* userinit(): the first process is on the short-lived list of CPU 0.
Init ==
  /\ state      = [p \in Procs |-> IF p = InitProc THEN "RUNNABLE" ELSE "UNUSED"]
  /\ pid        = [p \in Procs |-> IF p = InitProc THEN 1 ELSE 0]
  /\ parent     = [p \in Procs |-> NULL]
  /\ killed     = [p \in Procs |-> FALSE]
  /\ chan       = [p \in Procs |-> NULL]
  /\ priority   = [p \in Procs |-> IF p = InitProc THEN SHORT ELSE 0]
  /\ wait_ticks = [p \in Procs |-> 0]
  /\ cpu        = [p \in Procs |-> 0]
  /\ old        = [p \in Procs |-> FALSE]
  /\ kpc        = [p \in Procs |-> "user"]
  /\ child      = [p \in Procs |-> NULL]
  /\ nextpid    = 2
  /\ q          = rq_add(rq_init, 0, InitProc, SHORT)
  /\ proc       = [c \in CPUs |-> NULL]
  /\ spc        = [c \in CPUs |-> "top"]
  /\ waiter     = NoCpu
  /\ panicked   = "none"

-------------------------------------------------------------------------------
(* Helpers shared by the operations. *)

At(c, point) == spc[c] = "busy" /\ kpc[proc[c]] = point
LockFree     == waiter = NoCpu
Goto(p, point) == kpc' = [kpc EXCEPT ![p] = point]

Sleeping(p, ch) == state[p] = "SLEEPING" /\ chan[p] = ch
Children(p) == {r \in Procs : parent[r] = p}

\* wait() without the test p->parent != curproc.
Zombies_anyone(p) == {r \in Procs : state[r] = "ZOMBIE"}

Zombies(p) == {r \in Children(p) : state[r] = "ZOMBIE"}

\* What wakeup1() and update_priorities() change while they scan the table.
Table == [state |-> state, priority |-> priority, q |-> q]

\* The table after every slot has been visited in order.
Scan(visit(_, _), t) ==
  LET after[i \in 0 .. NPROC] == IF i = 0 THEN t ELSE visit(after[i - 1], i)
  IN  after[NPROC]

Install(t) == state' = t.state /\ priority' = t.priority /\ q' = t.q

\* sched() and the tail of scheduler(): c->proc = 0, ptable_lock released.
SwitchToScheduler(c) ==
  /\ proc'   = [proc EXCEPT ![c] = NULL]
  /\ spc'    = [spc EXCEPT ![c] = "top"]
  /\ waiter' = NoCpu

\* The "invalid CPU assignment" tests: every caller has a process past fork().
Valid(p) == cpu[p] \in CPUs

\* wakeup1() on one sleeper.  A priority other than 0 and SHORT is lifted to 0; the
\* process is queued there, and then queued once more like every other.
Awaken(t, p) ==
  LET lift == t.priority[p] > 0 /\ t.priority[p] # SHORT
      removed == rq_remove(t.q, cpu[p], p, t.priority[p])
      lifted == IF lift THEN rq_add(removed, cpu[p], p, 0) ELSE t.q
      prio == IF lift THEN 0 ELSE t.priority[p]
  IN  [state    |-> [t.state EXCEPT ![p] = "RUNNABLE"],
       priority |-> [t.priority EXCEPT ![p] = prio],
       q        |-> rq_add(lifted, cpu[p], p, prio)]

wakeup1(t, ch) ==
  Scan(LAMBDA s, p : IF s.state[p] = "SLEEPING" /\ chan[p] = ch THEN Awaken(s, p) ELSE s, t)

\* rq_remove, change the priority, rq_add: the last two only for a RUNNABLE process.
Requeue(t, p, k) ==
  [t EXCEPT !.priority[p] = k,
            !.q = IF t.state[p] = "RUNNABLE"
                  THEN rq_add(rq_remove(@, cpu[p], p, t.priority[p]), cpu[p], p, k)
                  ELSE @]

-------------------------------------------------------------------------------
(* Entering the kernel, preemption: trap.c. *)

Trap(c) ==
  LET p == proc[c] IN
  /\ At(c, "user")
  /\ \/ killed' = [killed EXCEPT ![p] = TRUE] /\ Goto(p, "exit")
     \/ ~killed[p] /\ Goto(p, "sys") /\ UNCHANGED killed
  /\ UNCHANGED <<state, pid, parent, chan, priority, wait_ticks, cpu, old, child, nextpid,
                 q, proc, spc, waiter, panicked>>

\* A system call that does nothing here, or fails.
sysReturns(c) ==
  /\ At(c, "sys")
  /\ Goto(proc[c], "user")
  /\ UNCHANGED <<procVars, state, priority, child, nextpid, q, proc, spc, waiter, panicked>>

\* A timer interrupt or the yield system call.
yield(c) ==
  LET p == proc[c] IN
  /\ spc[c] = "busy" /\ LockFree
  /\ state' = [state EXCEPT ![p] = "RUNNABLE"]
  /\ IF Valid(p)
     THEN q' = rq_add(q, cpu[p], p, priority[p]) /\ UNCHANGED panicked
     ELSE panicked' = "invalid CPU assignment" /\ UNCHANGED q
  /\ SwitchToScheduler(c)
  /\ UNCHANGED <<procVars, priority, kpc, child, nextpid>>

\* Time passes until p is older than 10000 ticks.
growOld(p) ==
  /\ state[p] \notin {"UNUSED", "EMBRYO", "ZOMBIE"} /\ pid[p] \notin {1, 2} /\ ~old[p]
  /\ old' = [old EXCEPT ![p] = TRUE]
  /\ UNCHANGED <<state, pid, parent, killed, chan, priority, wait_ticks, cpu, kpc, child,
                 nextpid, q, proc, spc, waiter, panicked>>

-------------------------------------------------------------------------------
(* fork() *)

allocproc(c) ==
  LET free == {r \in Procs : state[r] = "UNUSED"}
      np == Min(free)
  IN
  /\ At(c, "sys") /\ LockFree
  /\ free # {} /\ nextpid <= MaxPid
  /\ state'      = [state EXCEPT ![np] = "EMBRYO"]
  /\ pid'        = [pid EXCEPT ![np] = nextpid]
  /\ priority'   = [priority EXCEPT ![np] = SHORT]
  /\ wait_ticks' = [wait_ticks EXCEPT ![np] = 0]
  /\ q'          = [q EXCEPT !.next[np] = NULL]
  /\ old'        = [old EXCEPT ![np] = FALSE]
  /\ cpu'        = [cpu EXCEPT ![np] = NoCpu]
  /\ nextpid'    = nextpid + 1
  /\ child'      = [child EXCEPT ![proc[c]] = np]
  /\ kpc'        = [kpc EXCEPT ![proc[c]] = "forkcopy", ![np] = "user"]
  /\ UNCHANGED <<parent, killed, chan, proc, spc, waiter, panicked>>

\* kalloc() or copyuvm() found no memory.
forkFails(c) ==
  LET p == proc[c] IN
  /\ At(c, "forkcopy") /\ LockFree
  /\ state' = [state EXCEPT ![child[p]] = "UNUSED"]
  /\ child' = [child EXCEPT ![p] = NULL]
  /\ Goto(p, "user")
  /\ UNCHANGED <<procVars, priority, nextpid, q, proc, spc, waiter, panicked>>

forkCopies(c) ==
  LET p == proc[c] IN
  /\ At(c, "forkcopy")
  /\ parent' = [parent EXCEPT ![child[p]] = p]
  /\ Goto(p, "forkadd")
  /\ UNCHANGED <<state, pid, killed, chan, priority, wait_ticks, cpu, old, child, nextpid,
                 q, proc, spc, waiter, panicked>>

\* The CPU with the smallest count below NPROC, the lowest-numbered of several, or 0.
LeastLoaded ==
  {c \in CPUs : q.count[c] < NPROC /\ \A d \in CPUs : q.count[c] <= q.count[d]}

LeastLoadedCpu == IF LeastLoaded = {} THEN 0 ELSE Min(LeastLoaded)

forkAdds(c) ==
  LET p == proc[c]
      np == child[p]
  IN
  /\ At(c, "forkadd") /\ LockFree
  /\ state' = [state EXCEPT ![np] = "RUNNABLE"]
  /\ cpu'   = [cpu EXCEPT ![np] = LeastLoadedCpu]
  /\ q'     = rq_add(q, LeastLoadedCpu, np, priority[np])
  /\ Goto(p, "user")
  /\ child' = [child EXCEPT ![p] = NULL]
  /\ UNCHANGED <<pid, parent, killed, chan, priority, wait_ticks, old, nextpid, proc, spc,
                 waiter, panicked>>

-------------------------------------------------------------------------------
(* sleep(), wakeup(), kill() *)

\* sleep(chan, lk) up to sched(), from the given program point.
SleepOn(c, ch, point) ==
  LET p == proc[c] IN
  /\ chan'  = [chan EXCEPT ![p] = ch]
  /\ state' = [state EXCEPT ![p] = "SLEEPING"]
  /\ IF Valid(p)
     THEN q' = rq_remove(q, cpu[p], p, priority[p]) /\ UNCHANGED panicked
     ELSE panicked' = "invalid CPU assignment" /\ UNCHANGED q
  /\ SwitchToScheduler(c)
  /\ Goto(p, point)
  /\ UNCHANGED <<pid, parent, killed, priority, wait_ticks, cpu, old, child, nextpid>>

sleep(c, ch) == At(c, "sys") /\ LockFree /\ SleepOn(c, ch, "slept")

\* wakeup(chan), from a process or from an interrupt handler.
wakeup(ch) ==
  /\ LockFree /\ \E c \in CPUs : spc[c] \in {"top", "busy"}
  /\ \E p \in Procs : Sleeping(p, ch)
  /\ Install(wakeup1(Table, ch))
  /\ UNCHANGED <<procVars, kpc, child, nextpid, proc, spc, waiter, panicked>>

\* kill() and update_priorities() wake a sleeper without touching its priority.
Rouse(t, p) ==
  IF t.state[p] = "SLEEPING"
  THEN [t EXCEPT !.state[p] = "RUNNABLE", !.q = rq_add(@, cpu[p], p, t.priority[p])]
  ELSE t

kill(c, n) ==
  LET found == {r \in Procs : pid[r] = n}
      v == Min(found)
  IN
  /\ At(c, "sys") /\ LockFree
  /\ found # {}
  /\ killed' = [killed EXCEPT ![v] = TRUE]
  /\ Install(Rouse(Table, v))
  /\ Goto(proc[c], "user")
  /\ UNCHANGED <<pid, parent, chan, wait_ticks, cpu, old, child, nextpid, proc, spc, waiter,
                 panicked>>

-------------------------------------------------------------------------------
(* exit() and wait() *)

sys_exit(c) ==
  /\ At(c, "sys")
  /\ Goto(proc[c], "exit")
  /\ UNCHANGED <<procVars, state, priority, child, nextpid, q, proc, spc, waiter, panicked>>

\* The parent is woken, and init if it inherits a ZOMBIE.
ExitWakes(p) ==
  LET woken == wakeup1(Table, parent[p]) IN
  IF Zombies(p) # {} THEN wakeup1(woken, InitProc) ELSE woken

\* exit(), files closed: wake the parent, hand the children to init, become a ZOMBIE.
exit(c) ==
  LET p == proc[c]
      t == ExitWakes(p)
  IN
  /\ At(c, "exit") /\ LockFree /\ p # InitProc
  /\ Install([state    |-> [t.state EXCEPT ![p] = "ZOMBIE"],
              priority |-> t.priority,
              q        |-> IF Valid(p) THEN rq_remove(t.q, cpu[p], p, t.priority[p]) ELSE t.q])
  /\ parent' = [r \in Procs |-> IF parent[r] = p THEN InitProc ELSE parent[r]]
  /\ panicked' = IF Valid(p) THEN panicked ELSE "invalid CPU assignment"
  /\ SwitchToScheduler(c)
  /\ Goto(p, "zombie")
  /\ UNCHANGED <<pid, killed, chan, wait_ticks, cpu, old, child, nextpid>>

initExits(c) ==
  /\ At(c, "exit") /\ proc[c] = InitProc
  /\ panicked' = "init exiting"
  /\ UNCHANGED <<procVars, state, priority, kpc, child, nextpid, q, proc, spc, waiter>>

\* wait() is entered from the system call, or resumed with ptable_lock held.
InWait(c) == \/ At(c, "sys") /\ LockFree
             \/ At(c, "wait") /\ waiter = c

waitReaps(c) ==
  LET p == proc[c]
      z == Min(Zombies(p))
  IN
  /\ InWait(c) /\ Zombies(p) # {}
  /\ pid'    = [pid EXCEPT ![z] = 0]
  /\ parent' = [parent EXCEPT ![z] = NULL]
  /\ killed' = [killed EXCEPT ![z] = FALSE]
  /\ state'  = [state EXCEPT ![z] = "UNUSED"]
  /\ IF Valid(z)
     THEN q' = rq_remove(q, cpu[z], z, priority[z]) /\ UNCHANGED panicked
     ELSE panicked' = "invalid CPU assignment" /\ UNCHANGED q
  /\ Goto(p, "user")
  /\ waiter' = NoCpu
  /\ UNCHANGED <<chan, priority, wait_ticks, cpu, old, child, nextpid, proc, spc>>

waitFails(c) ==
  LET p == proc[c] IN
  /\ InWait(c) /\ Zombies(p) = {}
  /\ Children(p) = {} \/ killed[p]
  /\ Goto(p, "user")
  /\ waiter' = NoCpu
  /\ UNCHANGED <<procVars, state, priority, child, nextpid, q, proc, spc, panicked>>

waitSleeps(c) ==
  LET p == proc[c] IN
  /\ InWait(c) /\ Zombies(p) = {}
  /\ Children(p) # {} /\ ~killed[p]
  /\ SleepOn(c, p, "wait")

-------------------------------------------------------------------------------
(* setpriority() and the scheduler *)

sys_setpriority(c, n, k) ==
  LET found == {r \in Procs : pid[r] = n} IN
  /\ At(c, "sys") /\ LockFree
  /\ found # {}
  /\ Install(Requeue(Table, Min(found), k))
  /\ Goto(proc[c], "user")
  /\ UNCHANGED <<procVars, child, nextpid, proc, spc, waiter, panicked>>

Live(p)    == state[p] \in {"RUNNABLE", "RUNNING", "SLEEPING"}
TooOld(p)  == Live(p) /\ old[p] /\ pid[p] \notin {1, 2}
Waits(p)   == Live(p) /\ ~TooOld(p)

Ages(p) == Waits(p) /\ wait_ticks[p] + 1 >= AGE

\* update_priorities() on one slot: a process that is too old is killed, a high pid goes
\* back to SHORT, a low one rises by one each time its wait_ticks reach AGE.
UpdatePriority(t, p) ==
  LET reset == IF Waits(p) /\ pid[p] > HIGH_PID /\ t.priority[p] # SHORT
               THEN Requeue(t, p, SHORT) ELSE t
  IN  IF TooOld(p) THEN Rouse(t, p)
      ELSE IF Ages(p) /\ pid[p] <= HIGH_PID /\ reset.priority[p] > 0
      THEN Requeue(reset, p, reset.priority[p] - 1)
      ELSE reset

\* scheduler(), first half: interrupts off, priorities updated, lock released again.
update_priorities(c) ==
  /\ spc[c] = "top" /\ LockFree
  /\ Install(Scan(UpdatePriority, Table))
  /\ killed' = [p \in Procs |-> killed[p] \/ TooOld(p)]
  /\ wait_ticks' = [p \in Procs |-> IF ~Waits(p) THEN wait_ticks[p]
                                    ELSE IF Ages(p) THEN 0 ELSE wait_ticks[p] + 1]
  /\ spc' = [spc EXCEPT ![c] = "select"]
  /\ UNCHANGED <<pid, parent, chan, cpu, old, kpc, child, nextpid, proc, waiter, panicked>>

\* scheduler(), second half: run what rq_select() returns.  Its kernel thread continues
\* behind its own sched().
run(c) ==
  LET p == Selected(q, c) IN
  /\ spc[c] = "select" /\ LockFree /\ p # NULL
  /\ q'     = rq_select(q, c)
  /\ proc'  = [proc EXCEPT ![c] = p]
  /\ spc'   = [spc EXCEPT ![c] = "busy"]
  /\ state' = [state EXCEPT ![p] = "RUNNING"]
  /\ chan'  = [chan EXCEPT ![p] = IF kpc[p] \in {"wait", "slept"} THEN NULL ELSE @]
  /\ Goto(p, IF kpc[p] = "slept" THEN "sys" ELSE kpc[p])
  /\ waiter' = IF kpc[p] = "wait" THEN c ELSE NoCpu
  /\ panicked' = IF kpc[p] = "zombie" THEN "zombie exit" ELSE panicked
  /\ UNCHANGED <<pid, parent, killed, priority, wait_ticks, cpu, old, child, nextpid>>

idle(c) ==
  /\ spc[c] = "select" /\ LockFree /\ Selected(q, c) = NULL
  /\ spc' = [spc EXCEPT ![c] = "top"]
  /\ UNCHANGED <<procVars, state, priority, kpc, child, nextpid, q, proc, waiter, panicked>>

-------------------------------------------------------------------------------
PidArgs == 0 .. MaxPid

CpuStep(c) ==
  \/ Trap(c) \/ sysReturns(c) \/ yield(c)
  \/ allocproc(c) \/ forkFails(c) \/ forkCopies(c) \/ forkAdds(c)
  \/ \E ch \in Chans : sleep(c, ch)
  \/ \E n \in PidArgs : kill(c, n)
  \/ sys_exit(c) \/ exit(c) \/ initExits(c)
  \/ waitReaps(c) \/ waitFails(c) \/ waitSleeps(c)
  \/ \E n \in PidArgs, k \in PriorityArgs : sys_setpriority(c, n, k)
  \/ update_priorities(c) \/ run(c) \/ idle(c)

\* Nothing runs after a panic; a CPU in an endless loop with ptable_lock stops the rest.
Next ==
  /\ panicked = "none" /\ q.fault = "none"
  /\ \/ \E c \in CPUs : CpuStep(c)
     \/ \E ch \in Chans : wakeup(ch)
     \/ \E p \in Procs : growOld(p)

Spec == Init /\ [][Next]_vars

\* wakeup1() lifts a sleeper to priority 0, which queues it twice.
WakeupLifts ==
  \E p \in Procs : /\ state[p] = "SLEEPING" /\ state'[p] = "RUNNABLE"
                   /\ priority'[p] # priority[p]

\* All behaviours up to the first such wakeup.
SpecNoLift == Init /\ [][Next /\ ~WakeupLifts]_vars

-------------------------------------------------------------------------------
(* Properties. *)

Queued(c, k) ==
  {p \in Procs : state[p] = "RUNNABLE" /\ cpu[p] = c /\ priority[p] = k}

\* The lists and the process table agree, until wakeup1() lifts somebody: the list of
\* priority k on CPU c ends, its tail is its last node, it holds exactly the RUNNABLE
\* processes of that CPU and priority, and the count is the number of processes in all
\* lists.  proc.c unlinks and relinks a process in nine places, and every priority
\* change in between must find it in the list of its old priority.
QueueMatchesState ==
  \A c \in CPUs :
    /\ \A k \in Prios :
         /\ Ends(q, c, k)
         /\ ListMembers(q, c, k) = Queued(c, k)
         /\ IF Queued(c, k) = {} THEN q.tail[c][k] = NULL
            ELSE q.tail[c][k] \in Queued(c, k) /\ q.next[q.tail[c][k]] = NULL
    /\ q.count[c] = Cardinality({p \in Procs : state[p] = "RUNNABLE" /\ cpu[p] = c})

\* RUNNING means being the current process of exactly one CPU, the assigned one, and a
\* process that holds ptable_lock inside wait() is running.
CpuMatchesState ==
  /\ \A p \in Procs : state[p] = "RUNNING" <=> \E c \in CPUs : proc[c] = p
  /\ \A c \in CPUs : proc[c] # NULL => cpu[proc[c]] = c
  /\ \A c \in CPUs : waiter = c => proc[c] # NULL /\ kpc[proc[c]] = "wait"

\* The panics of proc.c and runqueue.c are not reached, except that init is killed, and
\* no traversal of a list runs for ever.
NoPanic == panicked \in {"none", "init exiting"} /\ q.fault = "none"

\* What rq_select() takes from the lists is right for the process table: no RUNNABLE
\* process of this CPU ranks before the one that scheduler() starts.  Priority SHORT ranks
\* before 0, although README.md calls 0 the highest.
PicksBest ==
  [][\A c \in CPUs : proc[c] = NULL /\ proc'[c] # NULL =>
       \A p \in Procs : state[p] = "RUNNABLE" /\ cpu[p] = c =>
         Rank(priority[proc'[c]]) <= Rank(priority[p])]_vars

\* No wakeup of wait() is lost: when ptable_lock is free, a process asleep in wait()
\* has a child and none of its children is a ZOMBIE.
NoZombieMissed ==
  LockFree =>
    \A p \in Procs : state[p] = "SLEEPING" /\ kpc[p] = "wait" =>
      Children(p) # {} /\ Zombies(p) = {}

\* Up to the first lifted sleeper the lists, the process table and the CPUs agree in every
\* interleaving, and wait() misses no child.
StaysConsistent ==
  TypeOK /\ QueueMatchesState /\ CpuMatchesState /\ NoPanic /\ NoZombieMissed

Lifecycle == INSTANCE ProcLifecycle WITH running <- proc

\* The priority kernel implements the life of a process, until wakeup1() lifts somebody.
RefinesLifecycle == Lifecycle!Spec

\* exit() ends with panic("zombie exit"): a ZOMBIE is never started again.
ZombieNeverRuns == panicked # "zombie exit"

-------------------------------------------------------------------------------
(* The inductive invariant behind the properties, up to the first lifted sleeper. *)

\* The list on which each process belongs: the states st and the priorities pr decide.
Nowhere == <<NoCpu, 0>>

Places(st, pr) ==
  [p \in Procs |-> IF st[p] = "RUNNABLE" THEN <<cpu[p], pr[p]>> ELSE Nowhere]

Listed(w, c, k) == {p \in Procs : w[p] = <<c, k>>}
Counted(w, c)   == {p \in Procs : w[p][1] = c}

\* s is what list k of CPU c holds, n processes from its head to its tail.
IsList(u, c, k, n, s) ==
  /\ u.head[c][k] = IF n = 0 THEN NULL ELSE s[1]
  /\ u.tail[c][k] = IF n = 0 THEN NULL ELSE s[n]
  /\ \A i \in 1 .. n : u.next[s[i]] = IF i = n THEN NULL ELSE s[i + 1]
  /\ \A i, j \in 1 .. n : s[i] = s[j] => i = j

\* List k of CPU c links the processes that belong there, each once.
HoldsList(u, w, c, k) ==
  \E n \in 0 .. NPROC : \E s \in [1 .. n -> Listed(w, c, k)] :
    /\ n = Cardinality(Listed(w, c, k)) /\ IsList(u, c, k, n, s)
    /\ \A p \in Listed(w, c, k) : \E i \in 1 .. n : s[i] = p

\* So do all lists, and the counts are right.
ListsHold(u, w) ==
  /\ u \in Queues /\ u.fault = "none"
  /\ \A c \in CPUs : u.count[c] = Cardinality(Counted(w, c))
  /\ \A c \in CPUs, k \in Prios : HoldsList(u, w, c, k)

\* RUNNING is whoever is the current process of a CPU, of one only, which is the assigned
\* one; a scheduler is switched out exactly while its CPU has a current process.
RunsOnce ==
  /\ \A p \in Procs : state[p] = "RUNNING" <=> \E c \in CPUs : proc[c] = p
  /\ \A c \in CPUs : proc[c] # NULL => cpu[proc[c]] = c
  /\ \A c \in CPUs : spc[c] = "busy" <=> proc[c] # NULL
  /\ \A c \in CPUs : waiter = c => At(c, "wait")

\* A process that fork() has finished is assigned to a CPU.
IsAssigned == \A p \in Procs : state[p] \notin {"UNUSED", "EMBRYO"} => cpu[p] \in CPUs

\* Nobody who has left exit() for the last time can be started again.
DeadStayDead ==
  /\ panicked \in {"none", "init exiting"}
  /\ \A p \in Procs : kpc[p] = "zombie" => state[p] \in {"ZOMBIE", "UNUSED"}

\* A fork() in progress owns an EMBRYO of its own, without a parent before the unlocked
\* copies and then with the process that forks.
ForkOwnsChild ==
  /\ \A p \in Procs : kpc[p] \in {"forkcopy", "forkadd"} =>
       /\ child[p] \in Procs /\ state[child[p]] = "EMBRYO"
       /\ parent[child[p]] = IF kpc[p] = "forkcopy" THEN NULL ELSE p
  /\ \A p, r \in {x \in Procs : kpc[x] \in {"forkcopy", "forkadd"}} :
       child[p] = child[r] => p = r
  /\ \A p \in Procs : state[p] = "UNUSED" => parent[p] = NULL

\* Whoever sleeps in wait() sleeps on himself, has a child and no ZOMBIE to reap.
WaitersAreTold ==
  \A p \in Procs : state[p] = "SLEEPING" /\ kpc[p] = "wait" =>
    chan[p] = p /\ Children(p) # {} /\ Zombies(p) = {}

\* init never dies and is nobody's child, and nobody is his own.
InitIsAlive ==
  /\ Live(InitProc)
  /\ parent[InitProc] = NULL
  /\ \A p \in Procs : parent[p] # p

\* The conjunction is inductive.
IInv ==
  /\ TypeOK
  /\ ListsHold(q, Places(state, priority))
  /\ RunsOnce
  /\ IsAssigned
  /\ DeadStayDead
  /\ ForkOwnsChild
  /\ WaitersAreTold
  /\ InitIsAlive
===============================================================================
