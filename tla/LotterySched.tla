----------------------------- MODULE LotterySched -----------------------------
(***************************************************************************)
(* Process management of the lottery kernel: lottery-scheduler/proc.c,     *)
(* with the system calls of sysproc.c that change a process and the parts  *)
(* of trap.c that enter the kernel, preempt and force an exit.             *)
(*                                                                         *)
(* Atomicity.  Every change of the process table is made under ptable_lock *)
(* and an action is one critical section of it, with these exceptions,     *)
(* which are steps of their own because other CPUs interleave with them:   *)
(*  - fork() writes np->parent and np->tickets without the lock;           *)
(*  - rq_select() runs under rq.lock only: it adds the tickets up in one   *)
(*    pass and draws in another, while settickets_pid() writes tickets     *)
(*    under ptable_lock, and its answer is used after both locks are free; *)
(*  - wakeup1() is a loop over the table, one woken process per step.      *)
(* cs is the program point of the only CPU that can be inside a critical   *)
(* section of several steps.                                               *)
(*                                                                         *)
(* Left out: the statistics (ticks_scheduled, recent_schedules and their   *)
(* periodic decay, last_scheduled), which no decision reads, and what      *)
(* fork, exit and exec do to files and memory.                             *)
(***************************************************************************)
EXTENDS LotteryRunqueue, FiniteSetsExt

CONSTANTS NCPU,        \* number of CPUs found by mpinit
          Chans,       \* wait channels other than process pointers
          TicketArgs,  \* ticket counts that programs ask for
          MaxPid       \* bound: processes created in a behaviour

ASSUME SchedAssumption ==
  /\ NCPU \in Nat \ {0}
  /\ Chans \cap (0 .. NPROC) = {}
  /\ TicketArgs \subseteq Nat \ {0}
  /\ MaxPid \in Nat \ {0}

CPUs     == 0 .. (NCPU - 1)
NoCpu    == -1
InitProc == 1            \* userinit() takes the first slot
None     == NULL

ProcStates == {"UNUSED", "EMBRYO", "SLEEPING", "RUNNABLE", "RUNNING", "ZOMBIE"}

\* Where the kernel thread of a process is, or will be when it next runs.
KernelPoints == {"user",      \* in user space, or about to return there
                 "sys",       \* in a system call, past the killed check
                 "forkcopy",  \* in fork(), after allocproc()
                 "forkadd",   \* in fork(), after the unlocked copies
                 "wait",      \* asleep in wait()
                 "slept",     \* asleep in sleep(chan, lk)
                 "exit",      \* in exit(), files closed
                 "zombie"}    \* past sched() in exit()

VARIABLES
  state, pid, parent, killed, chan, tickets, cpu,  \* struct proc
  kpc,       \* kernel program point of each process
  child,     \* fork()'s local np
  nextpid,
  rq,        \* cpus[c].rq
  proc,      \* cpus[c].proc
  spc,       \* scheduler(): "top", "draw" (holds rq.lock), "run", "busy"
  total,     \* rq_select()'s total_tickets
  sel,       \* scheduler()'s p
  cs,        \* ptable_lock: "free", or what its holder is doing
  csCpu,     \* the holder
  wk,        \* processes wakeup1() has still to wake
  panicked

procVars  == <<state, pid, parent, killed, chan, tickets, cpu>>
schedVars == <<proc, spc, total, sel>>
lockVars  == <<cs, csCpu, wk>>
vars == <<procVars, kpc, child, nextpid, rq, schedVars, lockVars, panicked>>

SchedPoints == {"top", "draw", "run", "busy"}
LockPoints  == {"free", "wakeup", "exit", "exit2", "wait"}
Panics      == {"none", "init exiting", "zombie exit", "runqueue full",
                "invalid CPU assignment"}

TypeOK ==
  /\ state   \in [Procs -> ProcStates]
  /\ pid     \in [Procs -> Nat]
  /\ parent  \in [Procs -> Procs \cup {NULL}]
  /\ killed  \in [Procs -> BOOLEAN]
  /\ chan    \in [Procs -> {NULL} \cup Procs \cup Chans]
  /\ tickets \in [Procs -> Nat]
  /\ cpu     \in [Procs -> CPUs \cup {NoCpu}]
  /\ kpc     \in [Procs -> KernelPoints]
  /\ child   \in [Procs -> Procs \cup {NULL}]
  /\ nextpid \in Nat
  /\ rq      \in [CPUs -> Runqueues]
  /\ proc    \in [CPUs -> Procs \cup {NULL}]
  /\ spc     \in [CPUs -> SchedPoints]
  /\ DOMAIN total = CPUs
  /\ sel     \in [CPUs -> Procs \cup {NULL}]
  /\ cs      \in LockPoints
  /\ csCpu   \in CPUs \cup {NoCpu}
  /\ wk      \in SUBSET Procs
  /\ panicked \in Panics

\* userinit(): the first process is on the queue of CPU 0.
Init ==
  /\ state   = [p \in Procs |-> IF p = InitProc THEN "RUNNABLE" ELSE "UNUSED"]
  /\ pid     = [p \in Procs |-> IF p = InitProc THEN 1 ELSE 0]
  /\ parent  = [p \in Procs |-> NULL]
  /\ killed  = [p \in Procs |-> FALSE]
  /\ chan    = [p \in Procs |-> NULL]
  /\ tickets = [p \in Procs |-> IF p = InitProc THEN 1 ELSE 0]
  /\ cpu     = [p \in Procs |-> 0]
  /\ kpc     = [p \in Procs |-> "user"]
  /\ child   = [p \in Procs |-> NULL]
  /\ nextpid = 2
  /\ rq      = [c \in CPUs |-> IF c = 0 THEN rq_add(rq_init, InitProc) ELSE rq_init]
  /\ proc    = [c \in CPUs |-> NULL]
  /\ spc     = [c \in CPUs |-> "top"]
  /\ total   = [c \in CPUs |-> 0]
  /\ sel     = [c \in CPUs |-> NULL]
  /\ cs = "free" /\ csCpu = NoCpu /\ wk = {}
  /\ panicked = "none"

-------------------------------------------------------------------------------
(* Helpers shared by the operations. *)

\* The process on CPU c has its kernel thread at the given point.
At(c, point) == spc[c] = "busy" /\ kpc[proc[c]] = point

\* CPU c's scheduler holds its rq.lock only while it draws.
RqLockFree(c) == spc[c] # "draw"

\* The "invalid CPU assignment" test and the rq_add that follows it.
Enqueue(p) ==
  IF cpu[p] \notin CPUs
  THEN panicked' = "invalid CPU assignment" /\ UNCHANGED rq
  ELSE /\ RqLockFree(cpu[p])
       /\ panicked' = IF RqFull(rq[cpu[p]]) THEN "runqueue full" ELSE panicked
       /\ rq' = [rq EXCEPT ![cpu[p]] = rq_add(@, p)]

\* The same test and the rq_remove that follows it.
Dequeue(p) ==
  IF cpu[p] \notin CPUs
  THEN panicked' = "invalid CPU assignment" /\ UNCHANGED rq
  ELSE /\ RqLockFree(cpu[p])
       /\ rq' = [rq EXCEPT ![cpu[p]] = rq_remove(@, p)]
       /\ UNCHANGED panicked

\* The scheduler forgets c->proc = 0.
SwitchToScheduler_keepsProc(c) ==
  spc' = [spc EXCEPT ![c] = "top"] /\ UNCHANGED <<proc, total, sel>>

\* sched() and the tail of scheduler(): c->proc = 0, ptable_lock released.
SwitchToScheduler(c) ==
  /\ proc' = [proc EXCEPT ![c] = NULL]
  /\ spc'  = [spc EXCEPT ![c] = "top"]
  /\ UNCHANGED <<total, sel>>

Goto(p, point) == kpc' = [kpc EXCEPT ![p] = point]

Sleepers(ch) == {p \in Procs : state[p] = "SLEEPING" /\ chan[p] = ch}
Children(p) == {q \in Procs : parent[q] = p}
\* wait() forgets to compare the parent.
Zombies_anyone(p) == {q \in Procs : state[q] = "ZOMBIE"}
Zombies(p) == {q \in Children(p) : state[q] = "ZOMBIE"}

\* The tickets of the occupied slots below n; weight[p] is what p counts for.
QueueTickets(q, n, weight) ==
  MapThenSumSet(LAMBDA i : weight[q.procs[i]], {i \in Slots : i < n /\ q.procs[i] # NULL})

\* rq_select() never counts a process for less than one ticket.
EffectiveTickets == [p \in Procs |-> IF tickets[p] < 1 THEN 1 ELSE tickets[p]]

-------------------------------------------------------------------------------
(* Entering the kernel, preemption: trap.c. *)

\* A trap from user space: a system call, an interrupt, or a fault, which kills the
\* process.  A killed process exits; the test on the way back to user space is the
\* same test.
Trap(c) ==
  LET p == proc[c] IN
  /\ At(c, "user") /\ csCpu # c
  /\ \/ killed' = [killed EXCEPT ![p] = TRUE] /\ Goto(p, "exit")
     \/ ~killed[p] /\ Goto(p, "sys") /\ UNCHANGED killed
  /\ UNCHANGED <<state, pid, parent, chan, tickets, cpu, child, nextpid, rq, schedVars,
                 lockVars, panicked>>

\* A system call that does nothing here: one on files, a fork() that finds no free
\* slot, a kill() that finds no such pid, a sleeper that gives up because killed.
sysReturns(c) ==
  /\ At(c, "sys") /\ csCpu # c
  /\ Goto(proc[c], "user")
  /\ UNCHANGED <<procVars, child, nextpid, rq, schedVars, lockVars, panicked>>

\* A timer interrupt, anywhere interrupts are on, or the yield system call.
yield(c) ==
  LET p == proc[c] IN
  /\ spc[c] = "busy" /\ cs = "free"
  /\ state' = [state EXCEPT ![p] = "RUNNABLE"]
  /\ Enqueue(p)
  /\ SwitchToScheduler(c)
  /\ UNCHANGED <<pid, parent, killed, chan, tickets, cpu, kpc, child, nextpid, lockVars>>

-------------------------------------------------------------------------------
(* fork() *)

\* allocproc(): claim the first UNUSED slot.
allocproc(c) ==
  LET p == proc[c]
      free == {q \in Procs : state[q] = "UNUSED"}
      np == Min(free)
  IN
  /\ At(c, "sys") /\ cs = "free"
  /\ free # {} /\ nextpid <= MaxPid
  /\ state'   = [state EXCEPT ![np] = "EMBRYO"]
  /\ tickets' = [tickets EXCEPT ![np] = 1]
  /\ pid'     = [pid EXCEPT ![np] = nextpid]
  /\ cpu'     = [cpu EXCEPT ![np] = NoCpu]
  /\ nextpid' = nextpid + 1
  /\ child'   = [child EXCEPT ![p] = np]
  /\ Goto(p, "forkcopy")
  /\ UNCHANGED <<parent, killed, chan, rq, schedVars, lockVars, panicked>>

\* kalloc() or copyuvm() found no memory: the slot goes back, its pid stays.
forkFails(c) ==
  LET p == proc[c] IN
  /\ At(c, "forkcopy") /\ cs = "free"
  /\ state' = [state EXCEPT ![child[p]] = "UNUSED"]
  /\ child' = [child EXCEPT ![p] = NULL]
  /\ Goto(p, "user")
  /\ UNCHANGED <<pid, parent, killed, chan, tickets, cpu, nextpid, rq, schedVars,
                 lockVars, panicked>>

\* Parent and tickets are copied without ptable_lock.
forkCopies(c) ==
  LET p == proc[c] IN
  /\ At(c, "forkcopy") /\ csCpu # c
  /\ parent'  = [parent EXCEPT ![child[p]] = p]
  /\ tickets' = [tickets EXCEPT ![child[p]] = tickets[p]]
  /\ Goto(p, "forkadd")
  /\ UNCHANGED <<state, pid, killed, chan, cpu, child, nextpid, rq, schedVars,
                 lockVars, panicked>>

\* The CPU with the fewest queued tickets, the lowest-numbered of several; CPU 0
\* if every queue holds at least the 999999 that fork() starts its minimum from.
QueueLoad(c) == QueueTickets(rq[c], rq[c].count, tickets)

LeastLoaded ==
  {c \in CPUs : QueueLoad(c) < 999999 /\ \A d \in CPUs : QueueLoad(c) <= QueueLoad(d)}

LeastLoadedCpu == IF LeastLoaded = {} THEN 0 ELSE Min(LeastLoaded)

\* The child becomes RUNNABLE on that CPU; it will start in user space.
forkAdds(c) ==
  LET p  == proc[c]
      np == child[p]
      target == LeastLoadedCpu
  IN
  /\ At(c, "forkadd") /\ cs = "free"
  /\ \A d \in CPUs : RqLockFree(d)
  /\ state' = [state EXCEPT ![np] = "RUNNABLE"]
  /\ cpu'   = [cpu EXCEPT ![np] = target]
  /\ panicked' = IF RqFull(rq[target]) THEN "runqueue full" ELSE panicked
  /\ rq'    = [rq EXCEPT ![target] = rq_add(@, np)]
  /\ kpc'   = [kpc EXCEPT ![np] = "user", ![p] = "user"]
  /\ child' = [child EXCEPT ![p] = NULL]
  /\ UNCHANGED <<pid, parent, killed, chan, tickets, nextpid, schedVars, lockVars>>

-------------------------------------------------------------------------------
(* sleep(), wakeup(), kill() *)

\* sleep(chan, lk) for a lock other than ptable_lock, up to sched().
sleep(c, ch) ==
  LET p == proc[c] IN
  /\ At(c, "sys") /\ cs = "free"
  /\ chan'  = [chan EXCEPT ![p] = ch]
  /\ state' = [state EXCEPT ![p] = "SLEEPING"]
  /\ Dequeue(p)
  /\ SwitchToScheduler(c)
  /\ Goto(p, "slept")
  /\ UNCHANGED <<pid, parent, killed, tickets, cpu, child, nextpid, lockVars>>

\* wakeup(chan), from a process or from an interrupt handler on CPU c.
wakeup(c, ch) ==
  /\ cs = "free" /\ spc[c] \in {"top", "busy"}
  /\ Sleepers(ch) # {}
  /\ cs' = "wakeup" /\ csCpu' = c /\ wk' = Sleepers(ch)
  /\ UNCHANGED <<procVars, kpc, child, nextpid, rq, schedVars, panicked>>

\* One iteration of the loop of wakeup1() that finds a sleeper.
wakeup1 ==
  LET p == Min(wk) IN
  /\ wk # {}
  /\ state' = [state EXCEPT ![p] = "RUNNABLE"]
  /\ Enqueue(p)
  /\ wk' = wk \ {p}
  /\ UNCHANGED <<pid, parent, killed, chan, tickets, cpu, kpc, child, nextpid,
                 schedVars, cs, csCpu>>

wakeupDone ==
  /\ cs = "wakeup" /\ wk = {}
  /\ cs' = "free" /\ csCpu' = NoCpu
  /\ UNCHANGED <<procVars, kpc, child, nextpid, rq, schedVars, wk, panicked>>

\* The first slot with this pid, whatever its state, is killed.
kill(c, n) ==
  LET found == {q \in Procs : pid[q] = n}
      q == Min(found)
  IN
  /\ At(c, "sys") /\ cs = "free"
  /\ found # {}
  /\ killed' = [killed EXCEPT ![q] = TRUE]
  /\ IF state[q] = "SLEEPING"
     THEN state' = [state EXCEPT ![q] = "RUNNABLE"] /\ Enqueue(q)
     ELSE UNCHANGED <<state, rq, panicked>>
  /\ Goto(proc[c], "user")
  /\ UNCHANGED <<pid, parent, chan, tickets, cpu, child, nextpid, schedVars, lockVars>>

-------------------------------------------------------------------------------
(* exit(): wake the parent, hand the children to init, become a ZOMBIE. *)

sys_exit(c) ==
  /\ At(c, "sys") /\ csCpu # c
  /\ Goto(proc[c], "exit")
  /\ UNCHANGED <<procVars, child, nextpid, rq, schedVars, lockVars, panicked>>

exitWakesParent(c) ==
  /\ At(c, "exit") /\ cs = "free"
  /\ IF proc[c] = InitProc
     THEN panicked' = "init exiting" /\ UNCHANGED lockVars
     ELSE /\ cs' = "exit" /\ csCpu' = c /\ wk' = Sleepers(parent[proc[c]])
          /\ UNCHANGED panicked
  /\ UNCHANGED <<procVars, kpc, child, nextpid, rq, schedVars>>

\* Only the zombies are handed over.
exitReparents_zombiesOnly ==
  LET p == proc[csCpu] IN
  /\ cs = "exit" /\ wk = {}
  /\ parent' = [q \in Procs |-> IF q \in Zombies(p) THEN InitProc ELSE parent[q]]
  /\ wk' = IF Zombies(p) # {} THEN Sleepers(InitProc) ELSE {}
  /\ cs' = "exit2"
  /\ UNCHANGED <<state, pid, killed, chan, tickets, cpu, kpc, child, nextpid, rq,
                 schedVars, csCpu, panicked>>

exitReparents ==
  LET p == proc[csCpu] IN
  /\ cs = "exit" /\ wk = {}
  /\ parent' = [q \in Procs |-> IF parent[q] = p THEN InitProc ELSE parent[q]]
  /\ wk' = IF Zombies(p) # {} THEN Sleepers(InitProc) ELSE {}
  /\ cs' = "exit2"
  /\ UNCHANGED <<state, pid, killed, chan, tickets, cpu, kpc, child, nextpid, rq,
                 schedVars, csCpu, panicked>>

exitSched ==
  LET p == proc[csCpu] IN
  /\ cs = "exit2" /\ wk = {}
  /\ state' = [state EXCEPT ![p] = "ZOMBIE"]
  /\ Dequeue(p)
  /\ SwitchToScheduler(csCpu)
  /\ Goto(p, "zombie")
  /\ cs' = "free" /\ csCpu' = NoCpu /\ UNCHANGED wk
  /\ UNCHANGED <<pid, parent, killed, chan, tickets, cpu, child, nextpid>>

-------------------------------------------------------------------------------
(* wait(): entered from the system call, or resumed with ptable_lock held. *)

InWait(c) == \/ At(c, "sys") /\ cs = "free"
             \/ At(c, "wait") /\ cs = "wait" /\ csCpu = c

\* wait() returns without release(&ptable_lock).
ReleaseTable_forgotten == UNCHANGED lockVars
ReleaseTable == cs' = "free" /\ csCpu' = NoCpu /\ UNCHANGED wk

waitReaps(c) ==
  LET p == proc[c]
      z == Min(Zombies(p))
  IN
  /\ InWait(c) /\ Zombies(p) # {}
  /\ pid'    = [pid EXCEPT ![z] = 0]
  /\ parent' = [parent EXCEPT ![z] = NULL]
  /\ killed' = [killed EXCEPT ![z] = FALSE]
  /\ state'  = [state EXCEPT ![z] = "UNUSED"]
  /\ Dequeue(z)
  /\ Goto(p, "user")
  /\ ReleaseTable
  /\ UNCHANGED <<chan, tickets, cpu, child, nextpid, schedVars>>

waitFails(c) ==
  LET p == proc[c] IN
  /\ InWait(c) /\ Zombies(p) = {}
  /\ Children(p) = {} \/ killed[p]
  /\ Goto(p, "user")
  /\ ReleaseTable
  /\ UNCHANGED <<procVars, child, nextpid, rq, schedVars, panicked>>

waitSleeps(c) ==
  LET p == proc[c] IN
  /\ InWait(c) /\ Zombies(p) = {}
  /\ Children(p) # {} /\ ~killed[p]
  /\ chan'  = [chan EXCEPT ![p] = p]
  /\ state' = [state EXCEPT ![p] = "SLEEPING"]
  /\ Dequeue(p)
  /\ SwitchToScheduler(c)
  /\ Goto(p, "wait")
  /\ ReleaseTable
  /\ UNCHANGED <<pid, parent, killed, tickets, cpu, child, nextpid>>

-------------------------------------------------------------------------------
(* The ticket system calls. *)

SetTickets(c, p, t) ==
  /\ At(c, "sys") /\ cs = "free"
  /\ tickets' = [tickets EXCEPT ![p] = t]
  /\ Goto(proc[c], "user")
  /\ UNCHANGED <<state, pid, parent, killed, chan, cpu, child, nextpid, rq, schedVars,
                 lockVars, panicked>>

sys_settickets(c, t) == SetTickets(c, proc[c], t)

sys_settickets_pid(c, n, t) ==
  LET found == {q \in Procs : pid[q] = n}
  IN  found # {} /\ SetTickets(c, Min(found), t)

-------------------------------------------------------------------------------
(* scheduler() *)

\* rq_select(), first pass: take rq.lock, add up the tickets.
selectTotal(c) ==
  /\ spc[c] = "top" /\ csCpu # c
  /\ rq[c].count # 0
  /\ spc'   = [spc EXCEPT ![c] = "draw"]
  /\ total' = [total EXCEPT ![c] = QueueTickets(rq[c], MAX_PROCS, EffectiveTickets)]
  /\ UNCHANGED <<procVars, kpc, child, nextpid, rq, proc, sel, lockVars, panicked>>

\* The second pass draws from the queue of any CPU.
selectDraw_anyQueue(c) ==
  /\ spc[c] = "draw"
  /\ \E p \in UNION {Members(rq[k]) : k \in CPUs} :
       /\ sel' = [sel EXCEPT ![c] = p]
       /\ spc' = [spc EXCEPT ![c] = "run"]
  /\ total' = [total EXCEPT ![c] = 0]
  /\ UNCHANGED <<procVars, kpc, child, nextpid, rq, proc, lockVars, panicked>>

\* rq_select(), second pass, over a shuffled copy: a winner below the total falls
\* into somebody's range, or past every range if tickets were lowered meanwhile.
selectDraw(c) ==
  /\ spc[c] = "draw"
  /\ \E p \in Members(rq[c]) \cup
              (IF total[c] > QueueTickets(rq[c], MAX_PROCS, EffectiveTickets) THEN {NULL} ELSE {}) :
       /\ sel' = [sel EXCEPT ![c] = p]
       /\ spc' = [spc EXCEPT ![c] = IF p = NULL THEN "top" ELSE "run"]
  /\ total' = [total EXCEPT ![c] = 0]
  /\ UNCHANGED <<procVars, kpc, child, nextpid, rq, proc, lockVars, panicked>>

\* The switch to p.  Its kernel thread continues behind its own sched(): sleep()
\* clears chan and releases the lock, wait() goes round its loop with the lock held,
\* a zombie panics.
Resume(c, p) ==
  /\ proc'  = [proc EXCEPT ![c] = p]
  /\ spc'   = [spc EXCEPT ![c] = "busy"]
  /\ sel'   = [sel EXCEPT ![c] = NULL]
  /\ state' = [state EXCEPT ![p] = "RUNNING"]
  /\ chan'  = [chan EXCEPT ![p] = IF kpc[p] \in {"wait", "slept"} THEN NULL ELSE @]
  /\ Goto(p, IF kpc[p] = "slept" THEN "sys" ELSE kpc[p])
  /\ IF kpc[p] = "wait"
     THEN cs' = "wait" /\ csCpu' = c
     ELSE UNCHANGED <<cs, csCpu>>
  /\ panicked' = IF kpc[p] = "zombie" THEN "zombie exit" ELSE panicked
  /\ UNCHANGED <<pid, parent, killed, tickets, cpu, child, nextpid, total, wk>>

\* Take ptable_lock and run the selected process.
run(c) ==
  /\ spc[c] = "run" /\ cs = "free"
  /\ rq' = [rq EXCEPT ![c] = rq_remove(@, sel[c])]
  /\ Resume(c, sel[c])

-------------------------------------------------------------------------------
KillArgs == 0 .. MaxPid

Syscall(c) ==
  \/ sysReturns(c) \/ sys_exit(c)
  \/ allocproc(c) \/ forkFails(c) \/ forkCopies(c) \/ forkAdds(c)
  \/ \E ch \in Chans : sleep(c, ch)
  \/ \E n \in KillArgs : kill(c, n)
  \/ exitWakesParent(c)
  \/ waitReaps(c) \/ waitFails(c) \/ waitSleeps(c)
  \/ \E t \in TicketArgs : sys_settickets(c, t)
  \/ \E n \in KillArgs, t \in TicketArgs : sys_settickets_pid(c, n, t)

Scheduler(c) == selectTotal(c) \/ selectDraw(c) \/ run(c)

CpuStep(c) == Trap(c) \/ yield(c) \/ Syscall(c) \/ Scheduler(c)

\* The holder of ptable_lock goes on.
LockHolderStep == wakeup1 \/ wakeupDone \/ exitReparents \/ exitSched

Next ==
  /\ panicked = "none"
  /\ \/ \E c \in CPUs : CpuStep(c)
     \/ \E c \in CPUs, ch \in Chans : wakeup(c, ch)
     \/ LockHolderStep

Spec == Init /\ [][Next]_vars

\* A CPU that holds a spinlock has interrupts off and keeps executing: the draw of
\* rq_select() ends, and so does the critical section of the holder of ptable_lock.
waitGoesOn(c) == cs = "wait" /\ (waitReaps(c) \/ waitFails(c) \/ waitSleeps(c))

Fairness ==
  /\ WF_vars(panicked = "none" /\ LockHolderStep)
  /\ \A c \in CPUs : /\ WF_vars(panicked = "none" /\ selectDraw(c))
                     /\ WF_vars(panicked = "none" /\ waitGoesOn(c))

FairSpec == Spec /\ Fairness

-------------------------------------------------------------------------------
(* Properties. *)

\* The run queues and the process table agree: a process is in the queue of CPU c
\* exactly when it is RUNNABLE and assigned to c, and no queue lists it twice.
\* rq_add and rq_remove are called from eight places of proc.c; none of them may
\* leave a process queued while it runs, sleeps or is dead, or RUNNABLE and lost.
QueueMatchesState ==
  /\ \A c \in CPUs : WellFormed(rq[c])
  /\ \A p \in Procs, c \in CPUs :
       p \in Members(rq[c]) <=> state[p] = "RUNNABLE" /\ cpu[p] = c

\* RUNNING means being the current process of exactly one CPU, the assigned one.
CpuMatchesState ==
  /\ \A p \in Procs : state[p] = "RUNNING" <=> \E c \in CPUs : proc[c] = p
  /\ \A c \in CPUs : proc[c] # NULL => cpu[proc[c]] = c

\* scheduler() uses the answer of rq_select() after releasing rq.lock and before it
\* has ptable_lock: whatever the other CPUs did in between, the process is still
\* RUNNABLE and still in this CPU's queue.
SelectionStaysValid ==
  \A c \in CPUs : spc[c] = "run" =>
    /\ sel[c] \in Members(rq[c])
    /\ state[sel[c]] = "RUNNABLE"

\* The panics of proc.c and runqueue.c are not reached, except that init is killed.
NoPanic == panicked \in {"none", "init exiting"}

\* Every process that has started has a parent that can still reap it: exit() hands
\* its children over before anybody can see it dead.
ParentIsAlive ==
  \A p \in Procs \ {InitProc} :
    state[p] \notin {"UNUSED", "EMBRYO"} =>
      /\ parent[p] \in Procs
      /\ state[parent[p]] \in {"RUNNABLE", "RUNNING", "SLEEPING"}

\* No wakeup of wait() is lost: when ptable_lock is free, a process asleep in wait()
\* has a child and none of its children is a ZOMBIE.
NoZombieMissed ==
  cs = "free" =>
    \A p \in Procs : state[p] = "SLEEPING" /\ kpc[p] = "wait" =>
      Children(p) # {} /\ Zombies(p) = {}

\* Nobody is lost on the way from exit() to wait(), while parents and children exit, fork and
\* wait on several CPUs.
FamiliesStayWhole == ParentIsAlive /\ NoZombieMissed

\* Process management keeps the promises of ProcLifecycle.
Lifecycle == INSTANCE ProcLifecycle WITH running <- proc
RefinesLifecycle == Lifecycle!Spec

\* ptable_lock is always released again, though its holder may have to wait for the
\* rq.lock that a scheduler holds while it draws.
TableLockReleased == []<>(cs = "free" \/ panicked # "none")

-------------------------------------------------------------------------------
(* The inductive invariant behind the safety properties. *)

\* A CPU has a current process exactly while its scheduler is switched out.
SchedMatchesProc == \A c \in CPUs : spc[c] = "busy" <=> proc[c] # NULL

\* Whoever holds ptable_lock across steps is where cs says; the processes it has
\* still to wake are asleep.
LockDiscipline ==
  /\ cs \in {"free", "wait"} => wk = {}
  /\ cs \in {"wait", "exit", "exit2"} =>
       /\ csCpu \in CPUs
       /\ spc[csCpu] = "busy"
       /\ kpc[proc[csCpu]] = IF cs = "wait" THEN "wait" ELSE "exit"
  /\ \A p \in wk : state[p] = "SLEEPING"

\* Every process past fork() has a CPU, and has not returned from its last sched().
StartedProcesses ==
  \A p \in Procs :
    /\ state[p] \in {"SLEEPING", "RUNNABLE", "RUNNING"} => kpc[p] # "zombie"
    /\ state[p] \notin {"UNUSED", "EMBRYO"} => cpu[p] \in CPUs

\* A fork() in progress owns an EMBRYO of its own.
ForkOwnsChild ==
  /\ \A p \in Procs : kpc[p] \in {"forkcopy", "forkadd"} =>
       child[p] \in Procs /\ state[child[p]] = "EMBRYO"
  /\ \A p, q \in {r \in Procs : kpc[r] \in {"forkcopy", "forkadd"}} :
       child[p] = child[q] => p = q

\* The conjunction is inductive: each action of Next preserves it on its own.
IInv ==
  /\ TypeOK
  /\ QueueMatchesState
  /\ CpuMatchesState
  /\ SelectionStaysValid
  /\ NoPanic
  /\ SchedMatchesProc
  /\ LockDiscipline
  /\ StartedProcesses
  /\ ForkOwnsChild

-------------------------------------------------------------------------------
(* The inductive invariant behind FamiliesStayWhole and RefinesLifecycle. *)

AliveStates == {"RUNNABLE", "RUNNING", "SLEEPING"}

\* init never dies and is nobody's child, and nobody is his own.
InitIsAlive ==
  /\ state[InitProc] \in AliveStates
  /\ parent[InitProc] = NULL
  /\ \A p \in Procs : parent[p] # p

\* The slot that a fork() has claimed has no parent before the unlocked copies, and then
\* the process that forks.
ForkSetsParent ==
  /\ \A p \in Procs : state[p] = "UNUSED" => parent[p] = NULL
  /\ \A p \in Procs : /\ kpc[p] = "forkcopy" => parent[child[p]] = NULL
                      /\ kpc[p] = "forkadd"  => parent[child[p]] = p

WaitsForChild(p) == state[p] = "SLEEPING" /\ kpc[p] = "wait"

\* Whoever sleeps in wait() has a child, and if one is a ZOMBIE is about to be woken.
WaitersAreTold ==
  \A p \in Procs : WaitsForChild(p) =>
    /\ chan[p] = p
    /\ Children(p) # {}
    /\ Zombies(p) # {} => p \in wk

\* The process inside exit() is not init; its parent is awake or about to be woken; and
\* once its children are handed over it has none.
ExitInProgress ==
  /\ cs \in {"exit", "exit2"} =>
       /\ proc[csCpu] # InitProc
       /\ \A p \in Procs : parent[proc[csCpu]] = p /\ WaitsForChild(p) => p \in wk
  /\ cs = "exit2" => \A q \in Procs : parent[q] # proc[csCpu]

\* Together with IInv the conjunction is inductive.
FamilyInv ==
  /\ ParentIsAlive
  /\ InitIsAlive
  /\ ForkSetsParent
  /\ WaitersAreTold
  /\ ExitInProgress
===============================================================================
