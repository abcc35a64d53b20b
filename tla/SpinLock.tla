------------------------------- MODULE SpinLock -------------------------------
(***************************************************************************)
(* Spin locks and the nesting of cli (spinlock.c), under the kernel code   *)
(* that puts them to the test:                                             *)
(*  - the timer interrupt takes tickslock and, in wakeup(), ptable.lock,   *)
(*    on the stack of whatever it interrupts, and may yield();             *)
(*  - sleep() hands tickslock over to ptable.lock and back;                *)
(*  - sched() gives up the CPU with ptable.lock held, which the scheduler  *)
(*    or another process releases, on a CPU whose intena is not the one of *)
(*    the thread that goes on;                                             *)
(*  - the lottery kernel takes the rq.lock of a CPU inside ptable.lock,    *)
(*    and turns interrupts off for its whole scheduler loop.               *)
(*                                                                         *)
(* A kernel thread is the sequence of the steps it has still to do; a call *)
(* or an interrupt puts its steps in front.  A process without steps is in *)
(* user mode.  What a step does to data other than the process states is   *)
(* left out: the tick count is in Clock, the queues are in LotterySched.   *)
(***************************************************************************)
EXTENDS Naturals, Sequences, FiniteSets

CONSTANTS NCPU,    \* CPUs
          NPROC,   \* processes
          Kernels  \* which kernels: a subset of {"lottery", "round-robin"}

LockAssumption ==
  /\ NCPU \in Nat \ {0} /\ NPROC \in Nat \ {0}
  /\ Kernels \subseteq {"lottery", "round-robin"}

CPUs       == 0 .. (NCPU - 1)
Pids       == 1 .. NPROC
Schedulers == {NPROC + 1 + c : c \in CPUs}
Threads    == Pids \cup Schedulers
SchedulerOf(c) == NPROC + 1 + c

NoLock     == <<"none", 0>>
ptable     == <<"ptable", 0>>
tickslock  == <<"ticks", 0>>
rqlock(c)  == <<"rq", c>>
Locks      == {ptable, tickslock} \cup {rqlock(c) : c \in CPUs}

NoCpu == NCPU

VARIABLES
  kernel,   \* the kernel that runs
  locked,   \* lk->locked
  holder,   \* lk->cpu
  FL_IF,       \* the interrupt flag of a CPU
  ncli,     \* c->ncli
  intena,   \* c->intena
  thread,   \* the thread whose stack the CPU is on
  code,     \* what a thread has still to do in the kernel
  saved,    \* the local variable intena of sched()
  state,    \* p->state
  lockpanic  \* the panic that stopped the machine

lockVars == <<locked, holder>>
cpuVars  == <<FL_IF, ncli, intena, thread>>
spinVars == <<kernel, lockVars, cpuVars, code, saved, state, lockpanic>>

LockPanics == {"none", "acquire", "release", "popcli", "popcli - interruptible",
           "sched ptable_lock", "sched locks", "sched running", "sched interruptible"}

Operations == {"acquire", "xchg", "own", "release", "unlock", "cli", "sti", "iret", "trapret",
               "runnable", "asleep", "test", "wakeup1", "sched", "leave", "resume",
               "rq_select", "swtch", "walk"}
Steps == Operations \X (Locks \cup {NoLock})

\* No lock nests deeper than tickslock, ptable.lock, rq.lock.
LockTypeOK ==
  /\ kernel \in Kernels
  /\ locked \in [Locks -> BOOLEAN]
  /\ holder \in [Locks -> CPUs \cup {NoCpu}]
  /\ FL_IF \in [CPUs -> BOOLEAN]
  /\ ncli \in [CPUs -> 0 .. 3]
  /\ intena \in [CPUs -> BOOLEAN]
  /\ thread \in [CPUs -> Threads]
  /\ code \in [Threads -> Seq(Steps)]
  /\ saved \in [Pids -> BOOLEAN]
  /\ state \in [Pids -> {"RUNNABLE", "RUNNING", "SLEEPING"}]
  /\ lockpanic \in LockPanics

-------------------------------------------------------------------------------
(* Kernel code, as sequences of steps. *)

Do(op)     == <<op, NoLock>>
Acquire(l) == <<"acquire", l>>
Release(l) == <<"release", l>>

\* fork() spreads processes over the CPUs; a process of the lottery kernel stays there.
Home(p) == p % NCPU

\* rq_add() or rq_remove() on the run queue of c, in the kernel that has one.
RunQueue(c) ==
  IF kernel = "lottery" THEN <<Acquire(rqlock(c)), Release(rqlock(c))>> ELSE <<>>

\* A process that has never run starts in forkret().
Forkret == <<Release(ptable), Do("trapret")>>

Yield == <<Acquire(ptable), Do("runnable"), Do("sched"), Release(ptable)>>

\* sleep(&ticks, &tickslock) of a process whose queue is on c.
Sleep(c) ==
  <<Acquire(ptable), Release(tickslock), Do("asleep")>> \o RunQueue(c) \o
  <<Do("sched"), Release(ptable), Acquire(tickslock)>>

sys_sleep == <<Acquire(tickslock), Do("test"), Release(tickslock)>>

\* The handler of the timer interrupt on CPU c: CPU 0 counts ticks and wakes the
\* sleepers; a process yields.
Handler(c) ==
  (IF c = 0
   THEN <<Acquire(tickslock), Acquire(ptable), Do("wakeup1"), Release(ptable),
          Release(tickslock)>>
   ELSE <<>>)
  \o (IF thread[c] \in Pids THEN Yield ELSE <<>>)
  \o <<Do("iret")>>

\* One turn of scheduler().  In the lottery kernel the occasional decay of statistics
\* comes first, and rq_select() looks into the queue under rq.lock.
Turns(c) ==
  IF kernel = "lottery"
  THEN {<<Do("cli")>> \o decay \o <<Acquire(rqlock(c)), Do("rq_select"), Release(rqlock(c))>> :
          decay \in {<<>>, <<Acquire(ptable), Release(ptable)>>}}
  ELSE {<<Do("sti"), Acquire(ptable), Do("walk"), Release(ptable)>>}

\* rq_select() found nobody: count the RUNNABLE processes, let interrupts in.
Idle == <<Acquire(ptable), Release(ptable), Do("sti")>>

\* rq_select() found somebody: remove him from the queue and run him.
RunSelected(c) ==
  <<Acquire(ptable)>> \o RunQueue(c) \o
  <<Do("swtch"), Release(ptable), Do("sti")>>

LockInit ==
  /\ kernel \in Kernels
  /\ locked = [l \in Locks |-> FALSE]
  /\ holder = [l \in Locks |-> NoCpu]
  /\ FL_IF = [c \in CPUs |-> FALSE]
  /\ ncli = [c \in CPUs |-> 0]
  /\ intena = [c \in CPUs |-> FALSE]
  /\ thread = [c \in CPUs |-> SchedulerOf(c)]
  /\ code = [t \in Threads |-> IF t \in Pids THEN Forkret ELSE <<>>]
  /\ saved = [p \in Pids |-> FALSE]
  /\ state = [p \in Pids |-> "RUNNABLE"]
  /\ lockpanic = "none"

-------------------------------------------------------------------------------
At(c, op)    == code[thread[c]] # <<>> /\ Head(code[thread[c]])[1] = op
Lock(c)      == Head(code[thread[c]])[2]
Holding(c,l) == locked[l] /\ holder[l] = c
Proceed(c, steps) == code' = [code EXCEPT ![thread[c]] = steps \o Tail(@)]
Panic(what)  == lockpanic' = what /\ UNCHANGED <<kernel, lockVars, cpuVars, code, saved, state>>

pushcli(c) ==
  /\ ncli'   = [ncli EXCEPT ![c] = @ + 1]
  /\ intena' = [intena EXCEPT ![c] = IF ncli[c] = 0 THEN FL_IF[c] ELSE @]
  /\ FL_IF'     = [FL_IF EXCEPT ![c] = FALSE]

\* acquire() up to the loop.
acquire(c) ==
  /\ At(c, "acquire")
  /\ IF Holding(c, Lock(c))
     THEN Panic("acquire")
     ELSE /\ pushcli(c)
          /\ Proceed(c, <<<<"xchg", Lock(c)>>>>)
          /\ UNCHANGED <<kernel, lockVars, thread, saved, state, lockpanic>>

\* The xchg that finds 0.
xchg(c) ==
  /\ At(c, "xchg") /\ ~locked[Lock(c)]
  /\ locked' = [locked EXCEPT ![Lock(c)] = TRUE]
  /\ Proceed(c, <<<<"own", Lock(c)>>>>)
  /\ UNCHANGED <<kernel, holder, cpuVars, saved, state, lockpanic>>

\* acquire() behind the loop.
own(c) ==
  /\ At(c, "own")
  /\ holder' = [holder EXCEPT ![Lock(c)] = c]
  /\ Proceed(c, <<>>)
  /\ UNCHANGED <<kernel, locked, cpuVars, saved, state, lockpanic>>

\* release() up to the store of 0.
release(c) ==
  /\ At(c, "release")
  /\ IF ~Holding(c, Lock(c))
     THEN Panic("release")
     ELSE /\ holder' = [holder EXCEPT ![Lock(c)] = NoCpu]
          /\ Proceed(c, <<<<"unlock", Lock(c)>>>>)
          /\ UNCHANGED <<kernel, locked, cpuVars, saved, state, lockpanic>>

popcli(c) ==
  /\ ncli' = [ncli EXCEPT ![c] = @ - 1]
  /\ FL_IF' = [FL_IF EXCEPT ![c] = ncli[c] = 1 /\ intena[c]]

\* The store of 0, and popcli(), which only the own CPU sees.
unlock(c) ==
  /\ At(c, "unlock")
  /\ CASE FL_IF[c]    -> Panic("popcli - interruptible")
       [] ncli[c] = 0 -> Panic("popcli")
       [] OTHER       -> /\ locked' = [locked EXCEPT ![Lock(c)] = FALSE]
                         /\ popcli(c)
                         /\ Proceed(c, <<>>)
                         /\ UNCHANGED <<kernel, holder, intena, thread, saved, state, lockpanic>>

\* cli(), sti(), and the iret at the end of an interrupt or of a fork.
setsIF(c) ==
  /\ \E op \in {"cli", "sti", "iret", "trapret"} :
       At(c, op) /\ FL_IF' = [FL_IF EXCEPT ![c] = op # "cli"]
  /\ Proceed(c, <<>>)
  /\ UNCHANGED <<kernel, lockVars, ncli, intena, thread, saved, state, lockpanic>>

-------------------------------------------------------------------------------
(* proc.c and trap.c. *)

\* yield() and sleep() set the state of the current process.
setsState(c) ==
  /\ \/ At(c, "runnable") /\ state' = [state EXCEPT ![thread[c]] = "RUNNABLE"]
     \/ At(c, "asleep") /\ state' = [state EXCEPT ![thread[c]] = "SLEEPING"]
  /\ Proceed(c, <<>>)
  /\ UNCHANGED <<kernel, lockVars, cpuVars, saved, lockpanic>>

\* sys_sleep() tests whether enough ticks have passed.
tests(c) ==
  /\ At(c, "test")
  /\ \/ Proceed(c, Sleep(Home(thread[c])) \o <<Do("test")>>)
     \/ Proceed(c, <<>>)
  /\ UNCHANGED <<kernel, lockVars, cpuVars, saved, state, lockpanic>>

\* wakeup1(&ticks), one sleeper at a time.
wakeup1(c) ==
  /\ At(c, "wakeup1")
  /\ LET sleepers == {p \in Pids : state[p] = "SLEEPING"} IN
     IF sleepers = {}
     THEN Proceed(c, <<>>) /\ UNCHANGED state
     ELSE \E p \in sleepers :
            /\ \A other \in sleepers : p <= other
            /\ state' = [state EXCEPT ![p] = "RUNNABLE"]
            /\ Proceed(c, RunQueue(Home(p)) \o <<Do("wakeup1")>>)
  /\ UNCHANGED <<kernel, lockVars, cpuVars, saved, lockpanic>>

\* sched(): the tests, and in the lottery kernel the rq_add() of a RUNNABLE process.
sched(c) ==
  LET p == thread[c] IN
  /\ At(c, "sched")
  /\ CASE ~Holding(c, ptable)     -> Panic("sched ptable_lock")
       [] ncli[c] # 1             -> Panic("sched locks")
       [] state[p] = "RUNNING"    -> Panic("sched running")
       [] FL_IF[c]                   -> Panic("sched interruptible")
       [] OTHER ->
            /\ Proceed(c, (IF state[p] = "RUNNABLE" THEN RunQueue(Home(p)) ELSE <<>>)
                          \o <<Do("leave"), Do("resume")>>)
            /\ UNCHANGED <<kernel, lockVars, cpuVars, saved, state, lockpanic>>

\* sched() keeps intena in a local variable and switches to the scheduler of the CPU.
leave(c) ==
  /\ At(c, "leave")
  /\ saved'  = [saved EXCEPT ![thread[c]] = intena[c]]
  /\ thread' = [thread EXCEPT ![c] = SchedulerOf(c)]
  /\ Proceed(c, <<>>)
  /\ UNCHANGED <<kernel, lockVars, FL_IF, ncli, intena, state, lockpanic>>

\* sched() leaves intena as the CPU has it.
resume_keepsIntena(c) ==
  /\ At(c, "resume")
  /\ Proceed(c, <<>>)
  /\ UNCHANGED <<kernel, lockVars, cpuVars, saved, state, lockpanic>>

\* sched() behind swtch().
resume(c) ==
  /\ At(c, "resume")
  /\ intena' = [intena EXCEPT ![c] = saved[thread[c]]]
  /\ Proceed(c, <<>>)
  /\ UNCHANGED <<kernel, lockVars, FL_IF, ncli, thread, saved, state, lockpanic>>

\* The processes that the scheduler of c may run.
Runnable(c) == {p \in Pids : state[p] = "RUNNABLE" /\ (kernel = "lottery" => Home(p) = c)}

\* scheduler() goes round its loop.
turn(c) ==
  /\ thread[c] = SchedulerOf(c) /\ code[thread[c]] = <<>>
  /\ \E steps \in Turns(c) : code' = [code EXCEPT ![thread[c]] = steps]
  /\ UNCHANGED <<kernel, lockVars, cpuVars, saved, state, lockpanic>>

\* rq_select() returns a process or, if there is none, 0.
rq_select(c) ==
  /\ At(c, "rq_select")
  /\ code' = [code EXCEPT ![thread[c]] =
                Tail(@) \o (IF Runnable(c) = {} THEN Idle ELSE RunSelected(c))]
  /\ UNCHANGED <<kernel, lockVars, cpuVars, saved, state, lockpanic>>

\* The switch to p; the scheduler has rest still to do.
SwitchTo(c, p, rest) ==
  /\ thread' = [thread EXCEPT ![c] = p]
  /\ state' = [state EXCEPT ![p] = "RUNNING"]
  /\ code' = [code EXCEPT ![thread[c]] = rest]
  /\ UNCHANGED <<kernel, lockVars, FL_IF, ncli, intena, saved, lockpanic>>

swtch(c) ==
  At(c, "swtch") /\ \E p \in Runnable(c) : SwitchTo(c, p, Tail(code[thread[c]]))

\* The round-robin scheduler meets a RUNNABLE process, or comes to the end of the table.
walk(c) ==
  /\ At(c, "walk")
  /\ \/ \E p \in Runnable(c) : SwitchTo(c, p, code[thread[c]])
     \/ Proceed(c, <<>>) /\ UNCHANGED <<kernel, lockVars, cpuVars, saved, state, lockpanic>>

\* A process calls sleep() from user mode; the trap gate leaves interrupts on.
syscall(c) ==
  /\ thread[c] \in Pids /\ code[thread[c]] = <<>>
  /\ code' = [code EXCEPT ![thread[c]] = sys_sleep]
  /\ UNCHANGED <<kernel, lockVars, cpuVars, saved, state, lockpanic>>

\* The timer interrupts whatever runs on c; the interrupt gate turns interrupts off.
timer(c) ==
  /\ FL_IF[c]
  /\ FL_IF' = [FL_IF EXCEPT ![c] = FALSE]
  /\ code' = [code EXCEPT ![thread[c]] = Handler(c) \o @]
  /\ UNCHANGED <<kernel, lockVars, ncli, intena, thread, saved, state, lockpanic>>

LockStep(c) == acquire(c) \/ xchg(c) \/ own(c) \/ release(c) \/ unlock(c)
KernelStep(c) ==
  \/ LockStep(c) \/ setsIF(c) \/ setsState(c) \/ tests(c) \/ wakeup1(c)
  \/ sched(c) \/ leave(c) \/ resume(c) \/ turn(c) \/ rq_select(c) \/ swtch(c) \/ walk(c)

LockNext ==
  /\ lockpanic = "none"
  /\ \E c \in CPUs : KernelStep(c) \/ syscall(c) \/ timer(c)

LockSpec == LockInit /\ [][LockNext]_spinVars

\* A CPU goes on with what it has to do in the kernel.  It may lose every race for a lock.
LockFairness == \A c \in CPUs : WF_spinVars(lockpanic = "none" /\ KernelStep(c))

LockFairSpec == LockSpec /\ LockFairness

-------------------------------------------------------------------------------
(* Properties. *)

\* The locks that a thread with the steps s to do is inside of: it releases them before it
\* acquires them.
Held(s) ==
  {l \in Locks : \E i \in DOMAIN s :
     /\ s[i] = Release(l)
     /\ \A j \in 1 .. (i - 1) : s[j] \notin {Acquire(l), <<"xchg", l>>, <<"own", l>>}}

Inside(t) == Held(code[t])

Taking(c)  == \E op \in {"own", "unlock"} : At(c, op)

\* Two CPUs are never both between acquire() and release() of a lock, and lk->cpu names
\* the CPU whose current thread is, also when sched() leaves the release of ptable.lock
\* to another thread.
MutualExclusion ==
  \A l \in Locks :
    /\ \A c \in CPUs : holder[l] = c <=> l \in Inside(thread[c])
    /\ LET in == {c \in CPUs : l \in Inside(thread[c]) \/ (Taking(c) /\ Lock(c) = l)}
       IN Cardinality(in) = (IF locked[l] THEN 1 ELSE 0)

\* Outside of every critical section a process has interrupts on, in user mode and in a
\* system call, but not in an interrupt handler: exactly as it had them before it took
\* its locks, on whatever CPU, and whoever ran there meanwhile.
InterruptsComeBack ==
  \A c \in CPUs :
    thread[c] \in Pids /\ ncli[c] = 0 =>
      LET ops == {code[thread[c]][i][1] : i \in DOMAIN code[thread[c]]}
      IN "trapret" \notin ops => (FL_IF[c] <=> "iret" \notin ops)

\* No panic of spinlock.c or sched() is reached.
NoPanic == lockpanic = "none"

\* The CPU that has the lock which c spins on.
Awaits(c, d) == At(c, "xchg") /\ (holder[Lock(c)] = d \/ (Taking(d) /\ Lock(d) = Lock(c)))

\* No circle of CPUs in which each spins on a lock that the next one has.
NoCircularWait ==
  \A D \in (SUBSET CPUs) \ {{}} : \E c \in D : \A d \in D : ~Awaits(c, d)

\* Locks exclude, nest and give interrupts back, across interrupts and context switches, and
\* are taken in an order without circles.
LocksAreSafe ==
  LockTypeOK /\ MutualExclusion /\ InterruptsComeBack /\ NoPanic /\ NoCircularWait

\* A CPU lets interrupts in again and again, unless it spins for one lock for ever.
InterruptsAreServed ==
  \A c \in CPUs : []<>FL_IF[c] \/ <>[]At(c, "xchg")

-------------------------------------------------------------------------------
(* The inductive invariant: how kernel code takes its locks, step by step, *)
(* and what the state of a CPU has to do with the code that it is in.      *)

\* The order in which locks nest.
Rank(l) == IF l = tickslock THEN 0 ELSE IF l = ptable THEN 1 ELSE 2

\* The lock that the first step is in the middle of acquiring or releasing.
Pending(s, ops) == {l \in Locks : s # <<>> /\ Head(s)[1] \in ops /\ Head(s)[2] = l}

\* The locks that nobody else has, and those for which pushcli() has been called.
Busy(s) == Held(s) \cup Pending(s, {"own", "unlock"})
Nest(s) == Held(s) \cup Pending(s, {"xchg", "own", "unlock"})

Has(s, op) == \E i \in DOMAIN s : s[i][1] = op

\* The process has set its state and not yet given up its CPU.
Parks(s) ==
  \E i \in DOMAIN s :
    /\ s[i][1] \in {"sched", "leave"}
    /\ \A j \in 1 .. (i - 1) : s[j][1] \notin {"runnable", "asleep"} /\ s[j] # Release(ptable)

\* The process comes back to sched().
Resuming(s) == s # <<>> /\ Head(s)[1] = "resume"

\* The locks that are held where a thread t does step x and has s to do behind it.
TakesInOrder(x, s) ==
  /\ x[1] \in {"acquire", "xchg", "own"} =>
       /\ x[2] \in Held(s)
       /\ \A m \in Held(s) \ {x[2]} : Rank(m) < Rank(x[2])
       /\ x[2] = ptable => ~Parks(s)
  /\ x[1] \in {"release", "unlock"} =>
       x[2] \in Locks /\ \A m \in Held(s) : Rank(m) # Rank(x[2])

SwitchesUnderLock(x, s) ==
  /\ x[1] \in {"cli", "sti", "iret", "trapret"} => Held(s) = {}
  /\ x[1] = "test" => Held(s) = {tickslock} /\ ~Parks(s)
  /\ x[1] = "wakeup1" => Held(s) = {tickslock, ptable} /\ ~Parks(s)
  /\ x[1] \in {"runnable", "asleep"} => Parks(s)
  /\ x[1] \in {"sched", "leave", "resume", "swtch", "walk"} => Held(s) = {ptable} /\ ~Parks(s)
  /\ x[1] = "leave" <=> Resuming(s)
  /\ x[1] = "rq_select" => \E c \in CPUs : s = <<Release(rqlock(c))>>

StepOfThread(t, x, s) ==
  /\ x[1] \in {"cli", "sti", "rq_select", "swtch", "walk"} => t \in Schedulers
  /\ x[1] \in {"runnable", "asleep", "test", "sched", "leave", "resume", "trapret"} => t \in Pids
  /\ x[1] \in {"iret", "trapret"} /\ t \in Pids => ~Has(s, "iret")

Legal(t, x, s) ==
  /\ Parks(s) => ptable \in Held(s)
  /\ Pending(s, {"xchg", "own", "unlock"}) = {}
  /\ TakesInOrder(x, s) /\ SwitchesUnderLock(x, s) /\ StepOfThread(t, x, s)

Disciplined(t, s) == \A i \in DOMAIN s : Legal(t, s[i], SubSeq(s, i + 1, Len(s)))

CodeIsDisciplined ==
  \A t \in Threads :
    Disciplined(t, code[t]) /\ (Parks(code[t]) => ptable \in Held(code[t]))

ThreadsRunOnce ==
  /\ \A c \in CPUs : thread[c] \in Pids \cup {SchedulerOf(c)}
  /\ \A c, d \in CPUs : thread[c] = thread[d] => c = d

LocksMatchCode ==
  \A l \in Locks :
    /\ \A c \in CPUs : holder[l] = c <=> l \in Held(code[thread[c]])
    /\ locked[l] <=> \E c \in CPUs : l \in Busy(code[thread[c]])
    /\ \A c, d \in CPUs : l \in Busy(code[thread[c]]) /\ l \in Busy(code[thread[d]]) => c = d

\* How deep locks nest, one of each rank.
Depth(S) ==
  (IF tickslock \in S THEN 1 ELSE 0) + (IF ptable \in S THEN 1 ELSE 0)
  + (IF \E c \in CPUs : rqlock(c) \in S THEN 1 ELSE 0)

CliNests ==
  \A c \in CPUs : ncli[c] = Depth(Nest(code[thread[c]])) /\ (ncli[c] > 0 => ~FL_IF[c])

StatesMatchCode ==
  \A c \in CPUs : thread[c] \in Pids =>
    (Parks(code[thread[c]]) <=> state[thread[c]] # "RUNNING")

\* Where a thread is that no CPU is on: behind a switch, with ptable.lock to release.
SwitchedOut ==
  \A t \in Threads : (\A c \in CPUs : thread[c] # t) =>
    /\ Held(code[t]) = {ptable} /\ ~Parks(code[t])
    /\ Pending(code[t], {"xchg", "own", "unlock"}) = {}
    /\ t \in Pids => Resuming(code[t]) \/ (Has(code[t], "trapret") /\ ~Has(code[t], "iret"))

\* Interrupts come back as b when the process leaves its critical sections.
Remembers(p, b) ==
  /\ Has(code[p], "iret") => ~b
  /\ ~Has(code[p], "iret") /\ ~Has(code[p], "trapret") => b

InterruptsRemembered ==
  /\ \A p \in Pids : Resuming(code[p]) => Remembers(p, saved[p])
  /\ \A c \in CPUs : thread[c] \in Pids /\ ~Resuming(code[thread[c]]) =>
       Remembers(thread[c], IF ncli[c] = 0 THEN FL_IF[c] ELSE intena[c])

LockIInv ==
  /\ LockAssumption /\ LockTypeOK /\ NoPanic
  /\ CodeIsDisciplined /\ ThreadsRunOnce /\ LocksMatchCode /\ CliNests
  /\ StatesMatchCode /\ SwitchedOut /\ InterruptsRemembered
===============================================================================
