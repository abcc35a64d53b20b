--------------------------- MODULE RoundRobinProofs ---------------------------
(***************************************************************************)
(* Process management of the round-robin kernel, for every number of       *)
(* processes and CPUs: IInv is inductive, StaysConsistent follows from it, *)
(* and the kernel implements the life of a process that ProcLifecycle      *)
(* states.                                                                 *)
(***************************************************************************)
EXTENDS RoundRobin, WellFoundedInduction, TLAPS, FiniteSetTheorems

-------------------------------------------------------------------------------
(* Facts that several actions need. *)

\* A scan of the table returns the first slot of those that it looks for.
LEMMA FirstIsMember ==
  ASSUME NEW S \in SUBSET Nat, S # {}
  PROVE  Min(S) \in S /\ \A y \in S : Min(S) <= y
<1> DEFINE R == OpToRel(<, Nat)
<1>1. IsWellFoundedOn(R, Nat)
  BY NatLessThanWellFounded, Zenon
<1>2. \A x, y \in Nat : y < x => <<y, x>> \in R
  BY Zenon DEF OpToRel
<1> HIDE DEF R
<1>3. PICK x \in S : \A y \in S : ~ (<<y, x>> \in R)
  BY <1>1, WFMin
<1>4. \A y \in S : ~ (y < x)
  BY <1>2, <1>3, Zenon
<1>5. \E z \in S : \A y \in S : z <= y
  BY <1>4
<1> QED BY <1>5 DEF Min

LEMMA Basics ==
  /\ InitProc \in Procs /\ NULL \notin Procs
  /\ NoCpu \notin CPUs
  /\ Procs \in SUBSET Nat /\ 1 \in 1 .. NPROC + 1
  /\ \A p \in Procs : NextTurn(p) \in 1 .. NPROC + 1
BY RRAssumption DEF InitProc, Procs, NULL, NoCpu, CPUs, NextTurn

\* A scan of the table that finds a slot returns one of those it looks for.
LEMMA ScanFinds ==
  ASSUME NEW S \in SUBSET Procs, S # {}
  PROVE  Min(S) \in S /\ Min(S) \in Procs
<1>1. S \in SUBSET Nat
  BY Basics
<1> QED BY <1>1, FirstIsMember

\* The current process of a CPU is RUNNING there and nowhere else.
LEMMA CurrentProcess ==
  ASSUME IInv, NEW c \in CPUs, spc[c] = "busy"
  PROVE  /\ proc[c] \in Procs /\ proc[c] # NULL
         /\ state[proc[c]] = "RUNNING"
         /\ \A d \in CPUs : proc[d] = proc[c] => d = c
<1>1. proc \in [CPUs -> Procs \cup {NULL}] /\ proc[c] # NULL
  <2>1. proc \in [CPUs -> Procs \cup {NULL}]
    BY DEF IInv, TypeOK
  <2>2. proc[c] # NULL
    BY DEF IInv, RunsOnce
  <2> QED BY <2>1, <2>2
<1> QED BY <1>1 DEF IInv, RunsOnce

\* Whoever is inside fork() or runs user code does not hold ptable.lock.
LEMMA LockNotMine ==
  ASSUME IInv, NEW c \in CPUs, spc[c] = "busy", kpc[proc[c]] # "wait"
  PROVE  lock # c
BY DEF IInv, WalksLocked, At

\* A ZOMBIE that wait() finds is a child of the process that waits.
LEMMA ReapedIsChild ==
  ASSUME NEW p, Zombies(p) # {}
  PROVE  /\ Min(Zombies(p)) \in Procs
         /\ state[Min(Zombies(p))] = "ZOMBIE"
         /\ parent[Min(Zombies(p))] = p
<1>1. Zombies(p) \in SUBSET Procs
  BY DEF Zombies, Children
<1>2. Min(Zombies(p)) \in Zombies(p)
  BY <1>1, ScanFinds
<1> QED BY <1>2 DEF Zombies, Children

-------------------------------------------------------------------------------
(* What keeps each conjunct of the invariant. *)

\* The current process stays on its CPU and does not hold ptable.lock.
LEMMA CpuKept ==
  ASSUME IInv, NEW c \in CPUs, spc[c] = "busy", lock # c,
         UNCHANGED <<proc, spc, lock>>,
         \A q \in Procs : state'[q] = "RUNNING" <=> state[q] = "RUNNING",
         \A q \in Procs : kpc[q] = "wait" /\ q # proc[c] => kpc'[q] = "wait"
  PROVE  RunsOnce' /\ WalksLocked'
<1>1. RunsOnce'
  BY DEF IInv, RunsOnce
<1>2. WalksLocked'
  <2> SUFFICES ASSUME NEW d \in CPUs, lock = d, spc[d] # "walk"
               PROVE  spc[d] = "busy" /\ kpc'[proc[d]] = "wait"
    BY DEF IInv, WalksLocked, At
  <2>1. spc[d] = "busy" /\ kpc[proc[d]] = "wait"
    BY DEF IInv, WalksLocked, At
  <2>2. proc[d] \in Procs /\ proc[d] # proc[c]
    BY <2>1, CurrentProcess
  <2> QED BY <2>1, <2>2
<1> QED BY <1>1, <1>2

\* The current process stays on its CPU and ptable.lock is free afterwards.
LEMMA CpuReleases ==
  ASSUME IInv, NEW c \in CPUs, spc[c] = "busy", lock \in {c, NoCpu}, lock' = NoCpu,
         UNCHANGED <<proc, spc>>,
         \A q \in Procs : state'[q] = "RUNNING" <=> state[q] = "RUNNING"
  PROVE  RunsOnce' /\ WalksLocked'
BY Basics DEF IInv, RunsOnce, WalksLocked

\* The current process leaves its CPU, and the walk over the table goes on.
LEMMA CpuLeft ==
  ASSUME IInv, NEW c \in CPUs, spc[c] = "busy", lock \in {c, NoCpu}, SwitchToScheduler(c),
         \A q \in Procs : state'[q] = "RUNNING" <=> state[q] = "RUNNING" /\ q # proc[c]
  PROVE  RunsOnce' /\ WalksLocked'
<1>1. /\ lock' = c
      /\ \A d \in CPUs : /\ proc'[d] = IF d = c THEN NULL ELSE proc[d]
                         /\ spc'[d] = IF d = c THEN "walk" ELSE spc[d]
  BY DEF SwitchToScheduler, IInv, TypeOK
<1>2. /\ proc[c] \in Procs
      /\ \A d \in CPUs : proc[d] = proc[c] => d = c
  BY CurrentProcess
<1>3. ASSUME NEW q \in Procs PROVE state'[q] = "RUNNING" <=> \E d \in CPUs : proc'[d] = q
  <2>1. CASE q = proc[c]
    BY <1>1, <1>2, <2>1, Basics
  <2>2. CASE q # proc[c]
    <3>1. \A d \in CPUs : proc'[d] = q <=> proc[d] = q
      BY <1>1, <2>2, Basics
    <3> QED BY <2>2, <3>1 DEF IInv, RunsOnce
  <2> QED BY <2>1, <2>2
<1>4. RunsOnce'
  BY <1>1, <1>3 DEF IInv, RunsOnce
<1>5. WalksLocked'
  BY <1>1, Basics DEF IInv, WalksLocked
<1> QED BY <1>4, <1>5

LEMMA ForkKept ==
  ASSUME IInv,
         \A q \in Procs : kpc'[q] \in {"forkcopy", "forkadd"} =>
            /\ kpc'[q] = kpc[q] /\ child'[q] = child[q]
            /\ state'[child[q]] = "EMBRYO"
            /\ parent'[child[q]] = parent[child[q]]
  PROVE  ForkOwnsChild'
BY DEF IInv, ForkOwnsChild

LEMMA WaitersKept ==
  ASSUME IInv,
         \A q \in Procs : state'[q] = "SLEEPING" /\ kpc'[q] = "wait" =>
            state[q] = "SLEEPING" /\ kpc[q] = "wait" /\ chan'[q] = chan[q],
         \A q \in Procs : state'[q] = "ZOMBIE" => state[q] = "ZOMBIE" /\ parent'[q] = parent[q]
  PROVE  WaitersAreTold'
<1> SUFFICES ASSUME NEW p \in Procs, state'[p] = "SLEEPING", kpc'[p] = "wait"
             PROVE  chan'[p] = p /\ Zombies(p)' = {}
  BY DEF WaitersAreTold
<1>1. chan[p] = p /\ Zombies(p) = {}
  BY DEF IInv, WaitersAreTold
<1>2. Zombies(p)' \subseteq Zombies(p)
  BY DEF Zombies, Children
<1> QED BY <1>1, <1>2

LEMMA InitKept ==
  ASSUME IInv, parent' = parent,
         \A q \in Procs : state[q] \in AliveStates => state'[q] \in AliveStates
  PROVE  InitIsAlive'
BY Basics DEF IInv, InitIsAlive

-------------------------------------------------------------------------------
(* One lemma per action, or for several that do the same to the invariant. *)

LEMMA InitInv == Init => IInv
<1> SUFFICES ASSUME Init PROVE IInv
  OBVIOUS
<1> USE Basics
<1>1. TypeOK
  BY DEF Init, TypeOK, ProcStates, KernelPoints, SchedPoints
<1>2. RunsOnce /\ WalksLocked
  BY DEF Init, RunsOnce, WalksLocked
<1>3. DeadStayDead /\ ForkOwnsChild /\ WaitersAreTold
  BY DEF Init, DeadStayDead, ForkOwnsChild, WaitersAreTold
<1>4. InitIsAlive
  BY DEF Init, InitIsAlive, AliveStates
<1> QED BY <1>1, <1>2, <1>3, <1>4 DEF IInv

\* The current process only moves on in the kernel, and gives ptable.lock back if it has it.
LEMMA MovePreserves ==
  ASSUME IInv, NEW c \in CPUs, spc[c] = "busy",
         NEW x \in {"user", "sys", "exit"}, Goto(proc[c], x),
         \/ lock # c /\ lock' = lock
         \/ lock \in {c, NoCpu} /\ lock' = NoCpu,
         killed' \in [Procs -> BOOLEAN],
         UNCHANGED <<state, pid, parent, chan, child, nextpid, cpuVars, panicked>>
  PROVE  IInv'
<1> USE DEF cpuVars
<1> DEFINE p == proc[c]
<1>1. p \in Procs /\ state[p] = "RUNNING"
  BY CurrentProcess
<1>2. \A q \in Procs : kpc'[q] = IF q = p THEN x ELSE kpc[q]
  BY <1>1 DEF Goto, IInv, TypeOK
<1>3. TypeOK'
  BY <1>1 DEF Goto, IInv, TypeOK, KernelPoints
<1> HIDE DEF p
<1>4. RunsOnce' /\ WalksLocked'
  <2>1. CASE lock # c /\ lock' = lock
    BY <1>2, <2>1, CpuKept DEF p
  <2>2. CASE lock \in {c, NoCpu} /\ lock' = NoCpu
    BY <2>2, CpuReleases
  <2> QED BY <2>1, <2>2
<1>5. DeadStayDead'
  BY <1>2 DEF IInv, DeadStayDead
<1>6. ForkOwnsChild'
  BY <1>2, ForkKept DEF IInv, ForkOwnsChild
<1>7. WaitersAreTold' /\ InitIsAlive'
  BY <1>2, WaitersKept, InitKept
<1> QED BY <1>3, <1>4, <1>5, <1>6, <1>7 DEF IInv

LEMMA MoveStep ==
  ASSUME IInv, NEW c \in CPUs, Trap(c) \/ sysReturns(c) \/ sys_exit(c) \/ waitFails(c)
  PROVE  IInv'
<1>1. CASE Trap(c)
  <2>1. spc[c] = "busy" /\ lock # c
    BY <1>1, LockNotMine DEF Trap, At
  <2>2. proc[c] \in Procs
    BY <2>1, CurrentProcess
  <2>3. PICK x \in {"exit", "sys"} : Goto(proc[c], x)
    BY <1>1 DEF Trap
  <2>4. killed' \in [Procs -> BOOLEAN]
    BY <1>1, <2>2 DEF Trap, IInv, TypeOK
  <2> QED BY <1>1, <2>1, <2>3, <2>4, MovePreserves DEF Trap
<1>2. CASE sysReturns(c) \/ sys_exit(c)
  <2>1. spc[c] = "busy" /\ lock # c /\ killed' \in [Procs -> BOOLEAN]
    BY <1>2, LockNotMine DEF sysReturns, sys_exit, At, IInv, TypeOK
  <2> QED BY <1>2, <2>1, MovePreserves DEF sysReturns, sys_exit
<1>3. CASE waitFails(c)
  <2>1. spc[c] = "busy" /\ lock \in {c, NoCpu} /\ killed' \in [Procs -> BOOLEAN]
    BY <1>3 DEF waitFails, InWait, At, LockFree, IInv, TypeOK
  <2> QED BY <1>3, <2>1, MovePreserves DEF waitFails
<1> QED BY <1>1, <1>2, <1>3

\* The current process goes to sleep or back among the RUNNABLE.
LEMMA LeavePreserves ==
  ASSUME IInv, NEW c \in CPUs, spc[c] = "busy", lock \in {c, NoCpu}, SwitchToScheduler(c),
         NEW to \in {"RUNNABLE", "SLEEPING"}, state' = [state EXCEPT ![proc[c]] = to],
         NEW x \in KernelPoints, Goto(proc[c], x),
         x \in {"forkcopy", "forkadd", "zombie"} => x = kpc[proc[c]],
         chan' \in [Procs -> {NULL} \cup Procs \cup Chans],
         \A q \in Procs \ {proc[c]} : chan'[q] = chan[q],
         to = "SLEEPING" /\ x = "wait" => chan'[proc[c]] = proc[c] /\ Zombies(proc[c]) = {},
         UNCHANGED <<pid, parent, killed, child, nextpid, panicked>>
  PROVE  IInv'
<1> DEFINE p == proc[c]
<1>1. p \in Procs /\ state[p] = "RUNNING"
  BY CurrentProcess
<1>2. \A q \in Procs : /\ kpc'[q] = IF q = p THEN x ELSE kpc[q]
                       /\ state'[q] = IF q = p THEN to ELSE state[q]
  BY <1>1 DEF Goto, IInv, TypeOK
<1>3. TypeOK'
  BY <1>1 DEF Goto, SwitchToScheduler, IInv, TypeOK, ProcStates, SchedPoints
<1>4. RunsOnce' /\ WalksLocked'
  BY <1>2, CpuLeft
<1> HIDE DEF p
<1>5. DeadStayDead'
  BY <1>1, <1>2 DEF IInv, DeadStayDead, p
<1>6. ForkOwnsChild'
  <2>1. \A q \in Procs : kpc[q] \in {"forkcopy", "forkadd"} => child[q] # p /\ child[q] \in Procs
    BY <1>1 DEF IInv, ForkOwnsChild
  <2> QED BY <1>2, <2>1, ForkKept DEF IInv, ForkOwnsChild, p
<1>7. WaitersAreTold'
  <2> SUFFICES ASSUME NEW q \in Procs, state'[q] = "SLEEPING", kpc'[q] = "wait"
               PROVE  chan'[q] = q /\ Zombies(q)' = {}
    BY DEF WaitersAreTold
  <2>1. Zombies(q)' = Zombies(q)
    BY <1>1, <1>2 DEF Zombies, Children
  <2>2. CASE q = p
    BY <1>2, <2>1, <2>2 DEF p
  <2>3. CASE q # p
    BY <1>2, <2>1, <2>3 DEF IInv, WaitersAreTold, p
  <2> QED BY <2>2, <2>3
<1>8. InitIsAlive'
  BY <1>2, InitKept DEF AliveStates
<1> QED BY <1>3, <1>4, <1>5, <1>6, <1>7, <1>8 DEF IInv

LEMMA LeaveStep ==
  ASSUME IInv, NEW c \in CPUs, yield(c) \/ waitSleeps(c) \/ \E ch \in Chans : sleep(c, ch)
  PROVE  IInv'
<1> DEFINE p == proc[c]
<1>1. CASE yield(c)
  <2>1. /\ spc[c] = "busy" /\ lock \in {c, NoCpu} /\ SwitchToScheduler(c)
        /\ state' = [state EXCEPT ![p] = "RUNNABLE"] /\ kpc' = kpc
        /\ UNCHANGED <<pid, parent, killed, child, nextpid, panicked>>
        /\ chan' = chan /\ chan' \in [Procs -> {NULL} \cup Procs \cup Chans]
    BY <1>1 DEF yield, LockFree, IInv, TypeOK
  <2>2. p \in Procs
    BY <2>1, CurrentProcess
  <2>3. Goto(p, kpc[p]) /\ kpc[p] \in KernelPoints
    BY <2>1, <2>2 DEF Goto, IInv, TypeOK
  <2> QED BY <2>1, <2>3, LeavePreserves
<1>2. CASE waitSleeps(c)
  <2>1. /\ spc[c] = "busy" /\ lock \in {c, NoCpu} /\ Zombies(p) = {} /\ SleepOn(c, p, "wait")
    BY <1>2 DEF waitSleeps, InWait, At, LockFree
  <2>2. p \in Procs
    BY <2>1, CurrentProcess
  <2>3. /\ chan' \in [Procs -> {NULL} \cup Procs \cup Chans] /\ chan'[p] = p
        /\ \A q \in Procs \ {p} : chan'[q] = chan[q]
    BY <2>1, <2>2 DEF SleepOn, IInv, TypeOK
  <2> QED BY <2>1, <2>3, LeavePreserves DEF SleepOn, KernelPoints
<1>3. ASSUME NEW ch \in Chans, sleep(c, ch) PROVE IInv'
  <2>1. /\ spc[c] = "busy" /\ lock \in {c, NoCpu} /\ SleepOn(c, ch, "slept")
    BY <1>3 DEF sleep, At, LockFree
  <2>2. p \in Procs
    BY <2>1, CurrentProcess
  <2>3. /\ chan' \in [Procs -> {NULL} \cup Procs \cup Chans]
        /\ \A q \in Procs \ {p} : chan'[q] = chan[q]
    BY <2>1, <2>2 DEF SleepOn, IInv, TypeOK
  <2> QED BY <2>1, <2>3, LeavePreserves DEF SleepOn, KernelPoints
<1> QED BY <1>1, <1>2, <1>3

\* init cannot exit: the kernel stops there.
LEMMA initExitsStep == ASSUME IInv, NEW c \in CPUs, initExits(c) PROVE IInv'
<1>1. /\ panicked' = "init exiting"
      /\ UNCHANGED <<state, pid, parent, killed, chan, kpc, child, nextpid, cpuVars, lock>>
  BY DEF initExits
<1>2. TypeOK'
  BY <1>1 DEF IInv, TypeOK, cpuVars
<1>3. RunsOnce'
  BY <1>1 DEF IInv, RunsOnce, cpuVars
<1>4. WalksLocked'
  BY <1>1 DEF IInv, WalksLocked, At, cpuVars
<1>5. DeadStayDead' /\ ForkOwnsChild'
  BY <1>1 DEF IInv, DeadStayDead, ForkOwnsChild
<1>6. WaitersAreTold' /\ InitIsAlive'
  BY <1>1, WaitersKept, InitKept
<1> QED BY <1>2, <1>3, <1>4, <1>5, <1>6 DEF IInv

\* fork() claims a free slot, which nobody runs, forks or waits for.
LEMMA allocprocStep == ASSUME IInv, NEW c \in CPUs, allocproc(c) PROVE IInv'
<1> DEFINE p == proc[c]
           free == {q \in Procs : state[q] = "UNUSED"}
           np == Min(free)
<1>1. /\ spc[c] = "busy" /\ kpc[p] = "sys" /\ lock = NoCpu /\ free # {}
      /\ state' = [state EXCEPT ![np] = "EMBRYO"]
      /\ pid' = [pid EXCEPT ![np] = nextpid]
      /\ parent' = [parent EXCEPT ![np] = NULL]
      /\ killed' = [killed EXCEPT ![np] = FALSE]
      /\ nextpid' = nextpid + 1
      /\ child' = [child EXCEPT ![p] = np]
      /\ kpc' = [kpc EXCEPT ![p] = "forkcopy", ![np] = "user"]
      /\ UNCHANGED <<chan, cpuVars, lock, panicked>>
  BY DEF allocproc, At, LockFree
<1>2. np \in Procs /\ state[np] = "UNUSED"
  BY <1>1, ScanFinds
<1>3. p \in Procs /\ state[p] = "RUNNING"
  BY <1>1, CurrentProcess
<1> HIDE DEF np
<1> HIDE DEF p
<1>4. TypeOK'
  <2>1. /\ state' \in [Procs -> ProcStates] /\ pid' \in [Procs -> Nat]
        /\ parent' \in [Procs -> Procs \cup {NULL}] /\ killed' \in [Procs -> BOOLEAN]
    BY <1>1, <1>2 DEF IInv, TypeOK, ProcStates
  <2>2. child' \in [Procs -> Procs \cup {NULL}]
    BY <1>1, <1>2 DEF IInv, TypeOK
  <2>3. kpc' \in [Procs -> KernelPoints]
    BY <1>1 DEF IInv, TypeOK, KernelPoints
  <2>4. nextpid' \in Nat
    <3>1. nextpid \in Nat /\ nextpid' = nextpid + 1
      BY <1>1 DEF IInv, TypeOK
    <3> QED BY <3>1
  <2> QED BY <1>1, <2>1, <2>2, <2>3, <2>4 DEF IInv, TypeOK, cpuVars
<1>5. \A q \in Procs :
        /\ state'[q] = IF q = np THEN "EMBRYO" ELSE state[q]
        /\ parent'[q] = IF q = np THEN NULL ELSE parent[q]
        /\ child'[q] = IF q = p THEN np ELSE child[q]
        /\ kpc'[q] = IF q = np THEN "user" ELSE IF q = p THEN "forkcopy" ELSE kpc[q]
  BY <1>1, <1>2, <1>3 DEF IInv, TypeOK
<1>6. p # np /\ UNCHANGED <<chan, panicked>>
  BY <1>1, <1>2, <1>3
<1>7. RunsOnce' /\ WalksLocked'
  <2>1. \A q \in Procs : state'[q] = "RUNNING" <=> state[q] = "RUNNING"
    BY <1>2, <1>5
  <2> QED BY <1>1, <2>1, CpuReleases DEF cpuVars
<1>8. DeadStayDead'
  BY <1>5, <1>6 DEF IInv, DeadStayDead
<1>9. ForkOwnsChild'
  <2>1. \A q \in Procs : kpc[q] \in {"forkcopy", "forkadd"} =>
          child[q] \in Procs /\ child[q] # np /\ q # p
    BY <1>1, <1>2 DEF IInv, ForkOwnsChild
  <2>2. \A q \in Procs : kpc'[q] \in {"forkcopy", "forkadd"} => q = p \/ (q # np /\ kpc'[q] = kpc[q])
    BY <1>5
  <2>3. \A q \in Procs : kpc'[q] \in {"forkcopy", "forkadd"} =>
          /\ child'[q] \in Procs /\ state'[child'[q]] = "EMBRYO"
          /\ parent'[child'[q]] = IF kpc'[q] = "forkcopy" THEN NULL ELSE q
    BY <1>2, <1>5, <1>6, <2>1, <2>2 DEF IInv, ForkOwnsChild
  <2>4. \A q, r \in Procs :
          kpc'[q] \in {"forkcopy", "forkadd"} /\ kpc'[r] \in {"forkcopy", "forkadd"}
          /\ child'[q] = child'[r] => q = r
    BY <1>5, <2>1, <2>2 DEF IInv, ForkOwnsChild
  <2> QED BY <2>3, <2>4 DEF ForkOwnsChild
<1>10. WaitersAreTold'
  BY <1>5, <1>6, WaitersKept
<1>11. InitIsAlive'
  BY <1>2, <1>5, Basics DEF IInv, InitIsAlive, AliveStates
<1> QED BY <1>4, <1>7, <1>8, <1>9, <1>10, <1>11 DEF IInv

\* The slot that goes back was the caller's own.
LEMMA forkFailsStep == ASSUME IInv, NEW c \in CPUs, forkFails(c) PROVE IInv'
<1> DEFINE p == proc[c]
           np == child[p]
<1>1. /\ spc[c] = "busy" /\ kpc[p] = "forkcopy"
      /\ state' = [state EXCEPT ![np] = "UNUSED"]
      /\ child' = [child EXCEPT ![p] = NULL] /\ Goto(p, "user")
      /\ UNCHANGED <<pid, parent, killed, chan, nextpid, cpuVars, lock, panicked>>
  BY DEF forkFails, At
<1>2. p \in Procs /\ lock # c
  BY <1>1, CurrentProcess, LockNotMine
<1>3. np \in Procs /\ state[np] = "EMBRYO"
  BY <1>1, <1>2 DEF IInv, ForkOwnsChild
<1>4. \A q \in Procs \ {p} : kpc[q] \in {"forkcopy", "forkadd"} => child[q] # np
  BY <1>1, <1>2 DEF IInv, ForkOwnsChild
<1> HIDE DEF np
<1>5. TypeOK'
  BY <1>1, <1>2, <1>3 DEF IInv, TypeOK, Goto, ProcStates, KernelPoints, cpuVars
<1> HIDE DEF p
<1>6. \A q \in Procs : /\ state'[q] = IF q = np THEN "UNUSED" ELSE state[q]
                       /\ child'[q] = IF q = p THEN NULL ELSE child[q]
                       /\ kpc'[q] = IF q = p THEN "user" ELSE kpc[q]
  BY <1>1, <1>2, <1>3 DEF IInv, TypeOK, Goto
<1>7. RunsOnce' /\ WalksLocked'
  <2>1. \A q \in Procs : state'[q] = "RUNNING" <=> state[q] = "RUNNING"
    BY <1>3, <1>6
  <2> QED BY <1>1, <1>2, <1>6, <2>1, CpuKept DEF cpuVars, p
<1>8. DeadStayDead'
  BY <1>1, <1>6 DEF IInv, DeadStayDead
<1>9. ForkOwnsChild'
  <2>1. \A q \in Procs : kpc'[q] \in {"forkcopy", "forkadd"} =>
          /\ kpc'[q] = kpc[q] /\ child'[q] = child[q]
          /\ state'[child[q]] = "EMBRYO" /\ parent'[child[q]] = parent[child[q]]
    BY <1>1, <1>4, <1>6 DEF IInv, ForkOwnsChild
  <2> QED BY <2>1, ForkKept
<1>10. WaitersAreTold'
  BY <1>1, <1>6, WaitersKept
<1>11. InitIsAlive'
  BY <1>1, <1>3, <1>6, InitKept DEF AliveStates
<1> QED BY <1>5, <1>7, <1>8, <1>9, <1>10, <1>11 DEF IInv

\* The caller becomes the parent, without ptable.lock, of a slot that only it looks at.
LEMMA forkCopiesStep == ASSUME IInv, NEW c \in CPUs, forkCopies(c) PROVE IInv'
<1> DEFINE p == proc[c]
           np == child[p]
<1>1. /\ spc[c] = "busy" /\ kpc[p] = "forkcopy"
      /\ parent' = [parent EXCEPT ![np] = p] /\ Goto(p, "forkadd")
      /\ UNCHANGED <<state, pid, killed, chan, child, nextpid, cpuVars, lock, panicked>>
  BY DEF forkCopies, At
<1>2. p \in Procs /\ lock # c
  BY <1>1, CurrentProcess, LockNotMine
<1>3. np \in Procs /\ state[np] = "EMBRYO"
  BY <1>1, <1>2 DEF IInv, ForkOwnsChild
<1>4. \A q \in Procs \ {p} : kpc[q] \in {"forkcopy", "forkadd"} => child[q] # np
  BY <1>1, <1>2 DEF IInv, ForkOwnsChild
<1> HIDE DEF np
<1>5. TypeOK'
  BY <1>1, <1>2, <1>3 DEF IInv, TypeOK, Goto, KernelPoints, cpuVars
<1> HIDE DEF p
<1>6. \A q \in Procs : /\ parent'[q] = IF q = np THEN p ELSE parent[q]
                       /\ kpc'[q] = IF q = p THEN "forkadd" ELSE kpc[q]
  BY <1>1, <1>2, <1>3 DEF IInv, TypeOK, Goto
<1>7. RunsOnce' /\ WalksLocked'
  BY <1>1, <1>2, <1>6, CpuKept DEF cpuVars, p
<1>8. DeadStayDead'
  BY <1>1, <1>6 DEF IInv, DeadStayDead
<1>9. ForkOwnsChild'
  <2>1. \A q \in Procs : kpc'[q] \in {"forkcopy", "forkadd"} =>
          /\ child'[q] \in Procs /\ state'[child'[q]] = "EMBRYO"
          /\ parent'[child'[q]] = IF kpc'[q] = "forkcopy" THEN NULL ELSE q
    <3> TAKE q \in Procs
    <3> HAVE kpc'[q] \in {"forkcopy", "forkadd"}
    <3>1. CASE q = p
      BY <1>1, <1>3, <1>6, <3>1 DEF np
    <3>2. CASE q # p
      BY <1>1, <1>4, <1>6, <3>2 DEF IInv, ForkOwnsChild
    <3> QED BY <3>1, <3>2
  <2>2. child' = child /\ \A q \in Procs : kpc'[q] \in {"forkcopy", "forkadd"} <=>
                                           kpc[q] \in {"forkcopy", "forkadd"}
    BY <1>1, <1>6 DEF p
  <2> QED BY <2>1, <2>2 DEF IInv, ForkOwnsChild
<1>10. WaitersAreTold'
  BY <1>1, <1>3, <1>6, WaitersKept
<1>11. InitIsAlive'
  <2>1. np # InitProc /\ np # p /\ state' = state
    BY <1>1, <1>3, CurrentProcess DEF IInv, InitIsAlive, AliveStates, p
  <2> QED BY <1>6, <2>1, Basics DEF IInv, InitIsAlive
<1> QED BY <1>5, <1>7, <1>8, <1>9, <1>10, <1>11 DEF IInv

LEMMA forkAddsStep == ASSUME IInv, NEW c \in CPUs, forkAdds(c) PROVE IInv'
<1> DEFINE p == proc[c]
           np == child[p]
<1>1. /\ spc[c] = "busy" /\ kpc[p] = "forkadd" /\ lock = NoCpu
      /\ state' = [state EXCEPT ![np] = "RUNNABLE"]
      /\ child' = [child EXCEPT ![p] = NULL] /\ Goto(p, "user")
      /\ UNCHANGED <<pid, parent, killed, chan, nextpid, cpuVars, lock, panicked>>
  BY DEF forkAdds, At, LockFree
<1>2. p \in Procs
  BY <1>1, CurrentProcess
<1>3. np \in Procs /\ state[np] = "EMBRYO"
  BY <1>1, <1>2 DEF IInv, ForkOwnsChild
<1>4. \A q \in Procs \ {p} : kpc[q] \in {"forkcopy", "forkadd"} => child[q] # np
  BY <1>1, <1>2 DEF IInv, ForkOwnsChild
<1> HIDE DEF np
<1>5. TypeOK'
  BY <1>1, <1>2, <1>3 DEF IInv, TypeOK, Goto, ProcStates, KernelPoints, cpuVars
<1> HIDE DEF p
<1>6. \A q \in Procs : /\ state'[q] = IF q = np THEN "RUNNABLE" ELSE state[q]
                       /\ child'[q] = IF q = p THEN NULL ELSE child[q]
                       /\ kpc'[q] = IF q = p THEN "user" ELSE kpc[q]
  BY <1>1, <1>2, <1>3 DEF IInv, TypeOK, Goto
<1>7. RunsOnce' /\ WalksLocked'
  <2>1. \A q \in Procs : state'[q] = "RUNNING" <=> state[q] = "RUNNING"
    BY <1>3, <1>6
  <2> QED BY <1>1, <2>1, CpuReleases DEF cpuVars
<1>8. DeadStayDead'
  BY <1>1, <1>3, <1>6 DEF IInv, DeadStayDead
<1>9. ForkOwnsChild'
  <2>1. \A q \in Procs : kpc'[q] \in {"forkcopy", "forkadd"} =>
          /\ kpc'[q] = kpc[q] /\ child'[q] = child[q]
          /\ state'[child[q]] = "EMBRYO" /\ parent'[child[q]] = parent[child[q]]
    BY <1>1, <1>4, <1>6 DEF IInv, ForkOwnsChild
  <2> QED BY <2>1, ForkKept
<1>10. WaitersAreTold'
  BY <1>1, <1>6, WaitersKept
<1>11. InitIsAlive'
  BY <1>1, <1>3, <1>6, InitKept DEF AliveStates
<1> QED BY <1>5, <1>7, <1>8, <1>9, <1>10, <1>11 DEF IInv

\* Sleepers become RUNNABLE, whoever wakes them; the waker may return from its system call.
LEMMA WakePreserves ==
  ASSUME IInv, NEW S \in SUBSET Procs, \A q \in S : state[q] = "SLEEPING",
         \A q \in Procs : state'[q] = IF q \in S THEN "RUNNABLE" ELSE state[q],
         TypeOK', RunsOnce', WalksLocked',
         \A q \in Procs : kpc'[q] = kpc[q] \/ kpc'[q] = "user",
         UNCHANGED <<parent, chan, child, panicked>>
  PROVE  IInv'
<1>1. DeadStayDead'
  BY DEF IInv, DeadStayDead
<1>2. ForkOwnsChild'
  <2>1. \A q \in Procs : kpc'[q] \in {"forkcopy", "forkadd"} =>
          /\ kpc'[q] = kpc[q] /\ child[q] \in Procs
          /\ state'[child[q]] = "EMBRYO"
    BY DEF IInv, ForkOwnsChild
  <2> QED BY <2>1, ForkKept
<1>3. WaitersAreTold' /\ InitIsAlive'
  BY WaitersKept, InitKept DEF AliveStates
<1> QED BY <1>1, <1>2, <1>3 DEF IInv

LEMMA wakeupStep == ASSUME IInv, NEW ch, wakeup(ch) PROVE IInv'
<1> DEFINE S == {q \in Procs : state[q] = "SLEEPING" /\ chan[q] = ch}
<1>1. /\ state' = wakeup1(state, ch)
      /\ UNCHANGED <<pid, parent, killed, chan, kpc, child, nextpid, cpuVars, lock, panicked>>
  BY DEF wakeup
<1>2. \A q \in Procs : state'[q] = IF q \in S THEN "RUNNABLE" ELSE state[q]
  BY <1>1 DEF wakeup1
<1>3. TypeOK'
  BY <1>1 DEF IInv, TypeOK, wakeup1, ProcStates, cpuVars
<1>4. \A q \in Procs : state'[q] = "RUNNING" <=> state[q] = "RUNNING"
  BY <1>2
<1>5. RunsOnce' /\ WalksLocked'
  BY <1>1, <1>4 DEF IInv, RunsOnce, WalksLocked, At, cpuVars
<1> QED BY <1>1, <1>2, <1>3, <1>5, WakePreserves

LEMMA killStep == ASSUME IInv, NEW c \in CPUs, NEW n, kill(c, n) PROVE IInv'
<1> DEFINE p == proc[c]
           found == {q \in Procs : pid[q] = n}
           v == Min(found)
<1>1. /\ spc[c] = "busy" /\ lock = NoCpu /\ found # {} /\ Goto(p, "user")
      /\ killed' = [killed EXCEPT ![v] = TRUE]
      /\ state' = [state EXCEPT ![v] = IF state[v] = "SLEEPING" THEN "RUNNABLE" ELSE state[v]]
      /\ UNCHANGED <<pid, parent, chan, child, nextpid, cpuVars, lock, panicked>>
  BY DEF kill, At, LockFree
<1>2. v \in Procs
  BY <1>1, ScanFinds
<1>3. p \in Procs
  BY <1>1, CurrentProcess
<1> HIDE DEF v
<1> DEFINE S == {q \in {v} : state[q] = "SLEEPING"}
<1>4. \A q \in Procs : /\ state'[q] = IF q \in S THEN "RUNNABLE" ELSE state[q]
                       /\ kpc'[q] = IF q = p THEN "user" ELSE kpc[q]
  BY <1>1, <1>2, <1>3 DEF Goto, IInv, TypeOK
<1>5. TypeOK'
  BY <1>1, <1>2, <1>3 DEF IInv, TypeOK, Goto, ProcStates, KernelPoints, cpuVars
<1>6. \A q \in Procs : state'[q] = "RUNNING" <=> state[q] = "RUNNING"
  BY <1>4
<1>7. RunsOnce' /\ WalksLocked'
  BY <1>1, <1>6, CpuReleases DEF cpuVars
<1>8. S \in SUBSET Procs /\ \A q \in S : state[q] = "SLEEPING"
  BY <1>2
<1> HIDE DEF S
<1> QED BY <1>1, <1>4, <1>5, <1>7, <1>8, WakePreserves

\* The dead child is in nobody's way any more.
LEMMA waitReapsStep == ASSUME IInv, NEW c \in CPUs, waitReaps(c) PROVE IInv'
<1> DEFINE p == proc[c]
           z == Min(Zombies(p))
<1>1. /\ spc[c] = "busy" /\ lock \in {c, NoCpu} /\ Zombies(p) # {}
      /\ state' = [state EXCEPT ![z] = "UNUSED"] /\ Goto(p, "user") /\ lock' = NoCpu
      /\ UNCHANGED <<pid, parent, killed, chan, child, nextpid, cpuVars, panicked>>
  BY DEF waitReaps, InWait, At, LockFree
<1>2. p \in Procs
  BY <1>1, CurrentProcess
<1>3. z \in Procs /\ state[z] = "ZOMBIE"
  BY <1>1, ReapedIsChild
<1> HIDE DEF z
<1>4. TypeOK'
  BY <1>1, <1>2, <1>3 DEF IInv, TypeOK, Goto, ProcStates, KernelPoints, cpuVars
<1> HIDE DEF p
<1>5. \A q \in Procs : /\ state'[q] = IF q = z THEN "UNUSED" ELSE state[q]
                       /\ kpc'[q] = IF q = p THEN "user" ELSE kpc[q]
  BY <1>1, <1>2, <1>3 DEF IInv, TypeOK, Goto
<1>6. RunsOnce' /\ WalksLocked'
  <2>1. \A q \in Procs : state'[q] = "RUNNING" <=> state[q] = "RUNNING"
    BY <1>3, <1>5
  <2> QED BY <1>1, <2>1, CpuReleases DEF cpuVars
<1>7. DeadStayDead'
  BY <1>1, <1>5 DEF IInv, DeadStayDead
<1>8. ForkOwnsChild'
  <2>1. \A q \in Procs : kpc'[q] \in {"forkcopy", "forkadd"} =>
          /\ kpc'[q] = kpc[q] /\ child[q] \in Procs
          /\ state'[child[q]] = "EMBRYO"
    BY <1>3, <1>5 DEF IInv, ForkOwnsChild
  <2> QED BY <1>1, <2>1, ForkKept
<1>9. WaitersAreTold'
  BY <1>1, <1>5, WaitersKept
<1>10. InitIsAlive'
  BY <1>1, <1>3, <1>5, InitKept DEF AliveStates
<1> QED BY <1>4, <1>6, <1>7, <1>8, <1>9, <1>10 DEF IInv

\* Those whom the exit of p wakes: the parent, and init if it inherits a ZOMBIE.
ToldOfExit(p) ==
  {q \in Procs : /\ state[q] = "SLEEPING"
                 /\ chan[q] = parent[p] \/ (Zombies(p) # {} /\ chan[q] = InitProc)}

\* The two wakeups of exit() come to one, as nothing happens between them.
LEMMA ExitStates ==
  ASSUME NEW p \in Procs, state' = [ExitWakes(p) EXCEPT ![p] = "ZOMBIE"]
  PROVE  \A q \in Procs : state'[q] = IF q = p THEN "ZOMBIE"
                                      ELSE IF q \in ToldOfExit(p) THEN "RUNNABLE" ELSE state[q]
<1>1. CASE Zombies(p) = {}
  <2>1. state' = [wakeup1(state, parent[p]) EXCEPT ![p] = "ZOMBIE"]
    BY <1>1 DEF ExitWakes
  <2> QED BY <1>1, <2>1 DEF wakeup1, ToldOfExit
<1>2. CASE Zombies(p) # {}
  <2> DEFINE woken == wakeup1(state, parent[p])
             both  == wakeup1(woken, InitProc)
  <2>1. \A q \in Procs :
          woken[q] = IF state[q] = "SLEEPING" /\ chan[q] = parent[p] THEN "RUNNABLE" ELSE state[q]
    BY DEF wakeup1
  <2>2. both = [q \in Procs |-> IF woken[q] = "SLEEPING" /\ chan[q] = InitProc THEN "RUNNABLE"
                                ELSE woken[q]]
    BY DEF wakeup1
  <2>3. state' = [both EXCEPT ![p] = "ZOMBIE"]
    BY <1>2 DEF ExitWakes
  <2> HIDE DEF woken, both
  <2> QED BY <1>2, <2>1, <2>2, <2>3 DEF ToldOfExit
<1> QED BY <1>1, <1>2

LEMMA exitStep == ASSUME IInv, NEW c \in CPUs, exit(c) PROVE IInv'
<1> DEFINE p == proc[c]
<1>1. /\ spc[c] = "busy" /\ kpc[p] = "exit" /\ lock = NoCpu /\ p # InitProc
      /\ state' = [ExitWakes(p) EXCEPT ![p] = "ZOMBIE"]
      /\ parent' = [q \in Procs |-> IF parent[q] = p THEN InitProc ELSE parent[q]]
      /\ SwitchToScheduler(c) /\ Goto(p, "zombie")
      /\ UNCHANGED <<pid, killed, chan, child, nextpid, panicked>>
  BY DEF exit, At, LockFree
<1>2. p \in Procs /\ p # NULL /\ state[p] = "RUNNING"
  BY <1>1, CurrentProcess
<1> DEFINE S == ToldOfExit(p)
<1>3. S \in SUBSET Procs /\ \A q \in S : state[q] = "SLEEPING"
  BY DEF ToldOfExit
<1> HIDE DEF p
<1>4. \A q \in Procs :
        /\ state'[q] = IF q = p THEN "ZOMBIE" ELSE IF q \in S THEN "RUNNABLE" ELSE state[q]
        /\ parent'[q] = IF parent[q] = p THEN InitProc ELSE parent[q]
        /\ kpc'[q] = IF q = p THEN "zombie" ELSE kpc[q]
  <2>1. \A q \in Procs : kpc'[q] = IF q = p THEN "zombie" ELSE kpc[q]
    BY <1>1, <1>2 DEF IInv, TypeOK, Goto
  <2> HIDE DEF S
  <2>2. \A q \in Procs :
          state'[q] = IF q = p THEN "ZOMBIE" ELSE IF q \in S THEN "RUNNABLE" ELSE state[q]
    BY <1>1, <1>2, ExitStates DEF S
  <2> QED BY <1>1, <2>1, <2>2
<1>5. TypeOK'
  <2>1. state' \in [Procs -> ProcStates]
    <3>1. DOMAIN state' = Procs /\ state' = [q \in Procs |-> state'[q]]
      BY <1>1 DEF ExitWakes, wakeup1
    <3> HIDE DEF S
    <3>2. \A q \in Procs : state'[q] \in ProcStates
      BY <1>4 DEF IInv, TypeOK, ProcStates
    <3> QED BY <3>1, <3>2
  <2>2. parent' \in [Procs -> Procs \cup {NULL}]
    BY <1>1, Basics DEF IInv, TypeOK
  <2>3. kpc' \in [Procs -> KernelPoints]
    BY <1>1 DEF Goto, IInv, TypeOK, KernelPoints
  <2>4. proc' \in [CPUs -> Procs \cup {NULL}] /\ spc' \in [CPUs -> SchedPoints] /\ lock' \in CPUs
    BY <1>1 DEF SwitchToScheduler, IInv, TypeOK, SchedPoints
  <2> QED BY <1>1, <2>1, <2>2, <2>3, <2>4 DEF SwitchToScheduler, IInv, TypeOK
<1>6. RunsOnce' /\ WalksLocked'
  <2>1. \A q \in Procs : state'[q] = "RUNNING" <=> state[q] = "RUNNING" /\ q # p
    BY <1>3, <1>4
  <2> QED BY <1>1, <2>1, CpuLeft DEF p
<1>7. DeadStayDead'
  BY <1>1, <1>3, <1>4 DEF IInv, DeadStayDead
<1>8. ForkOwnsChild'
  <2>1. \A q \in Procs : kpc'[q] \in {"forkcopy", "forkadd"} =>
          /\ q # p /\ kpc'[q] = kpc[q] /\ child[q] \in Procs
          /\ state[child[q]] = "EMBRYO" /\ parent[child[q]] \in {NULL, q}
    BY <1>4 DEF IInv, ForkOwnsChild
  <2>2. \A q \in Procs : kpc'[q] \in {"forkcopy", "forkadd"} =>
          state'[child[q]] = "EMBRYO" /\ parent'[child[q]] = parent[child[q]]
    BY <1>2, <1>3, <1>4, <2>1
  <2> QED BY <1>1, <2>1, <2>2, ForkKept
<1>9. WaitersAreTold'
  <2> SUFFICES ASSUME NEW w \in Procs, state'[w] = "SLEEPING", kpc'[w] = "wait"
               PROVE  chan'[w] = w /\ Zombies(w)' = {}
    BY DEF WaitersAreTold
  <2>1. w # p /\ w \notin S /\ state[w] = "SLEEPING" /\ kpc[w] = "wait"
    BY <1>4
  <2>2. chan[w] = w /\ Zombies(w) = {}
    BY <2>1 DEF IInv, WaitersAreTold
  <2>3. parent[p] # w /\ (w = InitProc => Zombies(p) = {})
    BY <2>1, <2>2 DEF ToldOfExit
  <2>4. ASSUME NEW z \in Procs, parent'[z] = w, state'[z] = "ZOMBIE" PROVE FALSE
    <3>1. CASE z = p
      BY <1>2, <1>4, <2>3, <2>4, <3>1 DEF IInv, InitIsAlive
    <3>2. CASE z # p /\ parent[z] = p
      BY <1>3, <1>4, <2>3, <2>4, <3>2 DEF Zombies, Children
    <3>3. CASE z # p /\ parent[z] # p
      BY <1>3, <1>4, <2>2, <2>4, <3>3 DEF Zombies, Children
    <3> QED BY <3>1, <3>2, <3>3
  <2> QED BY <1>1, <2>2, <2>4 DEF Zombies, Children
<1>10. InitIsAlive'
  BY <1>1, <1>2, <1>3, <1>4, Basics DEF IInv, InitIsAlive, AliveStates
<1> QED BY <1>5, <1>6, <1>7, <1>8, <1>9, <1>10 DEF IInv

\* ptable.lock changes hands between a scheduler and nobody.
LEMMA WalkStep == ASSUME IInv, NEW c \in CPUs, walkStarts(c) \/ walkEnds(c) PROVE IInv'
<1>1. /\ spc[c] # "busy" /\ spc' = [spc EXCEPT ![c] = IF spc[c] = "top" THEN "walk" ELSE "top"]
      /\ lock' = IF spc[c] = "top" THEN c ELSE NoCpu
      /\ lock = IF spc[c] = "top" THEN NoCpu ELSE c
      /\ turn' = [turn EXCEPT ![c] = 1]
      /\ UNCHANGED <<state, pid, parent, killed, chan, kpc, child, nextpid, proc, panicked>>
  BY DEF walkStarts, walkEnds, LockFree
<1>2. TypeOK'
  <2>1. spc' \in [CPUs -> SchedPoints] /\ lock' \in CPUs \cup {NoCpu}
    BY <1>1 DEF IInv, TypeOK, SchedPoints
  <2>2. turn' \in [CPUs -> 1 .. NPROC + 1]
    BY <1>1, Basics DEF IInv, TypeOK
  <2> QED BY <1>1, <2>1, <2>2 DEF IInv, TypeOK
<1>3. \A d \in CPUs : spc'[d] = IF d # c THEN spc[d] ELSE IF spc[c] = "top" THEN "walk" ELSE "top"
  BY <1>1 DEF IInv, TypeOK
<1>4. RunsOnce'
  BY <1>1, <1>3 DEF IInv, RunsOnce
<1>5. WalksLocked'
  <2>1. \A d \in CPUs : spc'[d] = "walk" => lock' = d
    BY <1>1, <1>3, Basics DEF IInv, WalksLocked
  <2>2. \A d \in CPUs : lock' = d => d = c /\ spc'[d] = "walk"
    BY <1>1, <1>3, Basics DEF IInv, WalksLocked
  <2> QED BY <2>1, <2>2 DEF WalksLocked
<1>6. DeadStayDead' /\ ForkOwnsChild'
  BY <1>1 DEF IInv, DeadStayDead, ForkOwnsChild
<1>7. WaitersAreTold' /\ InitIsAlive'
  BY <1>1, WaitersKept, InitKept
<1> QED BY <1>2, <1>4, <1>5, <1>6, <1>7 DEF IInv

\* The process that is started was on no CPU, and has not left exit() for good.
LEMMA runStep == ASSUME IInv, panicked = "none", NEW c \in CPUs, run(c) PROVE IInv'
<1> DEFINE p == Min(Ahead(c))
           x == IF kpc[p] = "slept" THEN "sys" ELSE kpc[p]
<1>1. /\ spc[c] = "walk" /\ lock = c /\ Ahead(c) # {}
      /\ proc' = [proc EXCEPT ![c] = p] /\ spc' = [spc EXCEPT ![c] = "busy"]
      /\ turn' = [turn EXCEPT ![c] = NextTurn(p)]
      /\ state' = [state EXCEPT ![p] = "RUNNING"]
      /\ chan' = [chan EXCEPT ![p] = IF kpc[p] \in {"wait", "slept"} THEN NULL ELSE chan[p]]
      /\ kpc' = [kpc EXCEPT ![p] = x]
      /\ lock' = IF kpc[p] = "wait" THEN c ELSE NoCpu
      /\ panicked' = IF kpc[p] = "zombie" THEN "zombie exit" ELSE panicked
      /\ UNCHANGED <<pid, parent, killed, child, nextpid>>
  BY DEF run, Goto
<1>2. p \in Procs /\ state[p] = "RUNNABLE"
  <2>1. p \in Ahead(c)
    BY <1>1, ScanFinds DEF Ahead
  <2> QED BY <2>1 DEF Ahead
<1> HIDE DEF p
<1>3. kpc[p] # "zombie" /\ panicked' = "none"
  BY <1>1, <1>2 DEF IInv, DeadStayDead
<1>4. x \in KernelPoints \ {"zombie"} /\ (x \in {"forkcopy", "forkadd"} => x = kpc[p])
  BY <1>2, <1>3 DEF IInv, TypeOK, KernelPoints
<1> HIDE DEF x
<1>5. TypeOK'
  <2>1. /\ state' \in [Procs -> ProcStates] /\ kpc' \in [Procs -> KernelPoints]
        /\ chan' \in [Procs -> {NULL} \cup Procs \cup Chans]
    BY <1>1, <1>4 DEF IInv, TypeOK, ProcStates
  <2>2. proc' \in [CPUs -> Procs \cup {NULL}] /\ spc' \in [CPUs -> SchedPoints]
    BY <1>1, <1>2 DEF IInv, TypeOK, SchedPoints
  <2>3. turn' \in [CPUs -> 1 .. NPROC + 1]
    BY <1>1, <1>2, Basics DEF IInv, TypeOK
  <2> QED BY <1>1, <1>3, <2>1, <2>2, <2>3 DEF IInv, TypeOK
<1>6. \A q \in Procs : /\ state'[q] = IF q = p THEN "RUNNING" ELSE state[q]
                       /\ kpc'[q] = IF q = p THEN x ELSE kpc[q]
                       /\ q # p => chan'[q] = chan[q]
  BY <1>1 DEF IInv, TypeOK
<1>7. \A d \in CPUs : /\ proc'[d] = IF d = c THEN p ELSE proc[d]
                      /\ spc'[d] = IF d = c THEN "busy" ELSE spc[d]
  BY <1>1 DEF IInv, TypeOK
<1>8. RunsOnce'
  <2>1. /\ p # NULL /\ proc[c] = NULL
        /\ \A d \in CPUs : proc[d] # p
    BY <1>1, <1>2, Basics DEF IInv, RunsOnce
  <2>2. ASSUME NEW q \in Procs PROVE state'[q] = "RUNNING" <=> \E d \in CPUs : proc'[d] = q
    <3>1. CASE q = p
      BY <1>6, <1>7, <3>1
    <3>2. CASE q # p
      <4>1. \A d \in CPUs : proc'[d] = q <=> proc[d] = q
        BY <1>7, <2>1, <3>2, Basics
      <4> QED BY <1>6, <3>2, <4>1 DEF IInv, RunsOnce
    <3> QED BY <3>1, <3>2
  <2>3. \A d, e \in CPUs : proc'[d] = proc'[e] /\ proc'[d] # NULL => d = e
    BY <1>7, <2>1 DEF IInv, RunsOnce
  <2>4. \A d \in CPUs : spc'[d] = "busy" <=> proc'[d] # NULL
    BY <1>7, <2>1 DEF IInv, RunsOnce
  <2> QED BY <2>2, <2>3, <2>4 DEF RunsOnce
<1>9. WalksLocked'
  <2>1. \A d \in CPUs : spc'[d] # "walk"
    <3>1. lock = c /\ \A d \in CPUs : spc[d] = "walk" => lock = d
      BY <1>1 DEF IInv, WalksLocked
    <3> QED BY <1>7, <3>1
  <2>2. \A d \in CPUs : lock' = d => d = c /\ kpc[p] = "wait"
    BY <1>1, Basics
  <2>3. kpc[p] = "wait" => spc'[c] = "busy" /\ kpc'[proc'[c]] = "wait"
    BY <1>2, <1>6, <1>7 DEF x
  <2> QED BY <2>1, <2>2, <2>3 DEF WalksLocked, At
<1>10. DeadStayDead'
  BY <1>3, <1>4, <1>6 DEF IInv, DeadStayDead
<1>11. ForkOwnsChild'
  <2>1. \A q \in Procs : kpc[q] \in {"forkcopy", "forkadd"} =>
          child[q] \in Procs /\ child[q] # p
    BY <1>2 DEF IInv, ForkOwnsChild
  <2>2. \A q \in Procs : kpc'[q] \in {"forkcopy", "forkadd"} => kpc'[q] = kpc[q]
    BY <1>4, <1>6
  <2>3. \A q \in Procs : kpc[q] \in {"forkcopy", "forkadd"} => state'[child[q]] = "EMBRYO"
    BY <1>6, <2>1 DEF IInv, ForkOwnsChild
  <2>4. child' = child /\ parent' = parent
    BY <1>1
  <2> QED BY <2>2, <2>3, <2>4, ForkKept
<1>12. WaitersAreTold'
  <2>1. \A q \in Procs : state'[q] = "SLEEPING" /\ kpc'[q] = "wait" =>
          state[q] = "SLEEPING" /\ kpc[q] = "wait" /\ chan'[q] = chan[q]
    BY <1>6
  <2>2. parent' = parent
    BY <1>1
  <2>3. \A q \in Procs : state'[q] = "ZOMBIE" => state[q] = "ZOMBIE"
    BY <1>6
  <2> QED BY <2>1, <2>2, <2>3, WaitersKept
<1>13. InitIsAlive'
  BY <1>1, <1>6, InitKept DEF AliveStates
<1> QED BY <1>5, <1>8, <1>9, <1>10, <1>11, <1>12, <1>13 DEF IInv

-------------------------------------------------------------------------------
(* The theorems on the invariant. *)

LEMMA NextInv == IInv /\ [Next]_vars => IInv'
<1> SUFFICES ASSUME IInv, [Next]_vars PROVE IInv'
  OBVIOUS
<1>1. ASSUME panicked = "none", NEW c \in CPUs, Trap(c) \/ yield(c) \/ Syscall(c) \/ Scheduler(c)
      PROVE  IInv'
  <2>1. CASE Trap(c) \/ sysReturns(c) \/ sys_exit(c) \/ waitFails(c)
    BY <2>1, MoveStep
  <2>2. CASE yield(c) \/ waitSleeps(c) \/ \E ch \in Chans : sleep(c, ch)
    BY <2>2, LeaveStep
  <2>3. CASE allocproc(c) \/ forkFails(c) \/ forkCopies(c) \/ forkAdds(c)
    BY <2>3, allocprocStep, forkFailsStep, forkCopiesStep, forkAddsStep
  <2>4. CASE \E n \in PidArgs : kill(c, n)
    BY <2>4, killStep
  <2>5. CASE exit(c) \/ initExits(c) \/ waitReaps(c)
    BY <2>5, exitStep, initExitsStep, waitReapsStep
  <2>6. CASE Scheduler(c)
    BY <1>1, <2>6, WalkStep, runStep DEF Scheduler
  <2> QED BY <1>1, <2>1, <2>2, <2>3, <2>4, <2>5, <2>6 DEF Syscall, wait
<1>2. ASSUME NEW ch \in Chans, wakeup(ch) PROVE IInv'
  BY <1>2, wakeupStep
<1>3. CASE UNCHANGED vars
  <2>1. UNCHANGED <<state, pid, parent, killed, chan, kpc, child, nextpid, proc, spc, turn, lock,
                    panicked>>
    BY <1>3 DEF vars, cpuVars
  <2>2. TypeOK'
    BY <2>1 DEF IInv, TypeOK
  <2>3. RunsOnce'
    BY <2>1 DEF IInv, RunsOnce
  <2>4. WalksLocked'
    BY <2>1 DEF IInv, WalksLocked, At
  <2>5. DeadStayDead' /\ ForkOwnsChild'
    BY <2>1 DEF IInv, DeadStayDead, ForkOwnsChild
  <2>6. WaitersAreTold' /\ InitIsAlive'
    BY <2>1, WaitersKept, InitKept
  <2> QED BY <2>2, <2>3, <2>4, <2>5, <2>6 DEF IInv
<1> QED BY <1>1, <1>2, <1>3 DEF Next

\* The inductive invariant holds in every reachable state, on any number of CPUs.
THEOREM IInvHolds == Spec => []IInv
<1> QED BY InitInv, NextInv, PTL DEF Spec

\* The CPUs that run a process are one if it is RUNNING and none if it is not.
LEMMA RunnersCounted ==
  ASSUME IInv, NEW p \in Procs
  PROVE  /\ Cardinality({c \in CPUs : proc[c] = p}) <= 1
         /\ state[p] = "RUNNING" <=> Cardinality({c \in CPUs : proc[c] = p}) = 1
<1> DEFINE R == {c \in CPUs : proc[c] = p}
<1>1. CASE state[p] = "RUNNING"
  <2>1. PICK c \in CPUs : proc[c] = p
    BY <1>1 DEF IInv, RunsOnce
  <2>2. R = {c}
    BY <2>1, Basics DEF IInv, RunsOnce
  <2>3. Cardinality(R) = 1
    BY <2>2, FS_Singleton
  <2> QED BY <1>1, <2>3
<1>2. CASE state[p] # "RUNNING"
  <2>1. R = {}
    BY <1>2 DEF IInv, RunsOnce
  <2>2. Cardinality(R) = 0
    BY <2>1, FS_EmptySet
  <2> QED BY <1>2, <2>2
<1> QED BY <1>1, <1>2

\* Whatever the number of processes and CPUs: a RUNNING process is the current process of one
\* CPU, ptable.lock is held by a CPU that walks or waits, and nobody sleeps in wait() over a
\* ZOMBIE.
THEOREM ProcessesCorrect == Spec => []StaysConsistent
<1>1. IInv => StaysConsistent
  <2> SUFFICES ASSUME IInv PROVE StaysConsistent
    OBVIOUS
  <2>1. CpuMatchesState
    BY RunnersCounted DEF CpuMatchesState, IInv, WalksLocked
  <2>2. TypeOK /\ NoZombieMissed
    BY DEF IInv, WaitersAreTold, NoZombieMissed
  <2> QED BY <2>1, <2>2 DEF StaysConsistent
<1> QED BY <1>1, IInvHolds, PTL

-------------------------------------------------------------------------------
(* The round-robin kernel implements ProcLifecycle.  wait() leaves its own address in the *)
(* parent of the slot that it frees; LifecycleParent does not show it.                    *)

LEMMA LifecycleInit == Init => Lifecycle!Init
  BY DEF Init, Lifecycle!Init, LifecycleParent

\* What the abstract specification sees of the parents stays as it is.
LEMMA ParentsUnseen ==
  ASSUME parent' = parent,
         \A q \in Procs : state'[q] = "UNUSED" <=> state[q] = "UNUSED"
  PROVE  LifecycleParent' = LifecycleParent
BY DEF LifecycleParent

\* What it sees of a process that leaves its CPU alive.
LEMMA LeaveRefines ==
  ASSUME IInv, NEW c \in CPUs, spc[c] = "busy", NEW to \in {"RUNNABLE", "SLEEPING"},
         state' = [state EXCEPT ![proc[c]] = to],
         SwitchToScheduler(c), parent' = parent
  PROVE  Lifecycle!Next
<1>1. proc[c] \in Procs /\ proc[c] # NULL /\ state[proc[c]] = "RUNNING"
  BY CurrentProcess
<1>2. LifecycleParent' = LifecycleParent
  <2>1. \A q \in Procs : state'[q] = "UNUSED" <=> state[q] = "UNUSED"
    BY <1>1 DEF IInv, TypeOK
  <2> QED BY <2>1, ParentsUnseen
<1>3. Lifecycle!Leave(c, to)
  BY <1>1, <1>2 DEF Lifecycle!Leave, Lifecycle!Move, SwitchToScheduler
<1> QED BY <1>3 DEF Lifecycle!Next

\* What it sees of processes that are woken, from wakeup() or from kill().
LEMMA WakeRefines ==
  ASSUME TypeOK, NEW S \in SUBSET Procs, \A p \in S : state[p] = "SLEEPING",
         state' = [p \in Procs |-> IF p \in S THEN "RUNNABLE" ELSE state[p]],
         UNCHANGED <<parent, proc>>
  PROVE  Lifecycle!Next
<1>1. LifecycleParent' = LifecycleParent
  BY ParentsUnseen
<1>2. Lifecycle!Wake(S)
  BY <1>1 DEF Lifecycle!Wake
<1> QED BY <1>2 DEF Lifecycle!Next

\* What it sees of fork().
LEMMA ForkRefines ==
  ASSUME IInv, NEW c \in CPUs, allocproc(c) \/ forkFails(c) \/ forkCopies(c) \/ forkAdds(c)
  PROVE  Lifecycle!Next
<1>1. CASE allocproc(c)
  <2> DEFINE free == {q \in Procs : state[q] = "UNUSED"}
             np == Min(free)
  <2>1. /\ spc[c] = "busy" /\ free # {} /\ state' = [state EXCEPT ![np] = "EMBRYO"]
        /\ parent' = [parent EXCEPT ![np] = NULL] /\ proc' = proc
    BY <1>1 DEF allocproc, At, cpuVars
  <2>2. np \in Procs /\ state[np] = "UNUSED"
    BY <2>1, ScanFinds
  <2>3. proc[c] # NULL
    BY <2>1, CurrentProcess
  <2> HIDE DEF np
  <2>4. LifecycleParent' = LifecycleParent
    BY <2>1, <2>2 DEF LifecycleParent, IInv, TypeOK
  <2>5. Lifecycle!Claim(c, np)
    BY <2>1, <2>2, <2>3, <2>4 DEF Lifecycle!Claim, Lifecycle!Move
  <2> QED BY <2>2, <2>5 DEF Lifecycle!Next
<1>2. CASE forkFails(c) \/ forkCopies(c) \/ forkAdds(c)
  <2> DEFINE p == proc[c]
             np == child[p]
  <2>1. spc[c] = "busy" /\ kpc[p] \in {"forkcopy", "forkadd"} /\ proc' = proc
    BY <1>2 DEF forkFails, forkCopies, forkAdds, At, cpuVars
  <2>2. p \in Procs /\ p # NULL
    BY <2>1, CurrentProcess
  <2>3. /\ np \in Procs /\ state[np] = "EMBRYO"
        /\ parent[np] = IF kpc[p] = "forkcopy" THEN NULL ELSE p
    BY <2>1, <2>2 DEF IInv, ForkOwnsChild
  <2>4. LifecycleParent[np] = parent[np]
    BY <2>3 DEF LifecycleParent
  <2>5. CASE forkFails(c)
    <3>1. /\ kpc[p] = "forkcopy" /\ state' = [state EXCEPT ![np] = "UNUSED"]
          /\ parent' = parent
      BY <2>5 DEF forkFails, At
    <3> HIDE DEF np
    <3>2. LifecycleParent' = LifecycleParent
      BY <2>3, <3>1 DEF LifecycleParent, IInv, TypeOK
    <3>3. Lifecycle!Abandon(c, np)
      BY <2>1, <2>2, <2>3, <2>4, <3>1, <3>2 DEF Lifecycle!Abandon, Lifecycle!Move
    <3> QED BY <2>3, <3>3 DEF Lifecycle!Next
  <2>6. CASE forkCopies(c)
    <3>1. /\ kpc[p] = "forkcopy" /\ parent' = [parent EXCEPT ![np] = p] /\ state' = state
      BY <2>6 DEF forkCopies, At
    <3> HIDE DEF np
    <3>2. LifecycleParent' = [LifecycleParent EXCEPT ![np] = p]
      BY <2>3, <3>1 DEF LifecycleParent, IInv, TypeOK
    <3>3. Lifecycle!Own(c, np)
      BY <2>1, <2>2, <2>3, <2>4, <3>1, <3>2 DEF Lifecycle!Own
    <3> QED BY <2>3, <3>3 DEF Lifecycle!Next
  <2>7. CASE forkAdds(c)
    <3>1. /\ kpc[p] = "forkadd" /\ state' = [state EXCEPT ![np] = "RUNNABLE"]
          /\ parent' = parent
      BY <2>7 DEF forkAdds, At
    <3> HIDE DEF np
    <3>2. LifecycleParent' = LifecycleParent
      BY <2>3, <3>1 DEF LifecycleParent, IInv, TypeOK
    <3>3. Lifecycle!Publish(c, np)
      BY <2>1, <2>2, <2>3, <2>4, <3>1, <3>2 DEF Lifecycle!Publish, Lifecycle!Move
    <3> QED BY <2>3, <3>3 DEF Lifecycle!Next
  <2> QED BY <1>2, <2>5, <2>6, <2>7
<1> QED BY <1>1, <1>2

\* exit() wakes, hands over and dies in one critical section.
LEMMA ExitRefines == ASSUME IInv, NEW c \in CPUs, exit(c) PROVE Lifecycle!Next
<1> DEFINE p == proc[c]
           S == ToldOfExit(p)
<1>1. /\ spc[c] = "busy" /\ p # InitProc /\ SwitchToScheduler(c)
      /\ state' = [ExitWakes(p) EXCEPT ![p] = "ZOMBIE"]
      /\ parent' = [q \in Procs |-> IF parent[q] = p THEN InitProc ELSE parent[q]]
  BY DEF exit, At
<1>2. p \in Procs /\ p # NULL /\ state[p] = "RUNNING"
  BY <1>1, CurrentProcess
<1>3. S \in SUBSET Procs /\ \A q \in S : state[q] = "SLEEPING"
  BY DEF ToldOfExit
<1> HIDE DEF p, S
<1>4. state' = [q \in Procs |-> IF q = p THEN "ZOMBIE"
                                ELSE IF q \in S THEN "RUNNABLE" ELSE state[q]]
  <2>1. state' = [q \in Procs |-> state'[q]]
    BY <1>1 DEF ExitWakes, wakeup1
  <2>2. \A q \in Procs : state'[q] = IF q = p THEN "ZOMBIE"
                                     ELSE IF q \in S THEN "RUNNABLE" ELSE state[q]
    BY <1>1, <1>2, ExitStates DEF S
  <2> QED BY <2>1, <2>2
<1>5. LifecycleParent' = [q \in Procs |-> IF LifecycleParent[q] = p THEN InitProc
                                          ELSE LifecycleParent[q]]
  <2>1. \A q \in Procs : state'[q] = "UNUSED" <=> state[q] = "UNUSED"
    BY <1>2, <1>3, <1>4
  <2> QED BY <1>1, <1>2, <2>1 DEF LifecycleParent
<1>6. Lifecycle!Die(c, S)
  BY <1>1, <1>2, <1>3, <1>4, <1>5 DEF Lifecycle!Die, SwitchToScheduler, p
<1> QED BY <1>3, <1>6 DEF Lifecycle!Next

\* The freed slot keeps its parent, and the abstract specification does not look at it.
LEMMA ReapRefines == ASSUME IInv, NEW c \in CPUs, waitReaps(c) PROVE Lifecycle!Next
<1> DEFINE p == proc[c]
           z == Min(Zombies(p))
<1>1. /\ spc[c] = "busy" /\ Zombies(p) # {} /\ state' = [state EXCEPT ![z] = "UNUSED"]
      /\ UNCHANGED <<parent, proc>>
  BY DEF waitReaps, InWait, At, cpuVars
<1>2. p # NULL
  BY <1>1, CurrentProcess
<1>3. z \in Procs /\ state[z] = "ZOMBIE" /\ parent[z] = p
  BY <1>1, ReapedIsChild
<1> HIDE DEF z
<1>4. LifecycleParent' = [LifecycleParent EXCEPT ![z] = NULL] /\ LifecycleParent[z] = p
  BY <1>1, <1>3 DEF LifecycleParent, IInv, TypeOK
<1>5. Lifecycle!Reap(c, z)
  BY <1>1, <1>2, <1>3, <1>4 DEF Lifecycle!Reap, Lifecycle!Move
<1> QED BY <1>3, <1>5 DEF Lifecycle!Next

LEMMA RunRefines == ASSUME IInv, NEW c \in CPUs, run(c) PROVE Lifecycle!Next
<1> DEFINE p == Min(Ahead(c))
<1>1. /\ spc[c] = "walk" /\ Ahead(c) # {} /\ proc' = [proc EXCEPT ![c] = p]
      /\ state' = [state EXCEPT ![p] = "RUNNING"] /\ parent' = parent
  BY DEF run
<1>2. p \in Procs /\ state[p] = "RUNNABLE"
  <2>1. p \in Ahead(c)
    BY <1>1, ScanFinds DEF Ahead
  <2> QED BY <2>1 DEF Ahead
<1>3. proc[c] = NULL
  BY <1>1 DEF IInv, RunsOnce
<1> HIDE DEF p
<1>4. LifecycleParent' = LifecycleParent
  <2>1. \A q \in Procs : state'[q] = "UNUSED" <=> state[q] = "UNUSED"
    BY <1>1, <1>2 DEF IInv, TypeOK
  <2> QED BY <1>1, <2>1, ParentsUnseen
<1>5. Lifecycle!Dispatch(c, p)
  BY <1>1, <1>2, <1>3, <1>4 DEF Lifecycle!Dispatch, Lifecycle!Move
<1> QED BY <1>2, <1>5 DEF Lifecycle!Next

LEMMA KillRefines ==
  ASSUME IInv, NEW c \in CPUs, NEW n, kill(c, n)
  PROVE  Lifecycle!Next
<1> DEFINE found == {q \in Procs : pid[q] = n}
           v == Min(found)
<1>1. /\ found # {} /\ UNCHANGED <<parent, proc>>
      /\ state' = [state EXCEPT ![v] = IF state[v] = "SLEEPING" THEN "RUNNABLE" ELSE state[v]]
  BY DEF kill, cpuVars
<1>2. v \in Procs
  BY <1>1, ScanFinds
<1> HIDE DEF v
<1> DEFINE S == {q \in {v} : state[q] = "SLEEPING"}
<1>3. S \in SUBSET Procs /\ \A q \in S : state[q] = "SLEEPING"
  BY <1>2
<1>4. state' = [q \in Procs |-> IF q \in S THEN "RUNNABLE" ELSE state[q]]
  BY <1>1, <1>2 DEF IInv, TypeOK
<1> HIDE DEF S
<1> QED BY <1>1, <1>3, <1>4, WakeRefines DEF IInv

LEMMA StepRefines == IInv /\ [Next]_vars => [Lifecycle!Next]_(Lifecycle!vars)
<1> SUFFICES ASSUME IInv, [Next]_vars PROVE [Lifecycle!Next]_(Lifecycle!vars)
  OBVIOUS
<1> USE DEF Lifecycle!vars
<1>1. ASSUME UNCHANGED <<state, parent, proc>> PROVE [Lifecycle!Next]_(Lifecycle!vars)
  BY <1>1 DEF LifecycleParent
<1>2. ASSUME NEW c \in CPUs, Trap(c) \/ yield(c) \/ Syscall(c) \/ Scheduler(c)
      PROVE  [Lifecycle!Next]_(Lifecycle!vars)
  <2>1. CASE Trap(c) \/ sysReturns(c) \/ sys_exit(c) \/ waitFails(c) \/ initExits(c)
    BY <1>1, <2>1 DEF Trap, sysReturns, sys_exit, waitFails, initExits, cpuVars
  <2>2. CASE walkStarts(c) \/ walkEnds(c)
    BY <1>1, <2>2 DEF walkStarts, walkEnds
  <2>3. CASE yield(c)
    BY <2>3, LeaveRefines DEF yield
  <2>4. CASE waitSleeps(c) \/ \E ch \in Chans : sleep(c, ch)
    <3>1. /\ spc[c] = "busy" /\ state' = [state EXCEPT ![proc[c]] = "SLEEPING"]
          /\ SwitchToScheduler(c) /\ parent' = parent
      BY <2>4 DEF waitSleeps, InWait, sleep, SleepOn, At
    <3> QED BY <3>1, LeaveRefines
  <2>5. CASE allocproc(c) \/ forkFails(c) \/ forkCopies(c) \/ forkAdds(c)
    BY <2>5, ForkRefines
  <2>6. CASE \E n \in PidArgs : kill(c, n)
    BY <2>6, KillRefines
  <2>7. CASE exit(c) \/ waitReaps(c) \/ run(c)
    BY <2>7, ExitRefines, ReapRefines, RunRefines
  <2> QED BY <1>2, <2>1, <2>2, <2>3, <2>4, <2>5, <2>6, <2>7 DEF Syscall, Scheduler, wait
<1>3. ASSUME NEW ch \in Chans, wakeup(ch) PROVE [Lifecycle!Next]_(Lifecycle!vars)
  <2> DEFINE S == {q \in Procs : state[q] = "SLEEPING" /\ chan[q] = ch}
  <2>1. /\ S \in SUBSET Procs /\ \A q \in S : state[q] = "SLEEPING"
        /\ state' = [q \in Procs |-> IF q \in S THEN "RUNNABLE" ELSE state[q]]
        /\ UNCHANGED <<parent, proc>>
    BY <1>3 DEF wakeup, wakeup1, cpuVars
  <2> HIDE DEF S
  <2> QED BY <2>1, WakeRefines DEF IInv
<1>4. CASE UNCHANGED vars
  BY <1>1, <1>4 DEF vars, cpuVars
<1> QED BY <1>2, <1>3, <1>4 DEF Next

\* Every behaviour of the round-robin kernel is a life of processes: fork, exit, wait, kill and
\* the schedulers move them from state to state only as ProcLifecycle allows.
THEOREM LifecycleImplemented == Spec => RefinesLifecycle
<1>1. Init => Lifecycle!Init
  BY LifecycleInit
<1>2. IInv /\ [Next]_vars => [Lifecycle!Next]_(Lifecycle!vars)
  BY StepRefines
<1> QED BY <1>1, <1>2, IInvHolds, PTL DEF Spec, RefinesLifecycle, Lifecycle!Spec
===============================================================================
