-------------------------- MODULE LotterySchedProofs --------------------------
(***************************************************************************)
(* Safety of process management in the lottery kernel, for every number of *)
(* processes and CPUs: IInv is inductive, and each safety invariant that   *)
(* the runs check on small instances is one of its conjuncts.  First, what *)
(* rq_init, rq_add and rq_remove of lottery-scheduler/runqueue.c do to a   *)
(* well-formed queue; last, that nobody is orphaned or overslept, and that *)
(* the kernel implements the life of a process that ProcLifecycle states.  *)
(***************************************************************************)
EXTENDS LotterySched, WellFoundedInduction, TLAPS, FiniteSetTheorems

-------------------------------------------------------------------------------
(* The run queues, for every capacity and every number of processes. *)

\* A scan of a table returns the first slot of those that it looks for.
LEMMA FirstIsMember ==
  ASSUME NEW S \in SUBSET Nat, S # {}
  PROVE  Min(S) \in S /\ \A y \in S : Min(S) <= y
<1> DEFINE R == OpToRel(<, Nat)
<1>1. IsWellFoundedOn(R, Nat)
  BY NatLessThanWellFounded, Zenon
<1>2. \A x, y \in Nat : y < x => <<y, x>> \in R
  BY Zenon DEF OpToRel
<1> HIDE DEF R
<1>3. PICK x \in S : \A y \in S : ~ (<<y, x>> \in R)
  BY <1>1, WFMin
<1>4. \A y \in S : ~ (y < x)
  BY <1>2, <1>3, Zenon
<1>5. \E z \in S : \A y \in S : z <= y
  BY <1>4
<1> QED BY <1>5 DEF Min

\* rq_init makes an empty, well-formed queue.
LEMMA InitQueue == WellFormed(rq_init) /\ Members(rq_init) = {}
BY SizesAssumption DEF WellFormed, Members, rq_init, Runqueues, Slots, Procs, NULL

\* The array is compact, so the first empty slot is the one after the last process.
LEMMA FirstEmptySlot ==
  ASSUME NEW q, WellFormed(q), q.count < MAX_PROCS
  PROVE  /\ q.count \in Slots
         /\ \E i \in Slots : q.procs[i] = NULL
         /\ FirstSlot(q, NULL) = q.count
<1>1. q.count \in Slots /\ q.procs[q.count] = NULL
  BY SizesAssumption DEF WellFormed, Runqueues, Slots
<1>2. \A j \in Slots : j < q.count => q.procs[j] # NULL
  BY DEF WellFormed
<1>3. \A i \in Slots : (/\ q.procs[i] = NULL
                        /\ \A j \in Slots : j < i => q.procs[j] # NULL) => i = q.count
  <2> SUFFICES ASSUME NEW i \in Slots, q.procs[i] = NULL,
                      \A j \in Slots : j < i => q.procs[j] # NULL
               PROVE  i = q.count
    OBVIOUS
  <2>1. ~ (i < q.count)
    BY <1>2
  <2>2. ~ (q.count < i)
    BY <1>1
  <2> QED BY <1>1, <2>1, <2>2, SizesAssumption DEF Slots
<1> QED BY <1>1, <1>2, <1>3 DEF FirstSlot

\* rq_add puts a new process into a queue with room and disturbs nobody.
LEMMA AddToQueue ==
  ASSUME NEW q, WellFormed(q), q.count < MAX_PROCS,
         NEW p \in Procs, p \notin Members(q)
  PROVE  /\ WellFormed(rq_add(q, p))
         /\ Members(rq_add(q, p)) = Members(q) \cup {p}
<1> DEFINE r == rq_add(q, p)
<1>1. r = [procs |-> [q.procs EXCEPT ![q.count] = p], count |-> q.count + 1]
  BY FirstEmptySlot DEF rq_add
<1>2. q.procs \in [Slots -> Procs \cup {NULL}] /\ q.count \in 0 .. MAX_PROCS
  BY DEF WellFormed, Runqueues
<1>3. q.count \in Slots
  BY FirstEmptySlot
<1>4. p # NULL
  BY SizesAssumption DEF Procs, NULL
<1>5. \A i \in Slots : r.procs[i] = IF i = q.count THEN p ELSE q.procs[i]
  BY <1>1, <1>2, <1>3
<1>6. r.count = q.count + 1 /\ r.count \in 0 .. MAX_PROCS
  BY <1>1, <1>2, SizesAssumption
<1>7. r \in Runqueues
  BY <1>1, <1>2, <1>3, <1>6 DEF Runqueues
<1>8. \A i \in Slots : q.procs[i] # p
  BY DEF Members
<1> HIDE DEF r
<1>9. \A i \in Slots : r.procs[i] # NULL <=> i < r.count
  BY <1>2, <1>3, <1>4, <1>5, <1>6, SizesAssumption, SMTT(30) DEF WellFormed, Slots
<1>10. \A i, j \in Slots : r.procs[i] # NULL /\ r.procs[i] = r.procs[j] => i = j
  BY <1>4, <1>5, <1>8 DEF WellFormed
<1>11. WellFormed(r)
  BY <1>6, <1>7, <1>9, <1>10 DEF WellFormed
<1>12. Members(r) = Members(q) \cup {p}
  <2>1. q.procs[q.count] = NULL
    BY <1>3, <1>2 DEF WellFormed, Slots
  <2>2. NULL \notin Procs
    BY SizesAssumption DEF Procs, NULL
  <2>3. ASSUME NEW x \in Procs
        PROVE  (\E i \in Slots : r.procs[i] = x) <=> x = p \/ \E i \in Slots : q.procs[i] = x
    BY <1>3, <1>5, <2>1, <2>2
  <2> QED BY <2>3 DEF Members
<1> QED BY <1>11, <1>12 DEF r

\* Taking out a process that is in no slot changes nothing: the scan of rq_remove
\* runs to the end and returns.
LEMMA RemoveAbsent ==
  ASSUME NEW q, NEW p \in Procs, p \notin Members(q)
  PROVE  rq_remove(q, p) = q
BY DEF rq_remove, Members

\* rq_remove takes the process out, wherever it is, and disturbs nobody.
LEMMA RemoveFromQueue ==
  ASSUME NEW q, WellFormed(q), NEW p \in Procs
  PROVE  /\ WellFormed(rq_remove(q, p))
         /\ Members(rq_remove(q, p)) = Members(q) \ {p}
<1>1. CASE p \notin Members(q)
  BY <1>1, RemoveAbsent
<1>2. CASE p \in Members(q)
  <2> DEFINE r == rq_remove(q, p)
  <2> DEFINE last == q.count - 1
  <2>1. PICK k \in Slots : q.procs[k] = p
    BY <1>2 DEF Members
  <2>2. p # NULL /\ NULL \notin Procs
    BY SizesAssumption DEF Procs, NULL
  <2>3. \A i \in Slots : q.procs[i] = p => i = k
    BY <2>1, <2>2 DEF WellFormed
  <2>4. FirstSlot(q, p) = k
    <3>1. \A j \in Slots : j < k => q.procs[j] # p
      BY <2>3, SizesAssumption DEF Slots
    <3> QED BY <2>1, <2>3, <3>1 DEF FirstSlot
  <2>5. q.procs \in [Slots -> Procs \cup {NULL}] /\ q.count \in 0 .. MAX_PROCS
    BY DEF WellFormed, Runqueues
  <2>6. k < q.count /\ last \in Slots /\ q.procs[last] # NULL
    BY <2>1, <2>2, <2>5, SizesAssumption DEF WellFormed, Slots
  <2>7. r = [procs |-> [[q.procs EXCEPT ![k] = q.procs[last]] EXCEPT ![last] = NULL],
             count |-> last]
    BY <2>1, <2>4 DEF rq_remove
  <2>8. \A i \in Slots : r.procs[i] = IF i = last THEN NULL
                                      ELSE IF i = k THEN q.procs[last] ELSE q.procs[i]
    BY <2>5, <2>6, <2>7
  <2>9. r.count = last /\ r \in Runqueues /\ r.count \in 0 .. MAX_PROCS
    BY <2>5, <2>6, <2>7, SizesAssumption, SMTT(30) DEF Runqueues, Slots
  <2> HIDE DEF r
  <2>10. \A i \in Slots : r.procs[i] # NULL <=> i < r.count
    <3> TAKE i \in Slots
    <3>1. q.procs[i] # NULL <=> i < q.count
      BY DEF WellFormed
    <3> QED BY <2>5, <2>6, <2>8, <2>9, <3>1, SizesAssumption, SMTT(30) DEF Slots
  <2>11. \A i, j \in Slots : r.procs[i] # NULL /\ r.procs[i] = r.procs[j] => i = j
    BY <2>6, <2>8 DEF WellFormed
  <2>12. WellFormed(r)
    BY <2>9, <2>10, <2>11 DEF WellFormed
  <2>13. ASSUME NEW x \in Procs
         PROVE  (\E i \in Slots : r.procs[i] = x) <=>
                x # p /\ \E i \in Slots : q.procs[i] = x
    <3>1. ASSUME NEW i \in Slots, r.procs[i] = x
          PROVE  x # p /\ \E j \in Slots : q.procs[j] = x
      <4>1. i # last /\ (IF i = k THEN q.procs[last] = x ELSE q.procs[i] = x)
        BY <3>1, <2>2, <2>8
      <4>2. CASE i = k
        BY <4>1, <4>2, <2>3, <2>6
      <4>3. CASE i # k
        BY <4>1, <4>3, <2>3
      <4> QED BY <4>2, <4>3
    <3>2. ASSUME x # p, NEW i \in Slots, q.procs[i] = x
          PROVE  \E j \in Slots : r.procs[j] = x
      <4>1. i # k
        BY <3>2, <2>1
      <4>2. CASE i = last
        BY <4>1, <4>2, <3>2, <2>8
      <4>3. CASE i # last
        BY <4>1, <4>3, <3>2, <2>8
      <4> QED BY <4>2, <4>3
    <3> QED BY <3>1, <3>2
  <2>14. Members(r) = Members(q) \ {p}
    BY <2>13 DEF Members
  <2> QED BY <2>12, <2>14 DEF r
<1> QED BY <1>1, <1>2

\* A queue that lacks some process has room for it: the "runqueue full" panic of
\* rq_add is out of reach while no process is added twice.
LEMMA RoomInQueue ==
  ASSUME NEW q, WellFormed(q), NEW p \in Procs, p \notin Members(q)
  PROVE  q.count < MAX_PROCS
<1> SUFFICES ASSUME q.count = MAX_PROCS PROVE FALSE
  BY SizesAssumption DEF WellFormed, Runqueues
<1> DEFINE T == Procs \ {p}
<1>1. \A i \in Slots : q.procs[i] \in T
  BY SizesAssumption DEF WellFormed, Runqueues, Slots, Members
<1>2. q.procs \in [Slots -> T]
  BY <1>1 DEF WellFormed, Runqueues
<1>3. IsFiniteSet(Slots) /\ Cardinality(Slots) = MAX_PROCS
  BY FS_Interval, SizesAssumption DEF Slots
<1>4. IsFiniteSet(Procs) /\ Cardinality(Procs) = NPROC
  BY FS_Interval, SizesAssumption DEF Procs
<1>5. IsFiniteSet(T) /\ Cardinality(T) < Cardinality(Slots)
  <2>1. /\ IsFiniteSet(Procs \ {p})
        /\ Cardinality(Procs \ {p}) = IF p \in Procs THEN Cardinality(Procs) - 1
                                      ELSE Cardinality(Procs)
    BY <1>4, FS_RemoveElement, Zenon
  <2> QED BY <1>3, <1>4, <2>1, SizesAssumption
<1>6. \E i, j \in Slots : i # j /\ q.procs[i] = q.procs[j]
  <2> HIDE DEF T
  <2> QED BY <1>2, <1>3, <1>5, FS_PigeonHole
<1>7. \A i \in Slots : q.procs[i] # NULL
  BY <1>1, SizesAssumption DEF Procs, NULL
<1> QED BY <1>6, <1>7 DEF WellFormed
-------------------------------------------------------------------------------
(* Facts that several actions need. *)

\* A scan of the table that finds a slot returns one of those it looks for.
LEMMA MinIsMember ==
  ASSUME NEW S \in SUBSET Procs, S # {}
  PROVE  Min(S) \in S
<1>1. S \in SUBSET Nat
  BY SizesAssumption DEF Procs
<1> QED BY <1>1, FirstIsMember

\* The current process of a CPU is RUNNING there, nowhere else, and in no queue.
LEMMA CurrentProcess ==
  ASSUME IInv, NEW c \in CPUs, spc[c] = "busy"
  PROVE  /\ proc[c] \in Procs /\ proc[c] # NULL
         /\ state[proc[c]] = "RUNNING"
         /\ cpu[proc[c]] = c
         /\ \A d \in CPUs : proc[d] = proc[c] => d = c
         /\ \A d \in CPUs : proc[c] \notin Members(rq[d])
<1>1. proc[c] \in Procs /\ proc[c] # NULL
  BY DEF IInv, TypeOK, SchedMatchesProc
<1>2. state[proc[c]] = "RUNNING" /\ cpu[proc[c]] = c
  BY <1>1 DEF IInv, CpuMatchesState
<1>3. \A d \in CPUs : proc[d] = proc[c] => d = c
  BY <1>1, <1>2 DEF IInv, CpuMatchesState
<1>4. \A d \in CPUs : proc[c] \notin Members(rq[d])
  BY <1>1, <1>2 DEF IInv, QueueMatchesState
<1> QED BY <1>1, <1>2, <1>3, <1>4

\* Queueing a process that is not RUNNABLE does not panic and adds it to one queue.
LEMMA EnqueueAdds ==
  ASSUME TypeOK, QueueMatchesState, panicked = "none",
         NEW p \in Procs, cpu[p] \in CPUs, state[p] # "RUNNABLE",
         Enqueue(p)
  PROVE  /\ panicked' = "none"
         /\ rq' \in [CPUs -> Runqueues]
         /\ \A c \in CPUs : WellFormed(rq'[c])
         /\ \A c \in CPUs : Members(rq'[c]) = IF c = cpu[p] THEN Members(rq[c]) \cup {p}
                                              ELSE Members(rq[c])
<1> DEFINE k == cpu[p]
<1>1. WellFormed(rq[k]) /\ p \notin Members(rq[k])
  BY DEF QueueMatchesState
<1>2. rq[k].count < MAX_PROCS
  BY <1>1, RoomInQueue
<1>3. ~ RqFull(rq[k])
  <2>1. rq[k].count \in Int
    BY <1>1, SizesAssumption DEF WellFormed, Runqueues
  <2> QED BY <1>2, <2>1, SizesAssumption DEF RqFull
<1>4. panicked' = "none" /\ rq' = [rq EXCEPT ![k] = rq_add(rq[k], p)]
  BY <1>3 DEF Enqueue
<1>5. /\ WellFormed(rq_add(rq[k], p))
      /\ Members(rq_add(rq[k], p)) = Members(rq[k]) \cup {p}
  <2> HIDE DEF k
  <2> QED BY <1>1, <1>2, AddToQueue
<1>6. rq \in [CPUs -> Runqueues]
  BY DEF TypeOK
<1>7. \A c \in CPUs : rq'[c] = IF c = k THEN rq_add(rq[k], p) ELSE rq[c]
  BY <1>4, <1>6
<1>8. \A c \in CPUs : WellFormed(rq'[c])
  BY <1>5, <1>7 DEF QueueMatchesState
<1>9. rq' \in [CPUs -> Runqueues]
  BY <1>4, <1>6, <1>5 DEF WellFormed
<1> QED BY <1>4, <1>5, <1>7, <1>8, <1>9

\* Dequeueing a process that is not RUNNABLE changes no queue's members.
LEMMA DequeueKeeps ==
  ASSUME TypeOK, QueueMatchesState,
         NEW p \in Procs, cpu[p] \in CPUs, state[p] # "RUNNABLE",
         Dequeue(p)
  PROVE  /\ panicked' = panicked
         /\ rq' \in [CPUs -> Runqueues]
         /\ \A c \in CPUs : WellFormed(rq'[c])
         /\ \A c \in CPUs : Members(rq'[c]) = Members(rq[c])
<1> DEFINE k == cpu[p]
<1>1. WellFormed(rq[k]) /\ p \notin Members(rq[k])
  BY DEF QueueMatchesState
<1>2. panicked' = panicked /\ rq' = [rq EXCEPT ![k] = rq_remove(rq[k], p)]
  BY DEF Dequeue
<1>3. /\ WellFormed(rq_remove(rq[k], p))
      /\ Members(rq_remove(rq[k], p)) = Members(rq[k])
  <2> HIDE DEF k
  <2>1. rq_remove(rq[k], p) = rq[k]
    BY <1>1, RemoveAbsent
  <2> QED BY <1>1, <2>1
<1>4. rq \in [CPUs -> Runqueues]
  BY DEF TypeOK
<1>5. \A c \in CPUs : rq'[c] = IF c = k THEN rq_remove(rq[k], p) ELSE rq[c]
  BY <1>2, <1>4
<1>6. \A c \in CPUs : WellFormed(rq'[c])
  BY <1>3, <1>5 DEF QueueMatchesState
<1>7. rq' \in [CPUs -> Runqueues]
  BY <1>2, <1>3, <1>4 DEF WellFormed
<1> QED BY <1>2, <1>3, <1>5, <1>6, <1>7

\* Init
LEMMA InitInv == Init => IInv
<1> SUFFICES ASSUME Init PROVE IInv
  OBVIOUS
<1> USE SizesAssumption, SchedAssumption
<1>1. InitProc \in Procs /\ NULL \notin Procs /\ 0 \in CPUs
  BY DEF InitProc, Procs, NULL, CPUs
<1> DEFINE first == rq_add(rq_init, InitProc)
<1>2. /\ WellFormed(rq_init) /\ Members(rq_init) = {}
      /\ WellFormed(first) /\ Members(first) = {InitProc}
  <2>1. rq_init.count < MAX_PROCS
    BY DEF rq_init
  <2> QED BY <1>1, <2>1, InitQueue, AddToQueue
<1> HIDE DEF first
<1>3. \A c \in CPUs : rq[c] = IF c = 0 THEN first ELSE rq_init
  BY DEF Init, first
<1>4. rq \in [CPUs -> Runqueues]
  BY <1>2 DEF Init, first, WellFormed
<1>5. TypeOK
  BY <1>1, <1>4 DEF Init, TypeOK, ProcStates, KernelPoints, SchedPoints, LockPoints, Panics, NoCpu
<1>6. QueueMatchesState
  <2>1. \A c \in CPUs : WellFormed(rq[c])
    BY <1>2, <1>3
  <2>2. \A p \in Procs, c \in CPUs : p \in Members(rq[c]) <=> p = InitProc /\ c = 0
    BY <1>2, <1>3
  <2>3. \A p \in Procs, c \in CPUs : (state[p] = "RUNNABLE" /\ cpu[p] = c) <=> p = InitProc /\ c = 0
    BY DEF Init, CPUs
  <2> QED BY <2>1, <2>2, <2>3 DEF QueueMatchesState
<1>7. CpuMatchesState /\ SelectionStaysValid /\ NoPanic /\ SchedMatchesProc
  BY <1>1 DEF Init, CpuMatchesState, SelectionStaysValid, NoPanic, SchedMatchesProc
<1>8. LockDiscipline /\ ForkOwnsChild
  BY DEF Init, LockDiscipline, ForkOwnsChild
<1>9. StartedProcesses
  BY <1>1 DEF Init, StartedProcesses
<1> QED BY <1>5, <1>6, <1>7, <1>8, <1>9 DEF IInv

-------------------------------------------------------------------------------
(* One lemma per kind of step. *)

\* A step of the current process that changes nothing but its own program point,
\* and data that no other conjunct of the invariant reads.
LEMMA MovePreserves ==
  ASSUME IInv, TypeOK', NEW c \in CPUs, spc[c] = "busy", csCpu # c \/ cs = "free",
         NEW x \in KernelPoints \ {"zombie"}, Goto(proc[c], x),
         x \in {"forkcopy", "forkadd"} => kpc[proc[c]] \in {"forkcopy", "forkadd"},
         UNCHANGED <<state, cpu, child, rq, schedVars, lockVars, panicked>>
  PROVE  IInv'
<1> USE DEF schedVars, lockVars
<1> DEFINE p == proc[c]
<1>1. /\ p \in Procs /\ p # NULL
      /\ \A d \in CPUs : proc[d] = p => d = c
  BY CurrentProcess
<1>2. \A q \in Procs : kpc'[q] = IF q = p THEN x ELSE kpc[q]
  BY <1>1 DEF Goto, IInv, TypeOK
<1>3. QueueMatchesState' /\ SelectionStaysValid'
  BY DEF IInv, QueueMatchesState, SelectionStaysValid
<1>7. CpuMatchesState' /\ NoPanic' /\ SchedMatchesProc'
  BY DEF IInv, CpuMatchesState, NoPanic, SchedMatchesProc
<1>4. LockDiscipline'
  <2>1. cs \in {"wait", "exit", "exit2"} => proc[csCpu] \in Procs /\ proc[csCpu] # p
    BY <1>1 DEF IInv, LockDiscipline, SchedMatchesProc, TypeOK
  <2> QED BY <1>2, <2>1 DEF IInv, LockDiscipline
<1>5. StartedProcesses'
  BY <1>2 DEF IInv, StartedProcesses
<1>6. ForkOwnsChild'
  BY <1>2 DEF IInv, ForkOwnsChild
<1> QED BY <1>3, <1>4, <1>5, <1>6, <1>7 DEF IInv

\* The current process leaves its CPU: RUNNABLE and queued again, or in no queue.
LEMMA LeavePreserves ==
  ASSUME IInv, TypeOK', panicked' = panicked, NEW c \in CPUs, spc[c] = "busy",
         NEW to \in {"RUNNABLE", "SLEEPING", "ZOMBIE"},
         state' = [state EXCEPT ![proc[c]] = to],
         NEW x \in KernelPoints, Goto(proc[c], x),
         x = "zombie" => to = "ZOMBIE" \/ kpc[proc[c]] = "zombie",
         x \in {"forkcopy", "forkadd"} => kpc[proc[c]] \in {"forkcopy", "forkadd"},
         \A d \in CPUs : WellFormed(rq'[d]),
         \A d \in CPUs : Members(rq'[d]) = IF to = "RUNNABLE" /\ d = c
                                           THEN Members(rq[d]) \cup {proc[c]}
                                           ELSE Members(rq[d]),
         SwitchToScheduler(c), cs' = "free", wk' = {},
         UNCHANGED <<cpu, child>>
  PROVE  IInv'
<1> DEFINE p == proc[c]
<1>1. /\ p \in Procs /\ p # NULL /\ state[p] = "RUNNING" /\ cpu[p] = c
      /\ \A d \in CPUs : proc[d] = p => d = c
      /\ \A d \in CPUs : p \notin Members(rq[d])
  BY CurrentProcess
<1>2. \A q \in Procs : /\ kpc'[q] = IF q = p THEN x ELSE kpc[q]
                       /\ state'[q] = IF q = p THEN to ELSE state[q]
  BY <1>1 DEF Goto, IInv, TypeOK
<1>3. \A d \in CPUs : /\ proc'[d] = IF d = c THEN NULL ELSE proc[d]
                      /\ spc'[d] = IF d = c THEN "top" ELSE spc[d]
  BY DEF SwitchToScheduler, IInv, TypeOK
<1>4. sel' = sel /\ cpu' = cpu /\ child' = child
  BY DEF SwitchToScheduler
<1> HIDE DEF p
<1>5. QueueMatchesState'
  <2>1. \A q \in Procs, d \in CPUs :
          q \in Members(rq'[d]) <=> state'[q] = "RUNNABLE" /\ cpu'[q] = d
    <3> TAKE q \in Procs, d \in CPUs
    <3>1. q \in Members(rq[d]) <=> state[q] = "RUNNABLE" /\ cpu[q] = d
      BY DEF IInv, QueueMatchesState
    <3>2. CASE q = p
      BY <1>1, <1>2, <1>4, <3>2, ZenonT(60) DEF p
    <3>3. CASE q # p
      BY <1>2, <1>4, <3>1, <3>3 DEF p
    <3> QED BY <3>2, <3>3
  <2> QED BY <2>1 DEF QueueMatchesState
<1>6. CpuMatchesState'
  <2>1. \A q \in Procs : state'[q] = "RUNNING" <=> \E d \in CPUs : proc'[d] = q
    <3> SUFFICES ASSUME NEW q \in Procs
                 PROVE  state'[q] = "RUNNING" <=> \E d \in CPUs : proc'[d] = q
      OBVIOUS
    <3>1. CASE q = p
      BY <1>1, <1>2, <1>3, <3>1
    <3>2. CASE q # p
      <4>1. NULL \notin Procs
        BY SizesAssumption DEF NULL, Procs
      <4>2. \A d \in CPUs : proc'[d] = q <=> proc[d] = q
        BY <1>3, <3>2, <4>1 DEF p
      <4> QED BY <1>2, <3>2, <4>2 DEF IInv, CpuMatchesState
    <3> QED BY <3>1, <3>2
  <2>2. \A d \in CPUs : proc'[d] # NULL => cpu'[proc'[d]] = d
    BY <1>3, <1>4 DEF IInv, CpuMatchesState
  <2> QED BY <2>1, <2>2 DEF CpuMatchesState
<1>7. SelectionStaysValid'
  <2> SUFFICES ASSUME NEW d \in CPUs, spc'[d] = "run"
               PROVE  sel'[d] \in Members(rq'[d]) /\ state'[sel'[d]] = "RUNNABLE"
    BY DEF SelectionStaysValid
  <2>1. spc[d] = "run" /\ sel[d] \in Members(rq[d]) /\ state[sel[d]] = "RUNNABLE"
    BY <1>3 DEF IInv, SelectionStaysValid
  <2>2. sel[d] \in Procs
    BY <2>1 DEF Members
  <2> QED BY <1>1, <1>2, <1>4, <2>1, <2>2
<1>8. SchedMatchesProc' /\ NoPanic'
  BY <1>3 DEF IInv, SchedMatchesProc, NoPanic
<1>9. LockDiscipline'
  BY DEF LockDiscipline
<1>10. StartedProcesses'
  BY <1>1, <1>2, <1>4 DEF IInv, StartedProcesses, p
<1>11. ForkOwnsChild'
  BY <1>1, <1>2, <1>4 DEF IInv, ForkOwnsChild, p
<1> QED BY <1>5, <1>6, <1>7, <1>8, <1>9, <1>10, <1>11 DEF IInv

\* A step that only takes, keeps or gives back ptable_lock.
LEMMA LockStepPreserves ==
  ASSUME IInv, TypeOK', LockDiscipline', NoPanic',
         UNCHANGED <<state, cpu, kpc, child, rq, schedVars>>
  PROVE  IInv'
<1> USE DEF schedVars
<1>1. QueueMatchesState' /\ SelectionStaysValid'
  BY DEF IInv, QueueMatchesState, SelectionStaysValid
<1>2. CpuMatchesState' /\ SchedMatchesProc'
  BY DEF IInv, CpuMatchesState, SchedMatchesProc
<1>3. StartedProcesses' /\ ForkOwnsChild'
  BY DEF IInv, StartedProcesses, ForkOwnsChild
<1> QED BY <1>1, <1>2, <1>3 DEF IInv

\* A sleeper becomes RUNNABLE and is queued; its waker may move on in its system call.
LEMMA WakePreserves ==
  ASSUME IInv, TypeOK', LockDiscipline', panicked' = "none",
         NEW p \in Procs, state[p] = "SLEEPING",
         state' = [state EXCEPT ![p] = "RUNNABLE"],
         \A q \in Procs : kpc'[q] = kpc[q] \/ kpc'[q] = "user",
         \A d \in CPUs : WellFormed(rq'[d]),
         \A d \in CPUs : Members(rq'[d]) = IF d = cpu[p] THEN Members(rq[d]) \cup {p}
                                           ELSE Members(rq[d]),
         UNCHANGED <<cpu, child, schedVars>>
  PROVE  IInv'
<1> USE DEF schedVars
<1>1. \A q \in Procs : state'[q] = IF q = p THEN "RUNNABLE" ELSE state[q]
  BY DEF IInv, TypeOK
<1>2. QueueMatchesState'
  <2>1. \A q \in Procs, d \in CPUs :
          q \in Members(rq'[d]) <=> state'[q] = "RUNNABLE" /\ cpu'[q] = d
    <3> TAKE q \in Procs, d \in CPUs
    <3>1. q \in Members(rq[d]) <=> state[q] = "RUNNABLE" /\ cpu[q] = d
      BY DEF IInv, QueueMatchesState
    <3> QED BY <1>1, <3>1
  <2> QED BY <2>1 DEF QueueMatchesState
<1>3. CpuMatchesState'
  <2>1. \A q \in Procs : state'[q] = "RUNNING" <=> state[q] = "RUNNING"
    BY <1>1
  <2> QED BY <2>1 DEF IInv, CpuMatchesState
<1>7. SchedMatchesProc' /\ NoPanic'
  BY DEF IInv, SchedMatchesProc, NoPanic
<1>4. SelectionStaysValid'
  <2> SUFFICES ASSUME NEW d \in CPUs, spc'[d] = "run"
               PROVE  sel'[d] \in Members(rq'[d]) /\ state'[sel'[d]] = "RUNNABLE"
    BY DEF SelectionStaysValid
  <2>1. sel[d] \in Members(rq[d]) /\ state[sel[d]] = "RUNNABLE"
    BY DEF IInv, SelectionStaysValid
  <2>2. sel[d] \in Procs
    BY <2>1 DEF Members
  <2> QED BY <1>1, <2>1, <2>2
<1>5. StartedProcesses'
  BY <1>1 DEF IInv, StartedProcesses
<1>6. ForkOwnsChild'
  BY <1>1 DEF IInv, ForkOwnsChild
<1> QED BY <1>2, <1>3, <1>4, <1>5, <1>6, <1>7 DEF IInv

-------------------------------------------------------------------------------
(* One lemma per action. *)

LEMMA TrapStep == ASSUME IInv, NEW c \in CPUs, Trap(c) PROVE IInv'
<1>1. spc[c] = "busy" /\ csCpu # c
  BY DEF Trap, At
<1>2. proc[c] \in Procs
  BY <1>1, CurrentProcess
<1>3. PICK x \in {"exit", "sys"} : Goto(proc[c], x)
  BY DEF Trap
<1>4. TypeOK'
  BY <1>2, <1>3 DEF Trap, IInv, TypeOK, Goto, KernelPoints, schedVars, lockVars
<1>5. UNCHANGED <<state, cpu, child, rq, schedVars, lockVars, panicked>>
  BY DEF Trap
<1> QED BY <1>1, <1>3, <1>4, <1>5, MovePreserves DEF KernelPoints

LEMMA sysReturnsStep == ASSUME IInv, NEW c \in CPUs, sysReturns(c) PROVE IInv'
<1>1. spc[c] = "busy" /\ csCpu # c /\ Goto(proc[c], "user")
  BY DEF sysReturns, At
<1>2. proc[c] \in Procs
  BY <1>1, CurrentProcess
<1>3. TypeOK'
  BY <1>1, <1>2 DEF sysReturns, IInv, TypeOK, Goto, KernelPoints, procVars, schedVars, lockVars
<1>4. UNCHANGED <<state, cpu, child, rq, schedVars, lockVars, panicked>>
  BY DEF sysReturns, procVars
<1> QED BY <1>1, <1>3, <1>4, MovePreserves DEF KernelPoints

LEMMA sys_exitStep == ASSUME IInv, NEW c \in CPUs, sys_exit(c) PROVE IInv'
<1>1. spc[c] = "busy" /\ csCpu # c /\ Goto(proc[c], "exit")
  BY DEF sys_exit, At
<1>2. proc[c] \in Procs
  BY <1>1, CurrentProcess
<1>3. TypeOK'
  BY <1>1, <1>2 DEF sys_exit, IInv, TypeOK, Goto, KernelPoints, procVars, schedVars, lockVars
<1>4. UNCHANGED <<state, cpu, child, rq, schedVars, lockVars, panicked>>
  BY DEF sys_exit, procVars
<1> QED BY <1>1, <1>3, <1>4, MovePreserves DEF KernelPoints

LEMMA SetTicketsStep ==
  ASSUME IInv, NEW c \in CPUs, NEW p \in Procs, NEW t \in TicketArgs, SetTickets(c, p, t)
  PROVE  IInv'
<1>1. spc[c] = "busy" /\ cs = "free" /\ Goto(proc[c], "user")
  BY DEF SetTickets, At
<1>2. proc[c] \in Procs
  BY <1>1, CurrentProcess
<1>3. TypeOK'
  BY <1>1, <1>2, SchedAssumption
     DEF SetTickets, IInv, TypeOK, Goto, KernelPoints, schedVars, lockVars
<1>4. UNCHANGED <<state, cpu, child, rq, schedVars, lockVars, panicked>>
  BY DEF SetTickets
<1> QED BY <1>1, <1>3, <1>4, MovePreserves DEF KernelPoints

LEMMA forkCopiesStep == ASSUME IInv, NEW c \in CPUs, forkCopies(c) PROVE IInv'
<1>1. spc[c] = "busy" /\ csCpu # c /\ Goto(proc[c], "forkadd") /\ kpc[proc[c]] = "forkcopy"
  BY DEF forkCopies, At
<1>2. proc[c] \in Procs
  BY <1>1, CurrentProcess
<1>3. TypeOK'
  BY <1>1, <1>2 DEF forkCopies, IInv, TypeOK, Goto, KernelPoints, schedVars, lockVars
<1>4. UNCHANGED <<state, cpu, child, rq, schedVars, lockVars, panicked>>
  BY DEF forkCopies
<1> QED BY <1>1, <1>3, <1>4, MovePreserves DEF KernelPoints

LEMMA yieldStep ==
  ASSUME IInv, panicked = "none", NEW c \in CPUs, yield(c)
  PROVE  IInv'
<1> DEFINE p == proc[c]
<1>1. spc[c] = "busy" /\ cs = "free" /\ Enqueue(p) /\ SwitchToScheduler(c)
  BY DEF yield
<1>2. p \in Procs /\ state[p] = "RUNNING" /\ cpu[p] = c
  BY <1>1, CurrentProcess
<1>3. /\ panicked' = "none" /\ rq' \in [CPUs -> Runqueues]
      /\ \A d \in CPUs : WellFormed(rq'[d])
      /\ \A d \in CPUs : Members(rq'[d]) = IF d = c THEN Members(rq[d]) \cup {p}
                                            ELSE Members(rq[d])
  BY <1>1, <1>2, EnqueueAdds DEF IInv
<1>4. /\ UNCHANGED <<pid, parent, killed, chan, tickets, cpu, kpc, child, nextpid, lockVars>>
      /\ state' = [state EXCEPT ![p] = "RUNNABLE"]
  BY DEF yield
<1>5. TypeOK'
  BY <1>1, <1>2, <1>3, <1>4
     DEF IInv, TypeOK, SwitchToScheduler, ProcStates, SchedPoints, Panics, lockVars
<1>6. Goto(p, kpc[p]) /\ kpc[p] \in KernelPoints
  BY <1>2, <1>4 DEF Goto, IInv, TypeOK
<1>7. cs' = "free" /\ wk' = {}
  BY <1>1, <1>4 DEF IInv, LockDiscipline, lockVars
<1> HIDE DEF p
<1> QED BY <1>1, <1>3, <1>4, <1>5, <1>6, <1>7, LeavePreserves DEF p

LEMMA sleepStep ==
  ASSUME IInv, panicked = "none", NEW c \in CPUs, NEW ch \in Chans, sleep(c, ch)
  PROVE  IInv'
<1> DEFINE p == proc[c]
<1>1. spc[c] = "busy" /\ cs = "free" /\ Dequeue(p) /\ SwitchToScheduler(c) /\ Goto(p, "slept")
  BY DEF sleep, At
<1>2. p \in Procs /\ state[p] = "RUNNING" /\ cpu[p] = c
  BY <1>1, CurrentProcess
<1>3. /\ panicked' = panicked /\ rq' \in [CPUs -> Runqueues]
      /\ \A d \in CPUs : WellFormed(rq'[d])
      /\ \A d \in CPUs : Members(rq'[d]) = Members(rq[d])
  BY <1>1, <1>2, DequeueKeeps DEF IInv
<1>4. /\ UNCHANGED <<pid, parent, killed, tickets, cpu, child, nextpid, lockVars>>
      /\ state' = [state EXCEPT ![p] = "SLEEPING"]
      /\ chan' = [chan EXCEPT ![p] = ch]
  BY DEF sleep
<1>5. TypeOK'
  BY <1>1, <1>2, <1>3, <1>4
     DEF IInv, TypeOK, SwitchToScheduler, Goto, ProcStates, SchedPoints, KernelPoints, lockVars
<1>6. cs' = "free" /\ wk' = {}
  BY <1>1, <1>4 DEF IInv, LockDiscipline, lockVars
<1> HIDE DEF p
<1> QED BY <1>1, <1>3, <1>4, <1>5, <1>6, LeavePreserves DEF p, KernelPoints

LEMMA waitSleepsStep ==
  ASSUME IInv, panicked = "none", NEW c \in CPUs, waitSleeps(c)
  PROVE  IInv'
<1> DEFINE p == proc[c]
<1>1. /\ spc[c] = "busy" /\ cs \in {"free", "wait"}
      /\ Dequeue(p) /\ SwitchToScheduler(c) /\ Goto(p, "wait") /\ ReleaseTable
  BY DEF waitSleeps, InWait, At
<1>2. p \in Procs /\ state[p] = "RUNNING" /\ cpu[p] = c
  BY <1>1, CurrentProcess
<1>3. /\ panicked' = panicked /\ rq' \in [CPUs -> Runqueues]
      /\ \A d \in CPUs : WellFormed(rq'[d])
      /\ \A d \in CPUs : Members(rq'[d]) = Members(rq[d])
  BY <1>1, <1>2, DequeueKeeps DEF IInv
<1>4. /\ UNCHANGED <<pid, parent, killed, tickets, cpu, child, nextpid>>
      /\ state' = [state EXCEPT ![p] = "SLEEPING"]
      /\ chan' = [chan EXCEPT ![p] = p]
  BY DEF waitSleeps
<1>5. cs' = "free" /\ csCpu' = NoCpu /\ wk' = wk /\ wk = {}
  BY <1>1 DEF IInv, LockDiscipline, ReleaseTable
<1>6. TypeOK'
  BY <1>1, <1>2, <1>3, <1>4, <1>5
     DEF IInv, TypeOK, SwitchToScheduler, Goto, ProcStates, SchedPoints, KernelPoints, LockPoints
<1> HIDE DEF p
<1> QED BY <1>1, <1>3, <1>4, <1>5, <1>6, LeavePreserves DEF p, KernelPoints

LEMMA exitSchedStep == ASSUME IInv, panicked = "none", exitSched PROVE IInv'
<1> DEFINE c == csCpu
           p == proc[c]
<1>1. /\ cs = "exit2" /\ wk = {}
      /\ Dequeue(p) /\ SwitchToScheduler(c) /\ Goto(p, "zombie")
  BY DEF exitSched
<1>2. c \in CPUs /\ spc[c] = "busy"
  BY <1>1 DEF IInv, LockDiscipline
<1>3. p \in Procs /\ state[p] = "RUNNING" /\ cpu[p] = c
  BY <1>2, CurrentProcess
<1>4. /\ panicked' = panicked /\ rq' \in [CPUs -> Runqueues]
      /\ \A d \in CPUs : WellFormed(rq'[d])
      /\ \A d \in CPUs : Members(rq'[d]) = Members(rq[d])
  BY <1>1, <1>2, <1>3, DequeueKeeps DEF IInv
<1>5. /\ UNCHANGED <<pid, parent, killed, chan, tickets, cpu, child, nextpid>>
      /\ state' = [state EXCEPT ![p] = "ZOMBIE"]
      /\ cs' = "free" /\ csCpu' = NoCpu /\ wk' = wk
  BY DEF exitSched
<1>6. TypeOK'
  BY <1>1, <1>2, <1>3, <1>4, <1>5
     DEF IInv, TypeOK, SwitchToScheduler, Goto, ProcStates, SchedPoints, KernelPoints, LockPoints
<1> HIDE DEF p, c
<1> QED BY <1>1, <1>2, <1>4, <1>5, <1>6, LeavePreserves DEF p, KernelPoints

LEMMA wakeupStep == ASSUME IInv, NEW c \in CPUs, NEW ch, wakeup(c, ch) PROVE IInv'
<1>1. /\ cs' = "wakeup" /\ csCpu' = c /\ wk' = Sleepers(ch)
      /\ UNCHANGED <<procVars, kpc, child, nextpid, rq, schedVars, panicked>>
  BY DEF wakeup
<1>2. TypeOK'
  BY <1>1 DEF IInv, TypeOK, procVars, schedVars, LockPoints, Sleepers
<1>3. LockDiscipline' /\ NoPanic'
  BY <1>1 DEF IInv, LockDiscipline, NoPanic, Sleepers, procVars
<1>4. UNCHANGED <<state, cpu, kpc, child, rq, schedVars>>
  BY <1>1 DEF procVars
<1> QED BY <1>2, <1>3, <1>4, LockStepPreserves

LEMMA wakeupDoneStep == ASSUME IInv, wakeupDone PROVE IInv'
<1>1. /\ cs' = "free" /\ csCpu' = NoCpu /\ wk = {}
      /\ UNCHANGED <<procVars, kpc, child, nextpid, rq, schedVars, wk, panicked>>
  BY DEF wakeupDone
<1>2. TypeOK'
  BY <1>1 DEF IInv, TypeOK, procVars, schedVars, LockPoints
<1>3. LockDiscipline' /\ NoPanic'
  BY <1>1 DEF IInv, LockDiscipline, NoPanic
<1>4. UNCHANGED <<state, cpu, kpc, child, rq, schedVars>>
  BY <1>1 DEF procVars
<1> QED BY <1>2, <1>3, <1>4, LockStepPreserves

LEMMA exitWakesParentStep ==
  ASSUME IInv, NEW c \in CPUs, exitWakesParent(c)
  PROVE  IInv'
<1>1. /\ At(c, "exit") /\ cs = "free"
      /\ UNCHANGED <<procVars, kpc, child, nextpid, rq, schedVars>>
  BY DEF exitWakesParent
<1>2. UNCHANGED <<state, cpu, kpc, child, rq, schedVars>>
  BY <1>1 DEF procVars
<1>3. CASE panicked' = "init exiting" /\ UNCHANGED lockVars
  <2>1. TypeOK'
    BY <1>1, <1>3 DEF IInv, TypeOK, procVars, schedVars, lockVars, Panics
  <2>2. LockDiscipline' /\ NoPanic'
    BY <1>1, <1>3 DEF IInv, LockDiscipline, NoPanic, lockVars, procVars, schedVars
  <2> QED BY <1>2, <2>1, <2>2, LockStepPreserves
<1>4. CASE /\ cs' = "exit" /\ csCpu' = c /\ wk' = Sleepers(parent[proc[c]])
           /\ UNCHANGED panicked
  <2>1. TypeOK'
    BY <1>1, <1>4 DEF IInv, TypeOK, procVars, schedVars, LockPoints, Sleepers
  <2>2. LockDiscipline' /\ NoPanic'
    BY <1>1, <1>4 DEF IInv, LockDiscipline, NoPanic, Sleepers, procVars, schedVars, At
  <2> QED BY <1>2, <2>1, <2>2, LockStepPreserves
<1> QED BY <1>3, <1>4 DEF exitWakesParent

LEMMA exitReparentsStep == ASSUME IInv, exitReparents PROVE IInv'
<1>1. /\ cs = "exit" /\ cs' = "exit2"
      /\ parent' = [q \in Procs |-> IF parent[q] = proc[csCpu] THEN InitProc ELSE parent[q]]
      /\ wk' = IF Zombies(proc[csCpu]) # {} THEN Sleepers(InitProc) ELSE {}
      /\ UNCHANGED <<state, pid, killed, chan, tickets, cpu, kpc, child, nextpid, rq,
                     schedVars, csCpu, panicked>>
  BY DEF exitReparents
<1>2. InitProc \in Procs
  BY SizesAssumption DEF InitProc, Procs
<1>3. \A p \in wk' : p \in Procs /\ state[p] = "SLEEPING"
  BY <1>1 DEF Sleepers
<1>4. TypeOK'
  BY <1>1, <1>2, <1>3 DEF IInv, TypeOK, schedVars, LockPoints
<1>5. LockDiscipline' /\ NoPanic'
  BY <1>1, <1>3 DEF IInv, LockDiscipline, NoPanic, schedVars
<1>6. UNCHANGED <<state, cpu, kpc, child, rq, schedVars>>
  BY <1>1
<1> QED BY <1>4, <1>5, <1>6, LockStepPreserves

LEMMA wakeup1Step == ASSUME IInv, panicked = "none", wakeup1 PROVE IInv'
<1> DEFINE p == Min(wk)
<1>1. /\ wk # {} /\ Enqueue(p) /\ wk' = wk \ {p}
      /\ state' = [state EXCEPT ![p] = "RUNNABLE"]
      /\ UNCHANGED <<pid, parent, killed, chan, tickets, cpu, kpc, child, nextpid,
                     schedVars, cs, csCpu>>
  BY DEF wakeup1
<1>2. p \in wk /\ p \in Procs
  <2>1. wk \in SUBSET Procs
    BY DEF IInv, TypeOK
  <2> QED BY <1>1, <2>1, MinIsMember
<1> HIDE DEF p
<1>3. state[p] = "SLEEPING" /\ cpu[p] \in CPUs
  BY <1>2 DEF IInv, LockDiscipline, StartedProcesses
<1>4. /\ panicked' = "none" /\ rq' \in [CPUs -> Runqueues]
      /\ \A d \in CPUs : WellFormed(rq'[d])
      /\ \A d \in CPUs : Members(rq'[d]) = IF d = cpu[p] THEN Members(rq[d]) \cup {p}
                                            ELSE Members(rq[d])
  BY <1>1, <1>2, <1>3, EnqueueAdds DEF IInv
<1>5. TypeOK'
  BY <1>1, <1>2, <1>4 DEF IInv, TypeOK, ProcStates, Panics, schedVars
<1>6. LockDiscipline'
  <2>1. \A q \in wk' : state'[q] = "SLEEPING"
    BY <1>1, <1>2 DEF IInv, TypeOK, LockDiscipline
  <2> QED BY <1>1, <1>2, <2>1 DEF IInv, LockDiscipline, schedVars
<1> QED BY <1>1, <1>2, <1>3, <1>4, <1>5, <1>6, WakePreserves

LEMMA killStep ==
  ASSUME IInv, panicked = "none", NEW c \in CPUs, NEW n \in Nat, kill(c, n)
  PROVE  IInv'
<1> DEFINE found == {q \in Procs : pid[q] = n}
           q == Min(found)
<1>1. /\ spc[c] = "busy" /\ cs = "free" /\ found # {} /\ Goto(proc[c], "user")
      /\ killed' = [killed EXCEPT ![q] = TRUE]
      /\ UNCHANGED <<pid, parent, chan, tickets, cpu, child, nextpid, schedVars, lockVars>>
      /\ IF state[q] = "SLEEPING"
         THEN state' = [state EXCEPT ![q] = "RUNNABLE"] /\ Enqueue(q)
         ELSE UNCHANGED <<state, rq, panicked>>
  BY DEF kill, At
<1>2. q \in Procs
  BY <1>1, MinIsMember
<1>3. proc[c] \in Procs
  BY <1>1, CurrentProcess
<1> HIDE DEF q
<1>4. CASE state[q] # "SLEEPING"
  <2>1. UNCHANGED <<state, cpu, child, rq, schedVars, lockVars, panicked>>
    BY <1>1, <1>4
  <2>2. TypeOK'
    BY <1>1, <1>2, <1>3, <2>1 DEF IInv, TypeOK, Goto, KernelPoints, schedVars, lockVars
  <2> QED BY <1>1, <2>1, <2>2, MovePreserves DEF KernelPoints
<1>5. CASE state[q] = "SLEEPING"
  <2>1. cpu[q] \in CPUs
    BY <1>2, <1>5 DEF IInv, StartedProcesses
  <2>2. /\ panicked' = "none" /\ rq' \in [CPUs -> Runqueues]
        /\ \A d \in CPUs : WellFormed(rq'[d])
        /\ \A d \in CPUs : Members(rq'[d]) = IF d = cpu[q] THEN Members(rq[d]) \cup {q}
                                              ELSE Members(rq[d])
    BY <1>1, <1>2, <1>5, <2>1, EnqueueAdds DEF IInv
  <2>3. TypeOK'
    BY <1>1, <1>2, <1>3, <1>5, <2>2
       DEF IInv, TypeOK, Goto, KernelPoints, ProcStates, Panics, schedVars, lockVars
  <2>4. LockDiscipline'
    BY <1>1 DEF IInv, LockDiscipline, lockVars
  <2>5. \A r \in Procs : kpc'[r] = kpc[r] \/ kpc'[r] = "user"
    BY <1>1, <1>3 DEF Goto, IInv, TypeOK
  <2> QED BY <1>1, <1>2, <1>5, <2>2, <2>3, <2>4, <2>5, WakePreserves
<1> QED BY <1>4, <1>5

\* wait() leaves its critical section: the caller moves on to user space.
LEMMA waitFailsStep == ASSUME IInv, NEW c \in CPUs, waitFails(c) PROVE IInv'
<1>1. /\ spc[c] = "busy" /\ cs \in {"free", "wait"}
      /\ Goto(proc[c], "user") /\ ReleaseTable
      /\ UNCHANGED <<procVars, child, nextpid, rq, schedVars, panicked>>
  BY DEF waitFails, InWait, At
<1>2. proc[c] \in Procs
  BY <1>1, CurrentProcess
<1>3. TypeOK'
  BY <1>1, <1>2
     DEF IInv, TypeOK, Goto, ReleaseTable, KernelPoints, LockPoints, procVars, schedVars
<1>4. \A q \in Procs : kpc'[q] = IF q = proc[c] THEN "user" ELSE kpc[q]
  BY <1>1, <1>2 DEF Goto, IInv, TypeOK
<1>5. UNCHANGED <<state, cpu, child, rq, proc, spc, sel, panicked>>
  BY <1>1 DEF procVars, schedVars
<1>6. QueueMatchesState' /\ SelectionStaysValid'
  BY <1>5 DEF IInv, QueueMatchesState, SelectionStaysValid
<1>7. CpuMatchesState' /\ SchedMatchesProc' /\ NoPanic'
  BY <1>5 DEF IInv, CpuMatchesState, SchedMatchesProc, NoPanic
<1>8. LockDiscipline'
  BY <1>1 DEF IInv, LockDiscipline, ReleaseTable
<1>9. StartedProcesses' /\ ForkOwnsChild'
  BY <1>4, <1>5 DEF IInv, StartedProcesses, ForkOwnsChild
<1> QED BY <1>3, <1>6, <1>7, <1>8, <1>9 DEF IInv

LEMMA waitReapsStep ==
  ASSUME IInv, panicked = "none", NEW c \in CPUs, waitReaps(c)
  PROVE  IInv'
<1> DEFINE z == Min(Zombies(proc[c]))
<1>1. /\ spc[c] = "busy" /\ cs \in {"free", "wait"}
      /\ Zombies(proc[c]) # {}
      /\ Goto(proc[c], "user") /\ ReleaseTable /\ Dequeue(z)
      /\ pid' = [pid EXCEPT ![z] = 0] /\ parent' = [parent EXCEPT ![z] = NULL]
      /\ killed' = [killed EXCEPT ![z] = FALSE] /\ state' = [state EXCEPT ![z] = "UNUSED"]
      /\ UNCHANGED <<chan, tickets, cpu, child, nextpid, schedVars>>
  BY DEF waitReaps, InWait, At
<1>2. proc[c] \in Procs
  BY <1>1, CurrentProcess
<1>3. z \in Procs /\ state[z] = "ZOMBIE"
  <2>1. Zombies(proc[c]) \in SUBSET Procs
    BY DEF Zombies, Children
  <2>2. z \in Zombies(proc[c])
    BY <1>1, <2>1, MinIsMember
  <2> QED BY <2>2 DEF Zombies, Children
<1> HIDE DEF z
<1>4. cpu[z] \in CPUs
  BY <1>3 DEF IInv, StartedProcesses
<1>5. /\ panicked' = panicked /\ rq' \in [CPUs -> Runqueues]
      /\ \A d \in CPUs : WellFormed(rq'[d])
      /\ \A d \in CPUs : Members(rq'[d]) = Members(rq[d])
  BY <1>1, <1>3, <1>4, DequeueKeeps DEF IInv
<1>6. TypeOK'
  BY <1>1, <1>2, <1>3, <1>5
     DEF IInv, TypeOK, Goto, ReleaseTable, KernelPoints, LockPoints, ProcStates, schedVars
<1>7. \A q \in Procs : /\ kpc'[q] = IF q = proc[c] THEN "user" ELSE kpc[q]
                       /\ state'[q] = IF q = z THEN "UNUSED" ELSE state[q]
  BY <1>1, <1>2, <1>3 DEF Goto, IInv, TypeOK
<1>8. UNCHANGED <<cpu, child, proc, spc, sel>>
  BY <1>1 DEF schedVars
<1>9. QueueMatchesState'
  <2>1. \A q \in Procs, d \in CPUs :
          q \in Members(rq'[d]) <=> state'[q] = "RUNNABLE" /\ cpu'[q] = d
    <3> TAKE q \in Procs, d \in CPUs
    <3>1. q \in Members(rq[d]) <=> state[q] = "RUNNABLE" /\ cpu[q] = d
      BY DEF IInv, QueueMatchesState
    <3> QED BY <1>3, <1>5, <1>7, <1>8, <3>1
  <2> QED BY <1>5, <2>1 DEF QueueMatchesState
<1>10. CpuMatchesState'
  <2>1. \A q \in Procs : state'[q] = "RUNNING" <=> state[q] = "RUNNING"
    BY <1>3, <1>7
  <2> QED BY <1>8, <2>1 DEF IInv, CpuMatchesState
<1>11. SelectionStaysValid'
  <2> SUFFICES ASSUME NEW d \in CPUs, spc'[d] = "run"
               PROVE  sel'[d] \in Members(rq'[d]) /\ state'[sel'[d]] = "RUNNABLE"
    BY DEF SelectionStaysValid
  <2>1. sel[d] \in Members(rq[d]) /\ state[sel[d]] = "RUNNABLE"
    BY <1>8 DEF IInv, SelectionStaysValid
  <2>2. sel[d] \in Procs
    BY <2>1 DEF Members
  <2> QED BY <1>3, <1>5, <1>7, <1>8, <2>1, <2>2
<1>12. SchedMatchesProc' /\ NoPanic'
  BY <1>5, <1>8 DEF IInv, SchedMatchesProc, NoPanic
<1>13. LockDiscipline'
  BY <1>1 DEF IInv, LockDiscipline, ReleaseTable
<1>14. StartedProcesses'
  BY <1>7, <1>8 DEF IInv, StartedProcesses
<1>15. ForkOwnsChild'
  BY <1>3, <1>7, <1>8 DEF IInv, ForkOwnsChild
<1> QED BY <1>6, <1>9, <1>10, <1>11, <1>12, <1>13, <1>14, <1>15 DEF IInv

\* fork() changes the state of its own EMBRYO or of a free slot: nobody's queue, CPU
\* or lock is concerned.
LEMMA EmbryoPreserves ==
  ASSUME IInv, TypeOK', NEW c \in CPUs, spc[c] = "busy", cs = "free",
         NEW np \in Procs, state[np] \in {"UNUSED", "EMBRYO"},
         NEW to \in {"UNUSED", "EMBRYO"}, state' = [state EXCEPT ![np] = to],
         \A q \in Procs \ {np} : cpu'[q] = cpu[q],
         NEW x \in KernelPoints \ {"zombie"}, Goto(proc[c], x),
         ForkOwnsChild',
         UNCHANGED <<rq, schedVars, lockVars, panicked>>
  PROVE  IInv'
<1>1. proc[c] \in Procs
  BY CurrentProcess
<1>2. \A q \in Procs : /\ kpc'[q] = IF q = proc[c] THEN x ELSE kpc[q]
                       /\ state'[q] = IF q = np THEN to ELSE state[q]
  BY <1>1 DEF Goto, IInv, TypeOK
<1>3. UNCHANGED <<rq, proc, spc, sel, cs, csCpu, wk, panicked>>
  BY DEF schedVars, lockVars
<1>4. QueueMatchesState'
  <2>1. \A q \in Procs, d \in CPUs :
          q \in Members(rq[d]) <=> state'[q] = "RUNNABLE" /\ cpu'[q] = d
    <3> TAKE q \in Procs, d \in CPUs
    <3>1. q \in Members(rq[d]) <=> state[q] = "RUNNABLE" /\ cpu[q] = d
      BY DEF IInv, QueueMatchesState
    <3> QED BY <1>2, <3>1
  <2> QED BY <1>3, <2>1 DEF QueueMatchesState, IInv
<1>5. CpuMatchesState'
  <2>1. \A q \in Procs : state'[q] = "RUNNING" <=> state[q] = "RUNNING"
    BY <1>2
  <2>2. \A d \in CPUs : proc[d] # NULL => proc[d] \in Procs /\ proc[d] # np
    BY DEF IInv, TypeOK, CpuMatchesState
  <2> QED BY <1>3, <2>1, <2>2 DEF IInv, CpuMatchesState
<1>6. SelectionStaysValid'
  <2> SUFFICES ASSUME NEW d \in CPUs, spc'[d] = "run"
               PROVE  sel'[d] \in Members(rq'[d]) /\ state'[sel'[d]] = "RUNNABLE"
    BY DEF SelectionStaysValid
  <2>1. sel[d] \in Members(rq[d]) /\ state[sel[d]] = "RUNNABLE"
    BY <1>3 DEF IInv, SelectionStaysValid
  <2>2. sel[d] \in Procs
    BY <2>1 DEF Members
  <2> QED BY <1>2, <1>3, <2>1, <2>2
<1>7. SchedMatchesProc' /\ NoPanic'
  BY <1>3 DEF IInv, SchedMatchesProc, NoPanic
<1>8. LockDiscipline'
  BY <1>3 DEF IInv, LockDiscipline
<1>9. StartedProcesses'
  BY <1>2 DEF IInv, StartedProcesses
<1> QED BY <1>4, <1>5, <1>6, <1>7, <1>8, <1>9 DEF IInv

LEMMA allocprocStep == ASSUME IInv, NEW c \in CPUs, allocproc(c) PROVE IInv'
<1> DEFINE p == proc[c]
           free == {q \in Procs : state[q] = "UNUSED"}
           np == Min(free)
<1>1. /\ spc[c] = "busy" /\ kpc[p] = "sys" /\ cs = "free" /\ free # {}
      /\ state' = [state EXCEPT ![np] = "EMBRYO"] /\ cpu' = [cpu EXCEPT ![np] = NoCpu]
      /\ tickets' = [tickets EXCEPT ![np] = 1] /\ pid' = [pid EXCEPT ![np] = nextpid]
      /\ nextpid' = nextpid + 1 /\ child' = [child EXCEPT ![p] = np]
      /\ Goto(p, "forkcopy")
      /\ UNCHANGED <<parent, killed, chan, rq, schedVars, lockVars, panicked>>
  BY DEF allocproc, At
<1>2. p \in Procs
  BY <1>1, CurrentProcess
<1>3. np \in free
  BY <1>1, MinIsMember
<1>4. np \in Procs /\ state[np] = "UNUSED"
  BY <1>3
<1> HIDE DEF np, p
<1>5. TypeOK'
  BY <1>1, <1>2, <1>4
     DEF IInv, TypeOK, Goto, KernelPoints, ProcStates, schedVars, lockVars
<1>6. \A q \in Procs : /\ kpc'[q] = IF q = p THEN "forkcopy" ELSE kpc[q]
                       /\ child'[q] = IF q = p THEN np ELSE child[q]
                       /\ state'[q] = IF q = np THEN "EMBRYO" ELSE state[q]
                       /\ q # np => cpu'[q] = cpu[q]
  BY <1>1, <1>2, <1>4 DEF Goto, IInv, TypeOK
<1>7. ForkOwnsChild'
  BY <1>1, <1>2, <1>4, <1>6 DEF IInv, ForkOwnsChild
<1> QED BY <1>1, <1>4, <1>5, <1>6, <1>7, EmbryoPreserves DEF p, KernelPoints

LEMMA forkFailsStep == ASSUME IInv, NEW c \in CPUs, forkFails(c) PROVE IInv'
<1> DEFINE p == proc[c]
           np == child[p]
<1>1. /\ spc[c] = "busy" /\ kpc[p] = "forkcopy" /\ cs = "free"
      /\ state' = [state EXCEPT ![np] = "UNUSED"] /\ child' = [child EXCEPT ![p] = NULL]
      /\ Goto(p, "user")
      /\ UNCHANGED <<pid, parent, killed, chan, tickets, cpu, nextpid, rq, schedVars,
                     lockVars, panicked>>
  BY DEF forkFails, At
<1>2. p \in Procs
  BY <1>1, CurrentProcess
<1>3. np \in Procs /\ state[np] = "EMBRYO"
  BY <1>1, <1>2 DEF IInv, ForkOwnsChild
<1> HIDE DEF np, p
<1>4. TypeOK'
  BY <1>1, <1>2, <1>3
     DEF IInv, TypeOK, Goto, KernelPoints, ProcStates, schedVars, lockVars
<1>5. \A q \in Procs : /\ kpc'[q] = IF q = p THEN "user" ELSE kpc[q]
                       /\ child'[q] = IF q = p THEN NULL ELSE child[q]
                       /\ state'[q] = IF q = np THEN "UNUSED" ELSE state[q]
  BY <1>1, <1>2, <1>3 DEF Goto, IInv, TypeOK
<1>6. \A q \in Procs : q # p /\ kpc[q] \in {"forkcopy", "forkadd"} => child[q] # np
  BY <1>1, <1>2 DEF IInv, ForkOwnsChild, np
<1>7. ForkOwnsChild'
  BY <1>5, <1>6 DEF IInv, ForkOwnsChild
<1> QED BY <1>1, <1>3, <1>4, <1>7, EmbryoPreserves DEF p, KernelPoints

\* The CPU that fork() chooses exists.
LEMMA TargetIsCpu == LeastLoadedCpu \in CPUs
<1>1. 0 \in CPUs /\ CPUs \in SUBSET Nat
  BY SchedAssumption DEF CPUs
<1>2. ASSUME NEW S \in SUBSET CPUs, S # {} PROVE Min(S) \in CPUs
  <2>1. \E x \in S : \A y \in S : x <= y
    BY <1>1, <1>2, FirstIsMember
  <2> QED BY <2>1 DEF Min
<1>3. LeastLoaded \in SUBSET CPUs
  BY DEF LeastLoaded
<1> QED BY <1>1, <1>2, <1>3 DEF LeastLoadedCpu

LEMMA forkAddsStep == ASSUME IInv, panicked = "none", NEW c \in CPUs, forkAdds(c) PROVE IInv'
<1> DEFINE p == proc[c]
           np == child[p]
           target == LeastLoadedCpu
<1>1. /\ spc[c] = "busy" /\ kpc[p] = "forkadd" /\ cs = "free"
      /\ state' = [state EXCEPT ![np] = "RUNNABLE"] /\ cpu' = [cpu EXCEPT ![np] = target]
      /\ panicked' = IF RqFull(rq[target]) THEN "runqueue full" ELSE panicked
      /\ rq' = [rq EXCEPT ![target] = rq_add(rq[target], np)]
      /\ kpc' = [kpc EXCEPT ![np] = "user", ![p] = "user"]
      /\ child' = [child EXCEPT ![p] = NULL]
      /\ UNCHANGED <<pid, parent, killed, chan, tickets, nextpid, schedVars, lockVars>>
  BY DEF forkAdds, At
<1>2. p \in Procs /\ state[p] = "RUNNING"
  BY <1>1, CurrentProcess
<1>3. np \in Procs /\ state[np] = "EMBRYO"
  BY <1>1, <1>2 DEF IInv, ForkOwnsChild
<1>4. target \in CPUs
  BY TargetIsCpu
<1> HIDE DEF np, p, target
<1>5. WellFormed(rq[target]) /\ np \notin Members(rq[target])
  BY <1>3, <1>4 DEF IInv, QueueMatchesState
<1>6. rq[target].count < MAX_PROCS
  BY <1>3, <1>5, RoomInQueue
<1>7. panicked' = "none"
  <2>1. rq[target].count \in Int
    BY <1>5, SizesAssumption DEF WellFormed, Runqueues
  <2>2. ~ RqFull(rq[target])
    BY <1>6, <2>1, SizesAssumption DEF RqFull
  <2> QED BY <1>1, <2>2
<1>8. /\ WellFormed(rq_add(rq[target], np))
      /\ Members(rq_add(rq[target], np)) = Members(rq[target]) \cup {np}
  BY <1>3, <1>5, <1>6, AddToQueue
<1>9. \A d \in CPUs : rq'[d] = IF d = target THEN rq_add(rq[target], np) ELSE rq[d]
  BY <1>1 DEF IInv, TypeOK
<1>10. /\ \A d \in CPUs : WellFormed(rq'[d])
       /\ \A d \in CPUs : Members(rq'[d]) = IF d = target THEN Members(rq[d]) \cup {np}
                                             ELSE Members(rq[d])
  BY <1>8, <1>9 DEF IInv, QueueMatchesState
<1>11. rq' \in [CPUs -> Runqueues]
  BY <1>1, <1>8 DEF WellFormed, IInv, TypeOK
<1>12. TypeOK'
  BY <1>1, <1>2, <1>3, <1>4, <1>7, <1>11
     DEF IInv, TypeOK, KernelPoints, ProcStates, Panics, schedVars, lockVars
<1>13. \A q \in Procs : /\ kpc'[q] = IF q \in {p, np} THEN "user" ELSE kpc[q]
                        /\ child'[q] = IF q = p THEN NULL ELSE child[q]
                        /\ state'[q] = IF q = np THEN "RUNNABLE" ELSE state[q]
                        /\ cpu'[q] = IF q = np THEN target ELSE cpu[q]
  BY <1>1, <1>2, <1>3 DEF IInv, TypeOK
<1>14. UNCHANGED <<proc, spc, sel, cs, csCpu, wk>>
  BY <1>1 DEF schedVars, lockVars
<1>15. QueueMatchesState'
  <2>1. \A q \in Procs, d \in CPUs :
          q \in Members(rq'[d]) <=> state'[q] = "RUNNABLE" /\ cpu'[q] = d
    <3> TAKE q \in Procs, d \in CPUs
    <3>1. q \in Members(rq[d]) <=> state[q] = "RUNNABLE" /\ cpu[q] = d
      BY DEF IInv, QueueMatchesState
    <3> QED BY <1>3, <1>10, <1>13, <3>1
  <2> QED BY <1>10, <2>1 DEF QueueMatchesState
<1>16. CpuMatchesState'
  <2>1. \A q \in Procs : state'[q] = "RUNNING" <=> state[q] = "RUNNING"
    BY <1>3, <1>13
  <2>2. \A d \in CPUs : proc[d] # NULL => proc[d] \in Procs /\ proc[d] # np
    BY <1>3 DEF IInv, TypeOK, CpuMatchesState
  <2> QED BY <1>13, <1>14, <2>1, <2>2 DEF IInv, CpuMatchesState
<1>17. SelectionStaysValid'
  <2> SUFFICES ASSUME NEW d \in CPUs, spc'[d] = "run"
               PROVE  sel'[d] \in Members(rq'[d]) /\ state'[sel'[d]] = "RUNNABLE"
    BY DEF SelectionStaysValid
  <2>1. sel[d] \in Members(rq[d]) /\ state[sel[d]] = "RUNNABLE"
    BY <1>14 DEF IInv, SelectionStaysValid
  <2>2. sel[d] \in Procs
    BY <2>1 DEF Members
  <2> QED BY <1>10, <1>13, <1>14, <2>1, <2>2
<1>18. SchedMatchesProc' /\ NoPanic'
  BY <1>7, <1>14 DEF IInv, SchedMatchesProc, NoPanic
<1>19. LockDiscipline'
  BY <1>1, <1>14 DEF IInv, LockDiscipline
<1>20. StartedProcesses'
  BY <1>4, <1>13 DEF IInv, StartedProcesses
<1>21. \A q \in Procs : q # p /\ kpc[q] \in {"forkcopy", "forkadd"} => child[q] # np
  BY <1>1, <1>2 DEF IInv, ForkOwnsChild, np
<1>22. ForkOwnsChild'
  BY <1>13, <1>21 DEF IInv, ForkOwnsChild
<1> QED BY <1>12, <1>15, <1>16, <1>17, <1>18, <1>19, <1>20, <1>22 DEF IInv

\* rq_select() only reads the table and its queue.
LEMMA SelectPreserves ==
  ASSUME IInv, TypeOK', NEW c \in CPUs, spc[c] \in {"top", "draw"},
         NEW x \in {"top", "draw", "run"}, spc' = [spc EXCEPT ![c] = x],
         \A d \in CPUs \ {c} : sel'[d] = sel[d],
         x = "run" => sel'[c] \in Members(rq[c]),
         csCpu # c \/ cs \notin {"wait", "exit", "exit2"},
         UNCHANGED <<state, cpu, kpc, child, rq, proc, lockVars, panicked>>
  PROVE  IInv'
<1>1. \A d \in CPUs : spc'[d] = IF d = c THEN x ELSE spc[d]
  BY DEF IInv, TypeOK
<1>2. UNCHANGED <<state, cpu, kpc, child, rq, proc, cs, csCpu, wk, panicked>>
  BY DEF lockVars
<1>3. QueueMatchesState'
  BY <1>2 DEF IInv, QueueMatchesState
<1>4. CpuMatchesState'
  BY <1>2 DEF IInv, CpuMatchesState
<1>9. NoPanic'
  BY <1>2 DEF IInv, NoPanic
<1>5. SchedMatchesProc'
  BY <1>1, <1>2 DEF IInv, SchedMatchesProc
<1>6. SelectionStaysValid'
  <2> SUFFICES ASSUME NEW d \in CPUs, spc'[d] = "run"
               PROVE  sel'[d] \in Members(rq'[d]) /\ state'[sel'[d]] = "RUNNABLE"
    BY DEF SelectionStaysValid
  <2>1. CASE d = c
    <3>1. sel'[c] \in Members(rq[c])
      BY <1>1, <2>1
    <3>2. sel'[c] \in Procs
      BY <3>1 DEF Members
    <3> QED BY <1>2, <2>1, <3>1, <3>2 DEF IInv, QueueMatchesState
  <2>2. CASE d # c
    BY <1>1, <1>2, <2>2 DEF IInv, SelectionStaysValid
  <2> QED BY <2>1, <2>2
<1>7. LockDiscipline'
  BY <1>1, <1>2 DEF IInv, LockDiscipline
<1>8. StartedProcesses' /\ ForkOwnsChild'
  BY <1>2 DEF IInv, StartedProcesses, ForkOwnsChild
<1> QED BY <1>3, <1>4, <1>5, <1>6, <1>7, <1>8, <1>9 DEF IInv

LEMMA selectTotalStep == ASSUME IInv, NEW c \in CPUs, selectTotal(c) PROVE IInv'
<1>1. /\ spc[c] = "top" /\ csCpu # c /\ spc' = [spc EXCEPT ![c] = "draw"]
      /\ total' = [total EXCEPT ![c] = QueueTickets(rq[c], MAX_PROCS, EffectiveTickets)]
      /\ UNCHANGED <<procVars, kpc, child, nextpid, rq, proc, sel, lockVars, panicked>>
  BY Zenon DEF selectTotal
<1>2. DOMAIN total' = DOMAIN total
  BY <1>1
<1>3. TypeOK'
  BY <1>1, <1>2 DEF IInv, TypeOK, SchedPoints, procVars, lockVars
<1>4. UNCHANGED <<state, cpu, kpc, child, rq, proc, lockVars, panicked>>
  BY <1>1 DEF procVars
<1> QED BY <1>1, <1>3, <1>4, SelectPreserves

LEMMA selectDrawStep == ASSUME IInv, NEW c \in CPUs, selectDraw(c) PROVE IInv'
<1>1. /\ spc[c] = "draw"
      /\ total' = [total EXCEPT ![c] = 0]
      /\ UNCHANGED <<procVars, kpc, child, nextpid, rq, proc, lockVars, panicked>>
  BY Zenon DEF selectDraw
<1>2. \E p \in Members(rq[c]) \cup {NULL} :
        /\ sel' = [sel EXCEPT ![c] = p]
        /\ spc' = [spc EXCEPT ![c] = IF p = NULL THEN "top" ELSE "run"]
  BY Zenon DEF selectDraw
<1>3. PICK p \in Members(rq[c]) \cup {NULL} :
        /\ sel' = [sel EXCEPT ![c] = p]
        /\ spc' = [spc EXCEPT ![c] = IF p = NULL THEN "top" ELSE "run"]
  BY <1>2
<1> DEFINE x == IF p = NULL THEN "top" ELSE "run"
<1>4. p \in Procs \cup {NULL}
  BY DEF Members
<1>5. x \in {"top", "run"} /\ spc' = [spc EXCEPT ![c] = x]
  BY <1>3
<1>6. TypeOK'
  BY <1>1, <1>3, <1>4, <1>5 DEF IInv, TypeOK, SchedPoints, procVars, lockVars
<1>7. /\ \A d \in CPUs \ {c} : sel'[d] = sel[d]
      /\ x = "run" => sel'[c] \in Members(rq[c])
  BY <1>3 DEF IInv, TypeOK
<1>8. UNCHANGED <<state, cpu, kpc, child, rq, proc, lockVars, panicked>>
  BY <1>1 DEF procVars
<1>9. csCpu # c \/ cs \notin {"wait", "exit", "exit2"}
  BY <1>1 DEF IInv, LockDiscipline
<1> HIDE DEF x
<1> QED BY <1>1, <1>5, <1>6, <1>7, <1>8, <1>9, SelectPreserves

LEMMA runStep == ASSUME IInv, panicked = "none", NEW c \in CPUs, run(c) PROVE IInv'
<1> DEFINE p == sel[c]
           x == IF kpc[p] = "slept" THEN "sys" ELSE kpc[p]
<1>1. /\ spc[c] = "run" /\ cs = "free"
      /\ rq' = [rq EXCEPT ![c] = rq_remove(rq[c], p)]
      /\ proc' = [proc EXCEPT ![c] = p] /\ spc' = [spc EXCEPT ![c] = "busy"]
      /\ sel' = [sel EXCEPT ![c] = NULL]
      /\ state' = [state EXCEPT ![p] = "RUNNING"]
      /\ chan' = [chan EXCEPT ![p] = IF kpc[p] \in {"wait", "slept"} THEN NULL ELSE chan[p]]
      /\ Goto(p, x)
      /\ IF kpc[p] = "wait" THEN cs' = "wait" /\ csCpu' = c ELSE UNCHANGED <<cs, csCpu>>
      /\ panicked' = IF kpc[p] = "zombie" THEN "zombie exit" ELSE panicked
      /\ UNCHANGED <<pid, parent, killed, tickets, cpu, child, nextpid, total, wk>>
  BY DEF run, Resume
<1>2. p \in Members(rq[c]) /\ state[p] = "RUNNABLE"
  BY <1>1 DEF IInv, SelectionStaysValid
<1>3. p \in Procs
  BY <1>2 DEF Members
<1>4. cpu[p] = c /\ WellFormed(rq[c])
  BY <1>2, <1>3 DEF IInv, QueueMatchesState
<1>5. proc[c] = NULL /\ p # NULL /\ NULL \notin Procs
  <2>1. NULL \notin Procs
    BY SizesAssumption DEF Procs, NULL
  <2> QED BY <1>1, <1>3, <2>1 DEF IInv, SchedMatchesProc
<1>6. panicked' = "none" /\ kpc[p] # "zombie"
  BY <1>1, <1>2, <1>3 DEF IInv, StartedProcesses
<1>7. x \in KernelPoints /\ x # "zombie"
  BY <1>3, <1>6 DEF IInv, TypeOK, KernelPoints
<1> HIDE DEF p
<1>8. /\ WellFormed(rq_remove(rq[c], p))
      /\ Members(rq_remove(rq[c], p)) = Members(rq[c]) \ {p}
  BY <1>3, <1>4, RemoveFromQueue
<1>9. \A d \in CPUs : rq'[d] = IF d = c THEN rq_remove(rq[c], p) ELSE rq[d]
  BY <1>1 DEF IInv, TypeOK
<1>10. /\ \A d \in CPUs : WellFormed(rq'[d])
       /\ \A d \in CPUs : Members(rq'[d]) = IF d = c THEN Members(rq[d]) \ {p}
                                             ELSE Members(rq[d])
  BY <1>8, <1>9 DEF IInv, QueueMatchesState
<1>11. rq' \in [CPUs -> Runqueues]
  BY <1>1, <1>8 DEF WellFormed, IInv, TypeOK
<1>12. cs' \in LockPoints /\ csCpu' \in CPUs \cup {NoCpu}
  BY <1>1 DEF IInv, TypeOK, LockPoints
<1>13. chan' \in [Procs -> {NULL} \cup Procs \cup Chans]
  BY <1>1 DEF IInv, TypeOK
<1>14. TypeOK'
  <2> HIDE DEF x
  <2> QED BY <1>1, <1>3, <1>6, <1>7, <1>11, <1>12, <1>13
             DEF IInv, TypeOK, Goto, ProcStates, SchedPoints, Panics
<1>15. \A q \in Procs : /\ kpc'[q] = IF q = p THEN x ELSE kpc[q]
                        /\ state'[q] = IF q = p THEN "RUNNING" ELSE state[q]
  BY <1>1 DEF Goto, IInv, TypeOK
<1>16. \A d \in CPUs : /\ proc'[d] = IF d = c THEN p ELSE proc[d]
                       /\ spc'[d] = IF d = c THEN "busy" ELSE spc[d]
                       /\ d # c => sel'[d] = sel[d]
  BY <1>1 DEF IInv, TypeOK
<1>17. cpu' = cpu /\ child' = child /\ wk' = wk
  BY <1>1
<1>18. QueueMatchesState'
  <2>1. \A q \in Procs, d \in CPUs :
          q \in Members(rq'[d]) <=> state'[q] = "RUNNABLE" /\ cpu'[q] = d
    <3> TAKE q \in Procs, d \in CPUs
    <3>1. q \in Members(rq[d]) <=> state[q] = "RUNNABLE" /\ cpu[q] = d
      BY DEF IInv, QueueMatchesState
    <3>2. CASE q = p
      BY <1>4, <1>10, <1>15, <3>1, <3>2
    <3>3. CASE q # p
      BY <1>10, <1>15, <1>17, <3>1, <3>3
    <3> QED BY <3>2, <3>3
  <2> QED BY <1>10, <2>1 DEF QueueMatchesState
<1>19. CpuMatchesState'
  <2>1. \A q \in Procs : state'[q] = "RUNNING" <=> \E d \in CPUs : proc'[d] = q
    <3> TAKE q \in Procs
    <3>1. CASE q = p
      BY <1>15, <1>16, <3>1
    <3>2. CASE q # p
      <4>1. \A d \in CPUs : proc'[d] = q <=> proc[d] = q
        BY <1>5, <1>16, <3>2
      <4> QED BY <1>15, <3>2, <4>1 DEF IInv, CpuMatchesState
    <3> QED BY <3>1, <3>2
  <2>2. \A d \in CPUs : proc'[d] # NULL => cpu'[proc'[d]] = d
    BY <1>4, <1>16, <1>17 DEF IInv, CpuMatchesState
  <2> QED BY <2>1, <2>2 DEF CpuMatchesState
<1>20. SelectionStaysValid'
  <2> SUFFICES ASSUME NEW d \in CPUs, spc'[d] = "run"
               PROVE  sel'[d] \in Members(rq'[d]) /\ state'[sel'[d]] = "RUNNABLE"
    BY DEF SelectionStaysValid
  <2>1. d # c /\ sel[d] \in Members(rq[d]) /\ state[sel[d]] = "RUNNABLE"
    BY <1>16 DEF IInv, SelectionStaysValid
  <2>2. sel[d] \in Procs
    BY <2>1 DEF Members
  <2>3. cpu[sel[d]] = d
    BY <2>1, <2>2 DEF IInv, QueueMatchesState
  <2> QED BY <1>4, <1>10, <1>15, <1>16, <2>1, <2>2, <2>3
<1>21. SchedMatchesProc' /\ NoPanic'
  BY <1>5, <1>6, <1>16 DEF IInv, SchedMatchesProc, NoPanic
<1>22. LockDiscipline'
  <2>1. wk' = {}
    BY <1>1 DEF IInv, LockDiscipline
  <2>2. CASE kpc[p] = "wait"
    BY <1>1, <1>3, <1>15, <1>16, <2>1, <2>2 DEF LockDiscipline
  <2>3. CASE kpc[p] # "wait"
    BY <1>1, <2>1, <2>3 DEF LockDiscipline
  <2> QED BY <2>2, <2>3
<1>23. StartedProcesses'
  <2> HIDE DEF x
  <2> QED BY <1>4, <1>7, <1>15, <1>17 DEF IInv, StartedProcesses
<1>24. ForkOwnsChild'
  <2>1. \A q \in Procs : kpc'[q] \in {"forkcopy", "forkadd"} => kpc[q] \in {"forkcopy", "forkadd"}
    BY <1>15
  <2>2. \A q \in Procs : state[q] = "EMBRYO" => state'[q] = "EMBRYO"
    BY <1>2, <1>15
  <2> QED BY <1>17, <2>1, <2>2 DEF IInv, ForkOwnsChild
<1> QED BY <1>14, <1>18, <1>19, <1>20, <1>21, <1>22, <1>23, <1>24 DEF IInv

-------------------------------------------------------------------------------
(* The theorems. *)

LEMMA SyscallStep ==
  ASSUME IInv, panicked = "none", NEW c \in CPUs, Syscall(c)
  PROVE  IInv'
<1>1. CASE sysReturns(c) \/ sys_exit(c)
  BY <1>1, sysReturnsStep, sys_exitStep
<1>2. CASE allocproc(c) \/ forkFails(c) \/ forkCopies(c) \/ forkAdds(c)
  BY <1>2, allocprocStep, forkFailsStep, forkCopiesStep, forkAddsStep
<1>3. CASE \E ch \in Chans : sleep(c, ch)
  BY <1>3, sleepStep
<1>4. CASE \E n \in KillArgs : kill(c, n)
  <2>1. KillArgs \in SUBSET Nat
    BY SchedAssumption DEF KillArgs
  <2> QED BY <1>4, <2>1, killStep
<1>5. CASE exitWakesParent(c)
  BY <1>5, exitWakesParentStep
<1>6. CASE waitReaps(c) \/ waitFails(c) \/ waitSleeps(c)
  BY <1>6, waitReapsStep, waitFailsStep, waitSleepsStep
<1>7. CASE \E t \in TicketArgs : sys_settickets(c, t)
  <2>1. spc[c] = "busy"
    BY <1>7 DEF sys_settickets, SetTickets, At
  <2>2. proc[c] \in Procs
    BY <2>1, CurrentProcess
  <2> QED BY <1>7, <2>2, SetTicketsStep DEF sys_settickets
<1>8. CASE \E n \in KillArgs, t \in TicketArgs : sys_settickets_pid(c, n, t)
  <2>1. PICK n \in KillArgs, t \in TicketArgs : sys_settickets_pid(c, n, t)
    BY <1>8
  <2> DEFINE found == {q \in Procs : pid[q] = n}
  <2>2. found # {} /\ SetTickets(c, Min(found), t)
    BY <2>1 DEF sys_settickets_pid
  <2>3. Min(found) \in Procs
    BY <2>2, MinIsMember
  <2> HIDE DEF found
  <2> QED BY <2>2, <2>3, SetTicketsStep
<1> QED BY <1>1, <1>2, <1>3, <1>4, <1>5, <1>6, <1>7, <1>8 DEF Syscall

LEMMA NextPreserves == IInv /\ [Next]_vars => IInv'
<1> SUFFICES ASSUME IInv, [Next]_vars PROVE IInv'
  OBVIOUS
<1>1. ASSUME panicked = "none", NEW c \in CPUs, CpuStep(c) PROVE IInv'
  <2>1. CASE Trap(c) \/ yield(c)
    BY <1>1, <2>1, TrapStep, yieldStep
  <2>2. CASE Syscall(c)
    BY <1>1, <2>2, SyscallStep
  <2>3. CASE Scheduler(c)
    BY <1>1, <2>3, selectTotalStep, selectDrawStep, runStep DEF Scheduler
  <2> QED BY <1>1, <2>1, <2>2, <2>3 DEF CpuStep
<1>2. ASSUME NEW c \in CPUs, NEW ch \in Chans, wakeup(c, ch) PROVE IInv'
  BY <1>2, wakeupStep
<1>3. ASSUME panicked = "none", LockHolderStep PROVE IInv'
  BY <1>3, wakeup1Step, wakeupDoneStep, exitReparentsStep, exitSchedStep DEF LockHolderStep
<1>4. CASE UNCHANGED vars
  <2> USE <1>4 DEF vars, procVars, schedVars, lockVars
  <2>1. TypeOK'
    BY DEF IInv, TypeOK
  <2>2. LockDiscipline' /\ NoPanic'
    BY DEF IInv, LockDiscipline, NoPanic
  <2> QED BY <2>1, <2>2, LockStepPreserves
<1> QED BY <1>1, <1>2, <1>3, <1>4 DEF Next

\* The invariant holds in every reachable state, whatever the number of processes and
\* CPUs: no interleaving of fork, exit, wait, sleep, wakeup, kill, yield, the ticket
\* calls and the schedulers takes the process table out of step with the run queues.
THEOREM IInvHolds == Spec => []IInv
<1>1. Init => IInv
  BY InitInv
<1>2. IInv /\ [Next]_vars => IInv'
  BY NextPreserves
<1> QED BY <1>1, <1>2, PTL DEF Spec

\* Every variable keeps its type.
THEOREM TypeCorrect == Spec => []TypeOK
<1>1. IInv => TypeOK
  BY DEF IInv
<1> QED BY <1>1, IInvHolds, PTL

\* A process is queued, once, exactly while it is RUNNABLE.
THEOREM QueuesCorrect == Spec => []QueueMatchesState
<1>1. IInv => QueueMatchesState
  BY DEF IInv
<1> QED BY <1>1, IInvHolds, PTL

\* A process runs on at most one CPU, and that is the CPU it is assigned to.
THEOREM CpusCorrect == Spec => []CpuMatchesState
<1>1. IInv => CpuMatchesState
  BY DEF IInv
<1> QED BY <1>1, IInvHolds, PTL

\* scheduler() may use what rq_select() returned, though it held no lock in between.
THEOREM SelectionCorrect == Spec => []SelectionStaysValid
<1>1. IInv => SelectionStaysValid
  BY DEF IInv
<1> QED BY <1>1, IInvHolds, PTL

\* "runqueue full", "invalid CPU assignment" and "zombie exit" are unreachable.
THEOREM PanicFree == Spec => []NoPanic
<1>1. IInv => NoPanic
  BY DEF IInv
<1> QED BY <1>1, IInvHolds, PTL

-------------------------------------------------------------------------------
(* Parents and children: facts that several actions need. *)

LEMMA InitProcFacts == InitProc \in Procs /\ NULL \notin Procs
  BY SizesAssumption DEF InitProc, Procs, NULL

\* A ZOMBIE that wait() finds is a child of the process that waits.
LEMMA ReapedIsChild ==
  ASSUME NEW p, Zombies(p) # {}
  PROVE  /\ Min(Zombies(p)) \in Procs
         /\ state[Min(Zombies(p))] = "ZOMBIE"
         /\ parent[Min(Zombies(p))] = p
<1>1. Zombies(p) \in SUBSET Procs
  BY DEF Zombies, Children
<1>2. Min(Zombies(p)) \in Zombies(p)
  BY <1>1, MinIsMember
<1> QED BY <1>2 DEF Zombies, Children

\* Who is inside exit() runs on the CPU that holds ptable_lock.
LEMMA ExitingProcess ==
  ASSUME IInv, cs \in {"exit", "exit2"}
  PROVE  /\ csCpu \in CPUs /\ spc[csCpu] = "busy"
         /\ proc[csCpu] \in Procs /\ proc[csCpu] # NULL
         /\ state[proc[csCpu]] = "RUNNING"
         /\ kpc[proc[csCpu]] = "exit"
<1>1. csCpu \in CPUs /\ spc[csCpu] = "busy" /\ kpc[proc[csCpu]] = "exit"
  BY DEF IInv, LockDiscipline
<1> QED BY <1>1, CurrentProcess

\* A step that keeps every parent, kills and starts nobody, and lets nobody fall asleep in
\* wait() over a ZOMBIE, keeps the families whole.
LEMMA FamiliesUntouched ==
  ASSUME IInv, FamilyInv,
         parent' = parent,
         \A q \in Procs : state[q] \in AliveStates => state'[q] \in AliveStates,
         \A q \in Procs : state'[q] \notin {"UNUSED", "EMBRYO"} => state[q] \notin {"UNUSED", "EMBRYO"},
         \A q \in Procs : state'[q] = "UNUSED" => parent[q] = NULL,
         \A q \in Procs : state'[q] = "ZOMBIE" => state[q] = "ZOMBIE",
         \A q \in Procs : kpc'[q] \in {"forkcopy", "forkadd"} =>
                            kpc'[q] = kpc[q] /\ child'[q] = child[q],
         \A q \in Procs : state'[q] = "SLEEPING" /\ kpc'[q] = "wait" =>
            \/ WaitsForChild(q) /\ chan'[q] = chan[q] /\ (q \in wk => q \in wk')
            \/ chan'[q] = q /\ Children(q) # {} /\ Zombies(q) = {} /\ cs' = "free",
         cs' \in {"exit", "exit2"} =>
           cs' = cs /\ csCpu' = csCpu /\ proc'[csCpu] = proc[csCpu]
  PROVE  FamilyInv'
<1>1. ParentIsAlive'
  <2> SUFFICES ASSUME NEW p \in Procs \ {InitProc}, state'[p] \notin {"UNUSED", "EMBRYO"}
               PROVE  parent[p] \in Procs /\ state'[parent[p]] \in AliveStates
    BY DEF ParentIsAlive, AliveStates
  <2>1. parent[p] \in Procs /\ state[parent[p]] \in AliveStates
    BY DEF FamilyInv, ParentIsAlive, AliveStates
  <2> QED BY <2>1
<1>2. InitIsAlive'
  BY InitProcFacts DEF FamilyInv, InitIsAlive
<1>3. ForkSetsParent'
  BY DEF FamilyInv, ForkSetsParent
<1>4. \A p \in Procs : /\ Children(p)' = Children(p)
                       /\ Zombies(p)' \subseteq Zombies(p)
  BY DEF Children, Zombies
<1>5. WaitersAreTold'
  BY <1>4 DEF FamilyInv, WaitersAreTold, WaitsForChild
<1>6. ExitInProgress'
  <2>1. CASE cs' \in {"exit", "exit2"}
    <3>1. cs' = cs /\ csCpu' = csCpu /\ proc'[csCpu] = proc[csCpu]
      BY <2>1
    <3>2. \A p \in Procs : parent[proc[csCpu]] = p /\ WaitsForChild(p)' => p \in wk'
      BY <2>1, <3>1 DEF FamilyInv, ExitInProgress, WaitsForChild
    <3> QED BY <2>1, <3>1, <3>2 DEF FamilyInv, ExitInProgress
  <2>2. CASE cs' \notin {"exit", "exit2"}
    BY <2>2 DEF ExitInProgress
  <2> QED BY <2>1, <2>2
<1> QED BY <1>1, <1>2, <1>3, <1>5, <1>6 DEF FamilyInv

\* The current process only moves on in the kernel.
LEMMA MoveUntouched ==
  ASSUME IInv, FamilyInv, NEW c \in CPUs, spc[c] = "busy",
         NEW x \in {"user", "sys", "exit"}, Goto(proc[c], x),
         UNCHANGED <<state, parent, chan, child, proc, wk>>,
         UNCHANGED <<cs, csCpu>> \/ cs' = "free"
  PROVE  FamilyInv'
<1>1. proc[c] \in Procs /\ state[proc[c]] = "RUNNING"
  BY CurrentProcess
<1>2. \A q \in Procs : kpc'[q] = IF q = proc[c] THEN x ELSE kpc[q]
  BY <1>1 DEF Goto, IInv, TypeOK
<1>3. \A q \in Procs : state[q] = "UNUSED" => parent[q] = NULL
  BY DEF FamilyInv, ForkSetsParent
<1>4. \A q \in Procs : state'[q] = "SLEEPING" /\ kpc'[q] = "wait" => WaitsForChild(q)
  BY <1>2 DEF WaitsForChild
<1> QED BY <1>2, <1>3, <1>4, FamiliesUntouched

\* One process changes its state between RUNNABLE, RUNNING and SLEEPING, and does not
\* fall asleep in wait().
LEMMA StateUntouched ==
  ASSUME IInv, FamilyInv, NEW p \in Procs, state[p] \in AliveStates,
         NEW to \in AliveStates, state' = [state EXCEPT ![p] = to],
         NEW x \in KernelPoints, Goto(p, x),
         x \in {"forkcopy", "forkadd"} => x = kpc[p],
         to = "SLEEPING" => x # "wait",
         \A q \in Procs \ {p} : chan'[q] = chan[q] /\ (q \in wk => q \in wk'),
         UNCHANGED <<parent, child>>,
         cs' \in {"exit", "exit2"} => cs' = cs /\ csCpu' = csCpu /\ proc' = proc
  PROVE  FamilyInv'
<1>1. \A q \in Procs : /\ state'[q] = IF q = p THEN to ELSE state[q]
                       /\ kpc'[q] = IF q = p THEN x ELSE kpc[q]
  BY DEF Goto, IInv, TypeOK
<1>2. \A q \in Procs : state'[q] = "UNUSED" => parent[q] = NULL
  BY <1>1 DEF FamilyInv, ForkSetsParent, AliveStates
<1>3. \A q \in Procs : /\ state[q] \in AliveStates => state'[q] \in AliveStates
                       /\ state'[q] \notin {"UNUSED", "EMBRYO"} => state[q] \notin {"UNUSED", "EMBRYO"}
                       /\ state'[q] = "ZOMBIE" => state[q] = "ZOMBIE"
  BY <1>1 DEF AliveStates
<1>4. \A q \in Procs : state'[q] = "SLEEPING" /\ kpc'[q] = "wait" => q # p /\ WaitsForChild(q)
  BY <1>1 DEF WaitsForChild
<1>5. \A q \in Procs : kpc'[q] \in {"forkcopy", "forkadd"} =>
                         kpc'[q] = kpc[q] /\ child'[q] = child[q]
  BY <1>1
<1> QED BY <1>2, <1>3, <1>4, <1>5, FamiliesUntouched

\* A step that takes, keeps or gives back ptable_lock, outside of exit().
LEMMA LockUntouched ==
  ASSUME IInv, FamilyInv,
         UNCHANGED <<state, parent, kpc, child, chan, proc>>,
         wk \subseteq wk',
         cs' \in {"exit", "exit2"} => cs' = cs /\ csCpu' = csCpu
  PROVE  FamilyInv'
<1>1. \A q \in Procs : state[q] = "UNUSED" => parent[q] = NULL
  BY DEF FamilyInv, ForkSetsParent
<1>2. \A q \in Procs : state'[q] = "SLEEPING" /\ kpc'[q] = "wait" => WaitsForChild(q)
  BY DEF WaitsForChild
<1> QED BY <1>1, <1>2, FamiliesUntouched

-------------------------------------------------------------------------------
(* One lemma per action, or for several that leave the families alone. *)

LEMMA InitFamily == Init => FamilyInv
<1> SUFFICES ASSUME Init PROVE FamilyInv
  OBVIOUS
<1> USE InitProcFacts
<1>1. ParentIsAlive /\ InitIsAlive
  BY DEF Init, ParentIsAlive, InitIsAlive, AliveStates
<1>2. ForkSetsParent /\ WaitersAreTold /\ ExitInProgress
  BY DEF Init, ForkSetsParent, WaitersAreTold, ExitInProgress, WaitsForChild
<1> QED BY <1>1, <1>2 DEF FamilyInv

LEMMA MoveFamilies ==
  ASSUME IInv, FamilyInv, NEW c \in CPUs,
         \/ Trap(c) \/ sysReturns(c) \/ sys_exit(c) \/ waitFails(c)
         \/ \E p, t : SetTickets(c, p, t)
  PROVE  FamilyInv'
<1>1. CASE Trap(c)
  <2>1. PICK x \in {"exit", "sys"} : Goto(proc[c], x)
    BY <1>1 DEF Trap
  <2> QED BY <1>1, <2>1, MoveUntouched DEF Trap, At, schedVars, lockVars
<1>2. CASE sysReturns(c)
  BY <1>2, MoveUntouched DEF sysReturns, At, procVars, schedVars, lockVars
<1>3. CASE sys_exit(c)
  BY <1>3, MoveUntouched DEF sys_exit, At, procVars, schedVars, lockVars
<1>4. CASE waitFails(c)
  BY <1>4, MoveUntouched DEF waitFails, InWait, At, ReleaseTable, procVars, schedVars
<1>5. CASE \E p, t : SetTickets(c, p, t)
  BY <1>5, MoveUntouched DEF SetTickets, At, schedVars, lockVars
<1> QED BY <1>1, <1>2, <1>3, <1>4, <1>5

LEMMA LeaveFamilies ==
  ASSUME IInv, FamilyInv, NEW c \in CPUs, yield(c) \/ \E ch \in Chans : sleep(c, ch)
  PROVE  FamilyInv'
<1> DEFINE p == proc[c]
<1>1. /\ spc[c] = "busy" /\ cs = "free" /\ UNCHANGED <<parent, child, cs, csCpu, wk>>
      /\ \A q \in Procs \ {p} : chan'[q] = chan[q]
  BY DEF yield, sleep, At, lockVars, IInv, TypeOK
<1>2. p \in Procs /\ state[p] = "RUNNING"
  BY <1>1, CurrentProcess
<1>3. CASE yield(c)
  <2>1. state' = [state EXCEPT ![p] = "RUNNABLE"] /\ Goto(p, kpc[p]) /\ kpc[p] \in KernelPoints
    BY <1>2, <1>3 DEF yield, Goto, IInv, TypeOK
  <2> HIDE DEF p
  <2> QED BY <1>1, <1>2, <2>1, StateUntouched DEF AliveStates
<1>4. CASE \E ch \in Chans : sleep(c, ch)
  <2>1. state' = [state EXCEPT ![p] = "SLEEPING"] /\ Goto(p, "slept")
    BY <1>4 DEF sleep
  <2> HIDE DEF p
  <2> QED BY <1>1, <1>2, <2>1, StateUntouched DEF AliveStates, KernelPoints
<1> QED BY <1>3, <1>4

LEMMA LockFamilies ==
  ASSUME IInv, FamilyInv,
         \/ wakeupDone
         \/ \E c \in CPUs : selectTotal(c) \/ selectDraw(c) \/ \E ch \in Chans : wakeup(c, ch)
  PROVE  FamilyInv'
<1>1. CASE wakeupDone
  BY <1>1, LockUntouched DEF wakeupDone, procVars, schedVars
<1>2. ASSUME NEW c \in CPUs, selectTotal(c) PROVE FamilyInv'
  <2>1. UNCHANGED <<procVars, kpc, child, proc, lockVars>>
    BY <1>2 DEF selectTotal
  <2> QED BY <2>1, LockUntouched DEF procVars, lockVars
<1>3. ASSUME NEW c \in CPUs, selectDraw(c) PROVE FamilyInv'
  <2>1. UNCHANGED <<procVars, kpc, child, proc, lockVars>>
    BY <1>3, Zenon DEF selectDraw
  <2> QED BY <2>1, LockUntouched DEF procVars, lockVars
<1>4. ASSUME NEW c \in CPUs, NEW ch \in Chans, wakeup(c, ch) PROVE FamilyInv'
  <2>1. wk = {}
    BY <1>4 DEF wakeup, IInv, LockDiscipline
  <2> QED BY <1>4, <2>1, LockUntouched DEF wakeup, procVars, schedVars
<1> QED BY <1>1, <1>2, <1>3, <1>4

LEMMA WakeFamilies ==
  ASSUME IInv, FamilyInv, wakeup1 \/ \E c \in CPUs, n \in KillArgs : kill(c, n)
  PROVE  FamilyInv'
<1>1. CASE wakeup1
  <2> DEFINE p == Min(wk)
  <2>1. wk # {} /\ wk \in SUBSET Procs
    BY <1>1 DEF wakeup1, IInv, TypeOK
  <2>2. p \in wk /\ p \in Procs
    BY <2>1, MinIsMember
  <2>3. state[p] = "SLEEPING" /\ kpc[p] \in KernelPoints
    BY <2>2 DEF IInv, LockDiscipline, TypeOK
  <2>4. /\ state' = [state EXCEPT ![p] = "RUNNABLE"] /\ wk' = wk \ {p}
        /\ UNCHANGED <<parent, child, chan, kpc, cs, csCpu, proc>>
    BY <1>1 DEF wakeup1, schedVars
  <2>5. Goto(p, kpc[p])
    BY <2>2, <2>4 DEF Goto, IInv, TypeOK
  <2> HIDE DEF p
  <2> QED BY <2>2, <2>3, <2>4, <2>5, StateUntouched DEF AliveStates
<1>2. ASSUME NEW c \in CPUs, NEW n \in KillArgs, kill(c, n) PROVE FamilyInv'
  <2> DEFINE found == {q \in Procs : pid[q] = n}
             v == Min(found)
  <2>1. /\ spc[c] = "busy" /\ cs = "free" /\ found # {} /\ Goto(proc[c], "user")
        /\ UNCHANGED <<parent, chan, child, schedVars, lockVars>>
        /\ IF state[v] = "SLEEPING"
           THEN state' = [state EXCEPT ![v] = "RUNNABLE"] /\ Enqueue(v)
           ELSE UNCHANGED <<state, rq, panicked>>
    BY <1>2 DEF kill, At
  <2>2. v \in Procs
    BY <2>1, MinIsMember
  <2>3. proc[c] \in Procs /\ state[proc[c]] = "RUNNING"
    BY <2>1, CurrentProcess
  <2> USE DEF schedVars, lockVars
  <2> HIDE DEF v
  <2>4. CASE state[v] # "SLEEPING"
    BY <2>1, <2>4, MoveUntouched
  <2>5. CASE state[v] = "SLEEPING"
    <3>1. \A q \in Procs : /\ state'[q] = IF q = v THEN "RUNNABLE" ELSE state[q]
                           /\ kpc'[q] = IF q = proc[c] THEN "user" ELSE kpc[q]
      BY <2>1, <2>2, <2>3, <2>5 DEF Goto, IInv, TypeOK
    <3>2. \A q \in Procs : state'[q] = "UNUSED" => parent[q] = NULL
      BY <3>1 DEF FamilyInv, ForkSetsParent
    <3>3. \A q \in Procs : state'[q] = "SLEEPING" /\ kpc'[q] = "wait" => WaitsForChild(q)
      BY <3>1 DEF WaitsForChild
    <3> QED BY <2>1, <2>5, <3>1, <3>2, <3>3, FamiliesUntouched DEF AliveStates
  <2> QED BY <2>4, <2>5
<1> QED BY <1>1, <1>2

LEMMA runFamilies == ASSUME IInv, FamilyInv, NEW c \in CPUs, run(c) PROVE FamilyInv'
<1> DEFINE p == sel[c]
           x == IF kpc[p] = "slept" THEN "sys" ELSE kpc[p]
<1>1. /\ spc[c] = "run" /\ cs = "free" /\ Goto(p, x)
      /\ state' = [state EXCEPT ![p] = "RUNNING"]
      /\ chan' = [chan EXCEPT ![p] = IF kpc[p] \in {"wait", "slept"} THEN NULL ELSE chan[p]]
      /\ IF kpc[p] = "wait" THEN cs' = "wait" /\ csCpu' = c ELSE UNCHANGED <<cs, csCpu>>
      /\ UNCHANGED <<parent, child, wk>>
  BY DEF run, Resume
<1>2. state[p] = "RUNNABLE" /\ p \in Procs
  BY <1>1 DEF IInv, SelectionStaysValid, Members
<1>3. x \in KernelPoints /\ (x \in {"forkcopy", "forkadd"} => x = kpc[p])
  BY <1>2 DEF IInv, TypeOK, KernelPoints
<1>4. \A q \in Procs \ {p} : chan'[q] = chan[q]
  BY <1>1 DEF IInv, TypeOK
<1>5. cs' \notin {"exit", "exit2"}
  BY <1>1
<1> HIDE DEF p, x
<1> QED BY <1>1, <1>2, <1>3, <1>4, <1>5, StateUntouched DEF AliveStates

LEMMA waitSleepsFamilies ==
  ASSUME IInv, FamilyInv, NEW c \in CPUs, waitSleeps(c)
  PROVE  FamilyInv'
<1> DEFINE p == proc[c]
<1>1. /\ spc[c] = "busy" /\ cs \in {"free", "wait"} /\ Goto(p, "wait") /\ ReleaseTable
      /\ Zombies(p) = {} /\ Children(p) # {}
      /\ chan' = [chan EXCEPT ![p] = p] /\ state' = [state EXCEPT ![p] = "SLEEPING"]
      /\ UNCHANGED <<parent, child>>
  BY DEF waitSleeps, InWait, At
<1>2. p \in Procs /\ state[p] = "RUNNING"
  BY <1>1, CurrentProcess
<1> HIDE DEF p
<1>3. \A q \in Procs : /\ state'[q] = IF q = p THEN "SLEEPING" ELSE state[q]
                       /\ kpc'[q] = IF q = p THEN "wait" ELSE kpc[q]
                       /\ chan'[q] = IF q = p THEN p ELSE chan[q]
  BY <1>1, <1>2 DEF Goto, IInv, TypeOK
<1>4. cs' = "free" /\ wk' = wk
  BY <1>1 DEF ReleaseTable
<1>5. \A q \in Procs : state'[q] = "UNUSED" => parent[q] = NULL
  BY <1>3 DEF FamilyInv, ForkSetsParent
<1>6. \A q \in Procs : state'[q] = "SLEEPING" /\ kpc'[q] = "wait" =>
         \/ WaitsForChild(q) /\ chan'[q] = chan[q]
         \/ chan'[q] = q /\ Children(q) # {} /\ Zombies(q) = {}
  BY <1>1, <1>3 DEF WaitsForChild
<1> QED BY <1>1, <1>2, <1>3, <1>4, <1>5, <1>6, FamiliesUntouched DEF AliveStates

\* The slot that goes back has no parent yet.
LEMMA forkFailsFamilies == ASSUME IInv, FamilyInv, NEW c \in CPUs, forkFails(c) PROVE FamilyInv'
<1> DEFINE p == proc[c]
           np == child[p]
<1>1. /\ spc[c] = "busy" /\ kpc[p] = "forkcopy" /\ cs = "free"
      /\ state' = [state EXCEPT ![np] = "UNUSED"] /\ child' = [child EXCEPT ![p] = NULL]
      /\ Goto(p, "user")
      /\ UNCHANGED <<parent, chan, cs, csCpu, wk>>
  BY DEF forkFails, At, lockVars
<1>2. p \in Procs
  BY <1>1, CurrentProcess
<1>3. np \in Procs /\ state[np] = "EMBRYO" /\ parent[np] = NULL
  BY <1>1, <1>2 DEF IInv, ForkOwnsChild, FamilyInv, ForkSetsParent
<1> HIDE DEF np, p
<1>4. \A q \in Procs : /\ kpc'[q] = IF q = p THEN "user" ELSE kpc[q]
                       /\ child'[q] = IF q = p THEN NULL ELSE child[q]
                       /\ state'[q] = IF q = np THEN "UNUSED" ELSE state[q]
  BY <1>1, <1>2, <1>3 DEF Goto, IInv, TypeOK
<1>5. \A q \in Procs : state'[q] = "UNUSED" => parent[q] = NULL
  BY <1>3, <1>4 DEF FamilyInv, ForkSetsParent
<1>6. \A q \in Procs : state'[q] = "SLEEPING" /\ kpc'[q] = "wait" => WaitsForChild(q)
  BY <1>4 DEF WaitsForChild
<1> QED BY <1>1, <1>3, <1>4, <1>5, <1>6, FamiliesUntouched DEF AliveStates

LEMMA allocprocFamilies == ASSUME IInv, FamilyInv, NEW c \in CPUs, allocproc(c) PROVE FamilyInv'
<1> DEFINE p == proc[c]
           free == {q \in Procs : state[q] = "UNUSED"}
           np == Min(free)
<1>1. /\ spc[c] = "busy" /\ cs = "free" /\ free # {}
      /\ state' = [state EXCEPT ![np] = "EMBRYO"] /\ child' = [child EXCEPT ![p] = np]
      /\ Goto(p, "forkcopy")
      /\ UNCHANGED <<parent, chan, lockVars>>
  BY DEF allocproc, At
<1>2. p \in Procs /\ state[p] = "RUNNING"
  BY <1>1, CurrentProcess
<1>3. np \in free
  BY <1>1, MinIsMember
<1>4. np \in Procs /\ state[np] = "UNUSED"
  BY <1>3
<1>5. parent[np] = NULL
  BY <1>4 DEF FamilyInv, ForkSetsParent
<1> HIDE DEF np, p
<1>6. \A q \in Procs : /\ kpc'[q] = IF q = p THEN "forkcopy" ELSE kpc[q]
                       /\ child'[q] = IF q = p THEN np ELSE child[q]
                       /\ state'[q] = IF q = np THEN "EMBRYO" ELSE state[q]
  BY <1>1, <1>2, <1>4 DEF Goto, IInv, TypeOK
<1>7. ForkSetsParent'
  BY <1>1, <1>4, <1>5, <1>6 DEF FamilyInv, ForkSetsParent
<1>8. ParentIsAlive'
  BY <1>1, <1>4, <1>6 DEF FamilyInv, ParentIsAlive
<1>9. InitIsAlive'
  BY <1>1, <1>4, <1>6, InitProcFacts DEF FamilyInv, InitIsAlive, AliveStates
<1>10. \A q \in Procs : /\ WaitsForChild(q)' => WaitsForChild(q)
                        /\ Children(q)' = Children(q) /\ Zombies(q)' = Zombies(q)
  BY <1>1, <1>4, <1>6 DEF WaitsForChild, Children, Zombies
<1>11. WaitersAreTold' /\ ExitInProgress'
  BY <1>1, <1>10 DEF FamilyInv, WaitersAreTold, ExitInProgress, lockVars
<1> QED BY <1>7, <1>8, <1>9, <1>11 DEF FamilyInv

\* The unlocked copies give the EMBRYO its parent, which nobody else looks at before.
LEMMA forkCopiesFamilies == ASSUME IInv, FamilyInv, NEW c \in CPUs, forkCopies(c) PROVE FamilyInv'
<1> DEFINE p == proc[c]
           np == child[p]
<1>1. /\ spc[c] = "busy" /\ kpc[p] = "forkcopy" /\ csCpu # c
      /\ parent' = [parent EXCEPT ![np] = p] /\ Goto(p, "forkadd")
      /\ UNCHANGED <<state, chan, child, proc, cs, csCpu, wk>>
  BY DEF forkCopies, At, schedVars, lockVars
<1>2. p \in Procs /\ state[p] = "RUNNING" /\ \A d \in CPUs : proc[d] = p => d = c
  BY <1>1, CurrentProcess
<1>3. np \in Procs /\ state[np] = "EMBRYO" /\ parent[np] = NULL
  BY <1>1, <1>2 DEF IInv, ForkOwnsChild, FamilyInv, ForkSetsParent
<1>4. \A q \in Procs : q # p /\ kpc[q] \in {"forkcopy", "forkadd"} => child[q] # np
  BY <1>1, <1>2 DEF IInv, ForkOwnsChild
<1> HIDE DEF np, p
<1>5. \A q \in Procs : /\ kpc'[q] = IF q = p THEN "forkadd" ELSE kpc[q]
                       /\ parent'[q] = IF q = np THEN p ELSE parent[q]
  BY <1>1, <1>2, <1>3 DEF Goto, IInv, TypeOK
<1>6. ParentIsAlive'
  BY <1>1, <1>3, <1>5 DEF FamilyInv, ParentIsAlive
<1>7. InitIsAlive'
  BY <1>1, <1>2, <1>3, <1>5, InitProcFacts DEF FamilyInv, InitIsAlive, AliveStates
<1>8. ForkSetsParent'
  <2>1. \A q \in Procs : kpc[q] \in {"forkcopy", "forkadd"} => child[q] \in Procs
    BY DEF IInv, ForkOwnsChild
  <2> QED BY <1>1, <1>2, <1>3, <1>4, <1>5, <2>1 DEF FamilyInv, ForkSetsParent, np
<1>9. \A q \in Procs : /\ WaitsForChild(q)' => WaitsForChild(q) /\ q # p
                       /\ Children(q) \subseteq Children(q)' /\ Zombies(q)' = Zombies(q)
  <2> TAKE q \in Procs
  <2>1. WaitsForChild(q)' => WaitsForChild(q) /\ q # p
    BY <1>1, <1>2, <1>5 DEF WaitsForChild
  <2>2. Children(q) \subseteq Children(q)'
    BY <1>3, <1>5, InitProcFacts DEF Children
  <2>3. Zombies(q)' = Zombies(q)
    BY <1>1, <1>3, <1>5 DEF Zombies, Children
  <2> QED BY <2>1, <2>2, <2>3
<1>10. WaitersAreTold'
  BY <1>1, <1>9 DEF FamilyInv, WaitersAreTold
<1>11. ExitInProgress'
  <2>1. CASE cs \in {"exit", "exit2"}
    <3>1. /\ csCpu \in CPUs /\ csCpu # c /\ proc[csCpu] \in Procs
          /\ state[proc[csCpu]] = "RUNNING"
      BY <1>1, <2>1, ExitingProcess
    <3>2. proc[csCpu] # p /\ proc[csCpu] # np
      BY <1>2, <1>3, <3>1
    <3> QED BY <1>1, <1>5, <1>9, <2>1, <3>1, <3>2 DEF FamilyInv, ExitInProgress
  <2>2. CASE cs \notin {"exit", "exit2"}
    BY <1>1, <2>2 DEF ExitInProgress
  <2> QED BY <2>1, <2>2
<1> QED BY <1>6, <1>7, <1>8, <1>10, <1>11 DEF FamilyInv

\* The child starts its life with the process that forked, which is RUNNING, as parent.
LEMMA forkAddsFamilies == ASSUME IInv, FamilyInv, NEW c \in CPUs, forkAdds(c) PROVE FamilyInv'
<1> DEFINE p == proc[c]
           np == child[p]
<1>1. /\ spc[c] = "busy" /\ kpc[p] = "forkadd" /\ cs = "free"
      /\ state' = [state EXCEPT ![np] = "RUNNABLE"]
      /\ kpc' = [kpc EXCEPT ![np] = "user", ![p] = "user"]
      /\ child' = [child EXCEPT ![p] = NULL]
      /\ UNCHANGED <<parent, chan, lockVars>>
  BY DEF forkAdds, At
<1>2. p \in Procs /\ state[p] = "RUNNING"
  BY <1>1, CurrentProcess
<1>3. np \in Procs /\ state[np] = "EMBRYO" /\ parent[np] = p
  BY <1>1, <1>2 DEF IInv, ForkOwnsChild, FamilyInv, ForkSetsParent
<1> HIDE DEF np, p
<1>4. \A q \in Procs : /\ kpc'[q] = IF q \in {p, np} THEN "user" ELSE kpc[q]
                       /\ child'[q] = IF q = p THEN NULL ELSE child[q]
                       /\ state'[q] = IF q = np THEN "RUNNABLE" ELSE state[q]
  BY <1>1, <1>2, <1>3 DEF IInv, TypeOK
<1>5. ParentIsAlive'
  BY <1>1, <1>2, <1>3, <1>4 DEF FamilyInv, ParentIsAlive
<1>6. InitIsAlive'
  BY <1>1, <1>4, InitProcFacts DEF FamilyInv, InitIsAlive, AliveStates
<1>7. ForkSetsParent'
  <2>1. \A q \in Procs : state'[q] = "UNUSED" => parent'[q] = NULL
    BY <1>1, <1>4 DEF FamilyInv, ForkSetsParent
  <2>2. \A q \in Procs : kpc'[q] \in {"forkcopy", "forkadd"} =>
                           kpc'[q] = kpc[q] /\ child'[q] = child[q]
    BY <1>4
  <2> QED BY <1>1, <2>1, <2>2 DEF FamilyInv, ForkSetsParent
<1>8. \A q \in Procs : /\ WaitsForChild(q)' => WaitsForChild(q)
                       /\ Children(q)' = Children(q) /\ Zombies(q)' = Zombies(q)
  <2> TAKE q \in Procs
  <2>1. WaitsForChild(q)' => WaitsForChild(q)
    BY <1>4 DEF WaitsForChild
  <2>2. Children(q)' = Children(q)
    BY <1>1 DEF Children
  <2>3. \A z \in Procs : state'[z] = "ZOMBIE" <=> state[z] = "ZOMBIE"
    BY <1>3, <1>4
  <2>4. Zombies(q)' = Zombies(q)
    BY <2>2, <2>3 DEF Zombies, Children
  <2> QED BY <2>1, <2>2, <2>4
<1>9. WaitersAreTold' /\ ExitInProgress'
  BY <1>1, <1>8 DEF FamilyInv, WaitersAreTold, ExitInProgress, lockVars
<1> QED BY <1>5, <1>6, <1>7, <1>9 DEF FamilyInv

\* Who sleeps in wait() sleeps on itself, so the wakeup of the parent finds it.
LEMMA exitWakesParentFamilies ==
  ASSUME IInv, FamilyInv, NEW c \in CPUs, exitWakesParent(c)
  PROVE  FamilyInv'
<1>1. /\ spc[c] = "busy" /\ kpc[proc[c]] = "exit" /\ cs = "free"
      /\ UNCHANGED <<procVars, kpc, child, nextpid, rq, schedVars>>
  BY DEF exitWakesParent, At
<1>2. UNCHANGED <<state, parent, chan, kpc, child, proc>>
  BY <1>1 DEF procVars, schedVars
<1>3. CASE proc[c] = InitProc
  <2>1. UNCHANGED lockVars
    BY <1>3 DEF exitWakesParent
  <2> QED BY <1>2, <2>1, LockUntouched DEF lockVars
<1>4. CASE proc[c] # InitProc
  <2>1. cs' = "exit" /\ csCpu' = c /\ wk' = Sleepers(parent[proc[c]])
    BY <1>4 DEF exitWakesParent
  <2>2. ParentIsAlive' /\ InitIsAlive' /\ ForkSetsParent'
    BY <1>2 DEF FamilyInv, ParentIsAlive, InitIsAlive, ForkSetsParent
  <2>3. \A q \in Procs : WaitsForChild(q) => Zombies(q) = {} /\ Children(q) # {} /\ chan[q] = q
    BY <1>1 DEF FamilyInv, WaitersAreTold, IInv, LockDiscipline
  <2>4. \A q \in Procs : /\ WaitsForChild(q)' = WaitsForChild(q)
                         /\ Children(q)' = Children(q) /\ Zombies(q)' = Zombies(q)
    BY <1>2 DEF WaitsForChild, Children, Zombies
  <2>5. WaitersAreTold'
    BY <1>2, <2>3, <2>4 DEF WaitersAreTold
  <2>6. \A q \in Procs : parent[proc[c]] = q /\ WaitsForChild(q) => q \in Sleepers(parent[proc[c]])
    BY <2>3 DEF WaitsForChild, Sleepers
  <2>7. ExitInProgress'
    BY <1>2, <1>4, <2>1, <2>4, <2>6 DEF ExitInProgress
  <2> QED BY <2>2, <2>5, <2>7 DEF FamilyInv
<1> QED BY <1>3, <1>4

\* init, asleep in wait(), is woken when it inherits a ZOMBIE.
LEMMA exitReparentsFamilies == ASSUME IInv, FamilyInv, exitReparents PROVE FamilyInv'
<1> DEFINE e == proc[csCpu]
<1>1. /\ cs = "exit" /\ wk = {} /\ cs' = "exit2"
      /\ parent' = [q \in Procs |-> IF parent[q] = e THEN InitProc ELSE parent[q]]
      /\ wk' = IF Zombies(e) # {} THEN Sleepers(InitProc) ELSE {}
      /\ UNCHANGED <<state, chan, kpc, child, csCpu, proc>>
  BY DEF exitReparents, schedVars
<1>2. e \in Procs /\ e # NULL /\ state[e] = "RUNNING" /\ kpc[e] = "exit"
  BY <1>1, ExitingProcess
<1>3. e # InitProc /\ \A p \in Procs : parent[e] = p => ~ WaitsForChild(p)
  BY <1>1 DEF FamilyInv, ExitInProgress
<1> HIDE DEF e
<1>4. \A q \in Procs : parent'[q] = IF parent[q] = e THEN InitProc ELSE parent[q]
  BY <1>1
<1>5. ParentIsAlive'
  <2>1. state[InitProc] \in AliveStates
    BY DEF FamilyInv, InitIsAlive
  <2> QED BY <1>1, <1>4, <2>1, InitProcFacts DEF FamilyInv, ParentIsAlive, AliveStates
<1>6. InitIsAlive'
  BY <1>1, <1>2, <1>3, <1>4, InitProcFacts DEF FamilyInv, InitIsAlive
<1>7. ForkSetsParent'
  <2>1. \A q \in Procs : kpc[q] \in {"forkcopy", "forkadd"} => child[q] \in Procs /\ q # e
    BY <1>2 DEF IInv, ForkOwnsChild
  <2> QED BY <1>1, <1>2, <1>4, <2>1 DEF FamilyInv, ForkSetsParent
<1>8. \A q \in Procs : WaitsForChild(q)' <=> WaitsForChild(q)
  BY <1>1 DEF WaitsForChild
<1>9. WaitersAreTold'
  <2> SUFFICES ASSUME NEW p \in Procs, WaitsForChild(p)
               PROVE  chan[p] = p /\ Children(p)' # {} /\ (Zombies(p)' # {} => p \in wk')
    BY <1>1, <1>8 DEF WaitersAreTold
  <2>1. chan[p] = p /\ Children(p) # {} /\ Zombies(p) = {} /\ p # e
    BY <1>1, <1>2 DEF FamilyInv, WaitersAreTold, WaitsForChild
  <2>2. Children(p) \subseteq Children(p)'
    BY <1>4, <2>1 DEF Children
  <2>3. CASE p = InitProc
    <3>1. Zombies(p)' = Zombies(p) \cup Zombies(e)
      BY <1>1, <1>4, <2>3 DEF Zombies, Children
    <3>2. p \in Sleepers(InitProc)
      BY <2>1, <2>3 DEF Sleepers, WaitsForChild
    <3> QED BY <1>1, <2>1, <2>2, <3>1, <3>2
  <2>4. CASE p # InitProc
    <3>1. Zombies(p)' \subseteq Zombies(p)
      BY <1>1, <1>4, <2>4 DEF Zombies, Children
    <3> QED BY <2>1, <2>2, <3>1
  <2> QED BY <2>3, <2>4
<1>10. ExitInProgress'
  <2>1. \A q \in Procs : parent'[q] # e
    BY <1>3, <1>4
  <2>2. parent'[e] = parent[e]
    BY <1>2, <1>4 DEF FamilyInv, InitIsAlive
  <2> QED BY <1>1, <1>3, <1>8, <2>1, <2>2 DEF ExitInProgress, e
<1> QED BY <1>5, <1>6, <1>7, <1>9, <1>10 DEF FamilyInv

\* The process that dies is childless, and its parent is awake.
LEMMA exitSchedFamilies == ASSUME IInv, FamilyInv, exitSched PROVE FamilyInv'
<1> DEFINE e == proc[csCpu]
<1>1. /\ cs = "exit2" /\ wk = {} /\ cs' = "free" /\ wk' = wk
      /\ state' = [state EXCEPT ![e] = "ZOMBIE"] /\ Goto(e, "zombie")
      /\ UNCHANGED <<parent, chan, child>>
  BY DEF exitSched
<1>2. e \in Procs /\ e # NULL /\ state[e] = "RUNNING" /\ kpc[e] = "exit"
  BY <1>1, ExitingProcess
<1>3. /\ e # InitProc /\ \A p \in Procs : parent[e] = p => ~ WaitsForChild(p)
      /\ \A q \in Procs : parent[q] # e
  BY <1>1 DEF FamilyInv, ExitInProgress
<1> HIDE DEF e
<1>4. \A q \in Procs : /\ state'[q] = IF q = e THEN "ZOMBIE" ELSE state[q]
                       /\ kpc'[q] = IF q = e THEN "zombie" ELSE kpc[q]
  BY <1>1, <1>2 DEF Goto, IInv, TypeOK
<1>5. ParentIsAlive'
  BY <1>1, <1>2, <1>3, <1>4 DEF FamilyInv, ParentIsAlive
<1>6. InitIsAlive'
  BY <1>1, <1>3, <1>4, InitProcFacts DEF FamilyInv, InitIsAlive
<1>7. ForkSetsParent'
  BY <1>1, <1>4 DEF FamilyInv, ForkSetsParent
<1>8. WaitersAreTold'
  <2> SUFFICES ASSUME NEW p \in Procs, WaitsForChild(p)'
               PROVE  chan[p] = p /\ Children(p)' # {} /\ Zombies(p)' = {}
    BY <1>1 DEF WaitersAreTold
  <2>1. WaitsForChild(p) /\ parent[e] # p
    BY <1>3, <1>4 DEF WaitsForChild
  <2>2. chan[p] = p /\ Children(p) # {} /\ Zombies(p) = {}
    BY <1>1, <2>1 DEF FamilyInv, WaitersAreTold
  <2>3. Children(p)' = Children(p) /\ Zombies(p)' = Zombies(p)
    BY <1>1, <1>4, <2>1 DEF Children, Zombies
  <2> QED BY <2>2, <2>3
<1>9. ExitInProgress'
  BY <1>1 DEF ExitInProgress
<1> QED BY <1>5, <1>6, <1>7, <1>8, <1>9 DEF FamilyInv

\* The child that is reaped was nobody's parent, and had the one that reaps.
LEMMA waitReapsFamilies == ASSUME IInv, FamilyInv, NEW c \in CPUs, waitReaps(c) PROVE FamilyInv'
<1> DEFINE p == proc[c]
           z == Min(Zombies(p))
<1>1. /\ spc[c] = "busy" /\ cs \in {"free", "wait"} /\ Zombies(p) # {}
      /\ Goto(p, "user") /\ ReleaseTable
      /\ parent' = [parent EXCEPT ![z] = NULL] /\ state' = [state EXCEPT ![z] = "UNUSED"]
      /\ UNCHANGED <<chan, child>>
  BY DEF waitReaps, InWait, At
<1>2. p \in Procs /\ state[p] = "RUNNING"
  BY <1>1, CurrentProcess
<1>3. z \in Procs /\ state[z] = "ZOMBIE" /\ parent[z] = p
  BY <1>1, ReapedIsChild
<1> HIDE DEF p, z
<1>4. \A q \in Procs : /\ kpc'[q] = IF q = p THEN "user" ELSE kpc[q]
                       /\ state'[q] = IF q = z THEN "UNUSED" ELSE state[q]
                       /\ parent'[q] = IF q = z THEN NULL ELSE parent[q]
  BY <1>1, <1>2, <1>3 DEF Goto, IInv, TypeOK
<1>5. ParentIsAlive'
  BY <1>3, <1>4 DEF FamilyInv, ParentIsAlive
<1>6. InitIsAlive'
  BY <1>3, <1>4, InitProcFacts DEF FamilyInv, InitIsAlive, AliveStates
<1>7. ForkSetsParent'
  <2>1. \A q \in Procs : kpc[q] \in {"forkcopy", "forkadd"} => child[q] \in Procs /\ child[q] # z
    BY <1>3 DEF IInv, ForkOwnsChild
  <2> QED BY <1>1, <1>3, <1>4, <2>1 DEF FamilyInv, ForkSetsParent
<1>8. cs' = "free" /\ wk' = wk /\ wk = {}
  BY <1>1 DEF ReleaseTable, IInv, LockDiscipline
<1>9. WaitersAreTold'
  <2> SUFFICES ASSUME NEW q \in Procs, WaitsForChild(q)'
               PROVE  chan[q] = q /\ Children(q)' # {} /\ Zombies(q)' = {}
    BY <1>1 DEF WaitersAreTold
  <2>1. WaitsForChild(q) /\ q # p
    BY <1>2, <1>4 DEF WaitsForChild
  <2>2. chan[q] = q /\ Children(q) # {} /\ Zombies(q) = {}
    BY <1>8, <2>1 DEF FamilyInv, WaitersAreTold
  <2>3. Children(q)' = Children(q) /\ Zombies(q)' = Zombies(q)
    BY <1>3, <1>4, <2>1, InitProcFacts DEF Children, Zombies
  <2> QED BY <2>2, <2>3
<1>10. ExitInProgress'
  BY <1>8 DEF ExitInProgress
<1> QED BY <1>5, <1>6, <1>7, <1>9, <1>10 DEF FamilyInv

-------------------------------------------------------------------------------
(* The theorems on families. *)

LEMMA FamilyNext == IInv /\ FamilyInv /\ [Next]_vars => FamilyInv'
<1> SUFFICES ASSUME IInv, FamilyInv, [Next]_vars PROVE FamilyInv'
  OBVIOUS
<1>1. ASSUME NEW c \in CPUs, Syscall(c) PROVE FamilyInv'
  <2>1. CASE sysReturns(c) \/ sys_exit(c)
    BY <2>1, MoveFamilies
  <2>2. CASE allocproc(c) \/ forkFails(c) \/ forkCopies(c) \/ forkAdds(c)
    BY <2>2, allocprocFamilies, forkFailsFamilies, forkCopiesFamilies, forkAddsFamilies
  <2>3. CASE \E ch \in Chans : sleep(c, ch)
    BY <2>3, LeaveFamilies
  <2>4. CASE \E n \in KillArgs : kill(c, n)
    BY <2>4, WakeFamilies
  <2>5. CASE exitWakesParent(c)
    BY <2>5, exitWakesParentFamilies
  <2>6. CASE waitReaps(c) \/ waitFails(c) \/ waitSleeps(c)
    BY <2>6, waitReapsFamilies, MoveFamilies, waitSleepsFamilies
  <2>7. CASE \/ \E t \in TicketArgs : sys_settickets(c, t)
             \/ \E n \in KillArgs, t \in TicketArgs : sys_settickets_pid(c, n, t)
    <3>1. \E p, t : SetTickets(c, p, t)
      BY <2>7 DEF sys_settickets, sys_settickets_pid
    <3> QED BY <3>1, MoveFamilies
  <2> QED BY <1>1, <2>1, <2>2, <2>3, <2>4, <2>5, <2>6, <2>7 DEF Syscall
<1>2. ASSUME NEW c \in CPUs, CpuStep(c) PROVE FamilyInv'
  <2>1. CASE Trap(c)
    BY <2>1, MoveFamilies
  <2>2. CASE yield(c)
    BY <2>2, LeaveFamilies
  <2>3. CASE Scheduler(c)
    BY <2>3, LockFamilies, runFamilies DEF Scheduler
  <2> QED BY <1>1, <1>2, <2>1, <2>2, <2>3 DEF CpuStep
<1>3. ASSUME NEW c \in CPUs, NEW ch \in Chans, wakeup(c, ch) PROVE FamilyInv'
  BY <1>3, LockFamilies
<1>4. CASE LockHolderStep
  BY <1>4, WakeFamilies, LockFamilies, exitReparentsFamilies, exitSchedFamilies
     DEF LockHolderStep
<1>5. CASE UNCHANGED vars
  BY <1>5, LockUntouched DEF vars, procVars, schedVars, lockVars
<1> QED BY <1>2, <1>3, <1>4, <1>5 DEF Next

\* What keeps families whole is inductive given IInv: an exit() that has handed its children to
\* init tells it of the ZOMBIEs, and a parent cannot fall asleep between the two.
THEOREM FamilyInvHolds == Spec => []FamilyInv
<1>1. Init => FamilyInv
  BY InitFamily
<1>2. IInv /\ FamilyInv /\ [Next]_vars => FamilyInv'
  BY FamilyNext
<1> QED BY <1>1, <1>2, IInvHolds, PTL DEF Spec

\* Whatever the number of processes and CPUs: every process has a parent that is alive, and
\* nobody stays asleep in wait() over a ZOMBIE when ptable_lock is free.
THEOREM FamiliesCorrect == Spec => []FamiliesStayWhole
<1>1. IInv /\ FamilyInv => FamiliesStayWhole
  BY DEF IInv, LockDiscipline, FamilyInv, WaitersAreTold, WaitsForChild, FamiliesStayWhole,
         NoZombieMissed
<1> QED BY <1>1, IInvHolds, FamilyInvHolds, PTL

-------------------------------------------------------------------------------
(* The lottery kernel implements ProcLifecycle: each step is a step of the life of one    *)
(* process, or changes nothing that ProcLifecycle sees.                                   *)

LEMMA LifecycleInit == Init => Lifecycle!Init
  BY DEF Init, Lifecycle!Init

\* What the abstract specification sees of the processes' moves between states.
LEMMA LeaveRefines ==
  ASSUME IInv, NEW c \in CPUs, spc[c] = "busy",
         NEW to \in {"RUNNABLE", "SLEEPING", "ZOMBIE"},
         state' = [state EXCEPT ![proc[c]] = to],
         SwitchToScheduler(c), parent' = parent,
         to = "ZOMBIE" => proc[c] # InitProc /\ \A q \in Procs : parent[q] # proc[c]
  PROVE  Lifecycle!Next
<1>1. proc[c] \in Procs /\ proc[c] # NULL /\ state[proc[c]] = "RUNNING"
  BY CurrentProcess
<1>2. Lifecycle!Leave(c, to)
  BY <1>1 DEF Lifecycle!Leave, Lifecycle!Move, SwitchToScheduler
<1> QED BY <1>2 DEF Lifecycle!Next

LEMMA WakeRefines ==
  ASSUME TypeOK, NEW p \in Procs, state[p] = "SLEEPING",
         state' = [state EXCEPT ![p] = "RUNNABLE"], UNCHANGED <<parent, proc>>
  PROVE  Lifecycle!Next
<1>1. state' = [q \in Procs |-> IF q \in {p} THEN "RUNNABLE" ELSE state[q]]
  BY DEF TypeOK
<1>2. Lifecycle!Wake({p})
  BY <1>1 DEF Lifecycle!Wake
<1> QED BY <1>2 DEF Lifecycle!Next

LEMMA SyscallRefines ==
  ASSUME IInv, FamilyInv, NEW c \in CPUs, Syscall(c)
  PROVE  [Lifecycle!Next]_(Lifecycle!vars)
<1> USE DEF Lifecycle!vars
<1>1. CASE sysReturns(c) \/ sys_exit(c) \/ waitFails(c) \/ exitWakesParent(c)
  BY <1>1 DEF sysReturns, sys_exit, waitFails, exitWakesParent, procVars, schedVars
<1>2. CASE allocproc(c)
  <2> DEFINE free == {q \in Procs : state[q] = "UNUSED"}
             np == Min(free)
  <2>1. /\ spc[c] = "busy" /\ free # {} /\ state' = [state EXCEPT ![np] = "EMBRYO"]
        /\ UNCHANGED <<parent, proc>>
    BY <1>2 DEF allocproc, At, schedVars
  <2>2. np \in free
    BY <2>1, MinIsMember
  <2>3. np \in Procs /\ state[np] = "UNUSED"
    BY <2>2
  <2>4. proc[c] # NULL
    BY <2>1, CurrentProcess
  <2> HIDE DEF np
  <2>5. Lifecycle!Claim(c, np)
    BY <2>1, <2>3, <2>4 DEF Lifecycle!Claim, Lifecycle!Move
  <2> QED BY <2>3, <2>5 DEF Lifecycle!Next
<1>3. CASE forkFails(c) \/ forkCopies(c)
  <2> DEFINE p == proc[c]
             np == child[p]
  <2>1. spc[c] = "busy" /\ kpc[p] = "forkcopy" /\ proc' = proc
    BY <1>3 DEF forkFails, forkCopies, At, schedVars
  <2>2. p \in Procs /\ p # NULL
    BY <2>1, CurrentProcess
  <2>3. np \in Procs /\ state[np] = "EMBRYO" /\ parent[np] = NULL
    BY <2>1, <2>2 DEF IInv, ForkOwnsChild, FamilyInv, ForkSetsParent
  <2>4. CASE forkFails(c)
    <3>1. Lifecycle!Abandon(c, np)
      BY <2>1, <2>2, <2>3, <2>4 DEF forkFails, Lifecycle!Abandon, Lifecycle!Move
    <3> QED BY <2>3, <3>1 DEF Lifecycle!Next
  <2>5. CASE forkCopies(c)
    <3>1. Lifecycle!Own(c, np)
      BY <2>1, <2>2, <2>3, <2>5 DEF forkCopies, Lifecycle!Own
    <3> QED BY <2>3, <3>1 DEF Lifecycle!Next
  <2> QED BY <1>3, <2>4, <2>5
<1>4. CASE forkAdds(c)
  <2> DEFINE p == proc[c]
             np == child[p]
  <2>1. /\ spc[c] = "busy" /\ kpc[p] = "forkadd" /\ UNCHANGED <<parent, proc>>
        /\ state' = [state EXCEPT ![np] = "RUNNABLE"]
    BY <1>4 DEF forkAdds, At, schedVars
  <2>2. p \in Procs /\ p # NULL
    BY <2>1, CurrentProcess
  <2>3. np \in Procs /\ state[np] = "EMBRYO" /\ parent[np] = p
    BY <2>1, <2>2 DEF IInv, ForkOwnsChild, FamilyInv, ForkSetsParent
  <2>4. Lifecycle!Publish(c, np)
    BY <2>1, <2>2, <2>3 DEF Lifecycle!Publish, Lifecycle!Move
  <2> QED BY <2>3, <2>4 DEF Lifecycle!Next
<1>5. CASE waitSleeps(c) \/ \E ch \in Chans : sleep(c, ch)
  <2>1. /\ spc[c] = "busy" /\ SwitchToScheduler(c) /\ parent' = parent
        /\ state' = [state EXCEPT ![proc[c]] = "SLEEPING"]
    BY <1>5 DEF waitSleeps, InWait, sleep, At
  <2> QED BY <2>1, LeaveRefines
<1>6. CASE waitReaps(c)
  <2> DEFINE p == proc[c]
             z == Min(Zombies(p))
  <2>1. /\ spc[c] = "busy" /\ Zombies(p) # {} /\ proc' = proc
        /\ state' = [state EXCEPT ![z] = "UNUSED"] /\ parent' = [parent EXCEPT ![z] = NULL]
    BY <1>6 DEF waitReaps, InWait, At, schedVars
  <2>2. p # NULL
    BY <2>1, CurrentProcess
  <2>3. z \in Procs /\ state[z] = "ZOMBIE" /\ parent[z] = p
    BY <2>1, ReapedIsChild
  <2> HIDE DEF z
  <2>4. Lifecycle!Reap(c, z)
    BY <2>1, <2>2, <2>3 DEF Lifecycle!Reap, Lifecycle!Move
  <2> QED BY <2>3, <2>4 DEF Lifecycle!Next
<1>7. CASE \E n \in KillArgs : kill(c, n)
  <2>1. PICK n \in KillArgs : kill(c, n)
    BY <1>7
  <2> DEFINE found == {q \in Procs : pid[q] = n}
             v == Min(found)
  <2>2. /\ found # {} /\ UNCHANGED <<parent, schedVars>>
        /\ IF state[v] = "SLEEPING"
           THEN state' = [state EXCEPT ![v] = "RUNNABLE"] /\ Enqueue(v)
           ELSE UNCHANGED <<state, rq, panicked>>
    BY <2>1 DEF kill
  <2>3. v \in Procs
    BY <2>2, MinIsMember
  <2> HIDE DEF v
  <2>4. CASE state[v] = "SLEEPING"
    BY <2>2, <2>3, <2>4, WakeRefines DEF schedVars, IInv
  <2>5. CASE state[v] # "SLEEPING"
    BY <2>2, <2>5 DEF schedVars
  <2> QED BY <2>4, <2>5
<1>8. CASE \/ \E t \in TicketArgs : sys_settickets(c, t)
           \/ \E n \in KillArgs, t \in TicketArgs : sys_settickets_pid(c, n, t)
  BY <1>8 DEF sys_settickets, sys_settickets_pid, SetTickets, schedVars
<1> QED BY <1>1, <1>2, <1>3, <1>4, <1>5, <1>6, <1>7, <1>8 DEF Syscall

LEMMA StepRefines ==
  IInv /\ FamilyInv /\ [Next]_vars => [Lifecycle!Next]_(Lifecycle!vars)
<1> SUFFICES ASSUME IInv, FamilyInv, [Next]_vars
             PROVE  [Lifecycle!Next]_(Lifecycle!vars)
  OBVIOUS
<1> USE DEF Lifecycle!vars
<1>1. ASSUME NEW c \in CPUs, CpuStep(c) PROVE [Lifecycle!Next]_(Lifecycle!vars)
  <2>1. CASE Trap(c)
    BY <2>1 DEF Trap, schedVars
  <2>2. CASE yield(c)
    <3>1. /\ spc[c] = "busy" /\ SwitchToScheduler(c) /\ parent' = parent
          /\ state' = [state EXCEPT ![proc[c]] = "RUNNABLE"]
      BY <2>2 DEF yield
    <3> QED BY <3>1, LeaveRefines
  <2>3. CASE Syscall(c)
    BY <2>3, SyscallRefines
  <2>4. CASE selectTotal(c)
    BY <2>4 DEF selectTotal, procVars
  <2>5. CASE selectDraw(c)
    <3>1. UNCHANGED <<procVars, proc>>
      BY <2>5, Zenon DEF selectDraw
    <3> QED BY <3>1 DEF procVars
  <2>6. CASE run(c)
    <3> DEFINE p == sel[c]
    <3>1. /\ spc[c] = "run" /\ parent' = parent /\ proc' = [proc EXCEPT ![c] = p]
          /\ state' = [state EXCEPT ![p] = "RUNNING"]
      BY <2>6 DEF run, Resume
    <3>2. p \in Procs /\ state[p] = "RUNNABLE" /\ proc[c] = NULL
      BY <3>1 DEF IInv, SelectionStaysValid, Members, SchedMatchesProc
    <3>3. Lifecycle!Dispatch(c, p)
      BY <3>1, <3>2 DEF Lifecycle!Dispatch, Lifecycle!Move
    <3> QED BY <3>2, <3>3 DEF Lifecycle!Next
  <2> QED BY <1>1, <2>1, <2>2, <2>3, <2>4, <2>5, <2>6 DEF CpuStep, Scheduler
<1>2. ASSUME NEW c \in CPUs, NEW ch \in Chans, wakeup(c, ch)
      PROVE  [Lifecycle!Next]_(Lifecycle!vars)
  BY <1>2 DEF wakeup, procVars, schedVars
<1>3. CASE wakeup1
  <2>1. wk # {} /\ wk \in SUBSET Procs
    BY <1>3 DEF wakeup1, IInv, TypeOK
  <2>2. Min(wk) \in wk /\ Min(wk) \in Procs
    BY <2>1, MinIsMember
  <2>3. state[Min(wk)] = "SLEEPING"
    BY <2>2 DEF IInv, LockDiscipline
  <2> QED BY <1>3, <2>2, <2>3, WakeRefines DEF wakeup1, schedVars, IInv
<1>4. CASE wakeupDone
  BY <1>4 DEF wakeupDone, procVars, schedVars
<1>5. CASE exitReparents
  <2>1. /\ cs = "exit" /\ UNCHANGED <<state, proc>>
        /\ parent' = [q \in Procs |-> IF parent[q] = proc[csCpu] THEN InitProc ELSE parent[q]]
    BY <1>5 DEF exitReparents, schedVars
  <2>2. csCpu \in CPUs /\ proc[csCpu] # NULL /\ proc[csCpu] # InitProc
    BY <2>1, ExitingProcess DEF FamilyInv, ExitInProgress
  <2>3. Lifecycle!Adopt(csCpu)
    BY <2>1, <2>2 DEF Lifecycle!Adopt
  <2> QED BY <2>2, <2>3 DEF Lifecycle!Next
<1>6. CASE exitSched
  <2>1. /\ cs = "exit2" /\ SwitchToScheduler(csCpu) /\ parent' = parent
        /\ state' = [state EXCEPT ![proc[csCpu]] = "ZOMBIE"]
    BY <1>6 DEF exitSched
  <2>2. csCpu \in CPUs /\ spc[csCpu] = "busy"
    BY <2>1, ExitingProcess
  <2>3. proc[csCpu] # InitProc /\ \A q \in Procs : parent[q] # proc[csCpu]
    BY <2>1 DEF FamilyInv, ExitInProgress
  <2> QED BY <2>1, <2>2, <2>3, LeaveRefines
<1>7. CASE UNCHANGED vars
  BY <1>7 DEF vars, procVars, schedVars
<1> QED BY <1>1, <1>2, <1>3, <1>4, <1>5, <1>6, <1>7 DEF Next, LockHolderStep

\* Every behaviour of the lottery kernel is a life of processes: fork, exit, wait, kill and
\* the schedulers move them from state to state only as ProcLifecycle allows.
THEOREM LifecycleImplemented == Spec => RefinesLifecycle
<1>1. Init => Lifecycle!Init
  BY LifecycleInit
<1>2. IInv /\ FamilyInv /\ [Next]_vars => [Lifecycle!Next]_(Lifecycle!vars)
  BY StepRefines
<1> QED BY <1>1, <1>2, IInvHolds, FamilyInvHolds, PTL DEF Spec, RefinesLifecycle, Lifecycle!Spec

=============================================================================
