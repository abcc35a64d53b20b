---------------------------- MODULE LotteryRunqueue ----------------------------
(***************************************************************************)
(* The per-CPU run queue of lottery-scheduler/runqueue.c: a fixed array    *)
(* procs[MAX_PROCS] of process pointers and a count.  A pointer is the     *)
(* slot number of the process in ptable (1..NPROC), the null pointer is 0. *)
(* Each operator is the body of the C function between its acquire and     *)
(* release of rq->lock.                                                    *)
(***************************************************************************)
EXTENDS Integers, FiniteSets

CONSTANTS NPROC,      \* number of slots of ptable (param.h: 64)
          MAX_PROCS   \* capacity of one run queue (runqueue.h: 64)

\* Both are 64 in the code; every process fits in one queue.
ASSUME SizesAssumption ==
  /\ NPROC \in Nat \ {0}
  /\ MAX_PROCS \in Nat \ {0}
  /\ NPROC <= MAX_PROCS

NULL  == 0
Procs == 1 .. NPROC
Slots == 0 .. (MAX_PROCS - 1)

Runqueues == [procs : [Slots -> Procs \cup {NULL}], count : 0 .. MAX_PROCS]

\* The processes some slot of the array points to.
Members(rq) == {p \in Procs : \E i \in Slots : rq.procs[i] = p}

\* First slot that holds x, scanning upwards as both loops do.
FirstSlot(rq, x) ==
  CHOOSE i \in Slots : /\ rq.procs[i] = x
                       /\ \A j \in Slots : j < i => rq.procs[j] # x

rq_init == [procs |-> [i \in Slots |-> NULL], count |-> 0]

\* Off by one: the panic comes one process early.
RqFull_early(rq) == rq.count >= MAX_PROCS - 1

\* "runqueue full": the panic of rq_add.
RqFull(rq) == rq.count >= MAX_PROCS

\* Stores p in the first empty slot; nothing happens if there is none.
rq_add(rq, p) ==
  IF \E i \in Slots : rq.procs[i] = NULL
  THEN [procs |-> [rq.procs EXCEPT ![FirstSlot(rq, NULL)] = p],
        count |-> rq.count + 1]
  ELSE rq

\* The last slot is not cleared after its process has moved.
rq_remove_keepsLast(rq, p) ==
  IF \E i \in Slots : rq.procs[i] = p
  THEN [procs |-> [rq.procs EXCEPT ![FirstSlot(rq, p)] = rq.procs[rq.count - 1]],
        count |-> rq.count - 1]
  ELSE rq

\* The count goes down whether p was found or not.
rq_remove_alwaysCounts(rq, p) ==
  [procs |-> [i \in Slots |-> IF rq.procs[i] = p THEN NULL ELSE rq.procs[i]],
   count |-> rq.count - 1]

\* Moves the last process into the slot of p; nothing happens if p is absent.
rq_remove(rq, p) ==
  IF \E i \in Slots : rq.procs[i] = p
  THEN LET i    == FirstSlot(rq, p)
           last == rq.count - 1
       IN  [procs |-> [[rq.procs EXCEPT ![i] = rq.procs[last]]
                          EXCEPT ![last] = NULL],
            count |-> last]
  ELSE rq

\* The representation invariant the three functions rely on and preserve: the
\* array is compact and lists no process twice.
WellFormed(rq) ==
  /\ rq \in Runqueues
  /\ \A i \in Slots : rq.procs[i] # NULL <=> i < rq.count
  /\ \A i, j \in Slots : rq.procs[i] # NULL /\ rq.procs[i] = rq.procs[j] => i = j
================================================================================
