----------------------------- MODULE PrioRunqueue -----------------------------
(***************************************************************************)
(* The per-CPU run queues of priority-scheduler/runqueue.c: one linked     *)
(* list per priority, linked through p->next, and a count.  Priority SHORT *)
(* (5 in the code) has the list of its own that the code calls             *)
(* short_lived; rq_select() looks there first.                             *)
(*                                                                         *)
(* All queues of all CPUs are one record q, because p->next is a field of  *)
(* the process: head[c][k] and tail[c][k] are the list of priority k on    *)
(* CPU c, count[c] its count, next[p] the link.  fault is what went wrong: *)
(* a panic, or a traversal that never ends.                                *)
(***************************************************************************)
EXTENDS Integers, FiniteSets, FiniteSetsExt

CONSTANTS NPROC,      \* number of slots of ptable (param.h: 64)
          MAX_PROCS,  \* capacity of one run queue (runqueue.h: 64)
          NCPU,       \* number of CPUs found by mpinit
          LOWEST,     \* lowest priority (10)
          SHORT       \* priority of the short-lived list, the default (5)

ASSUME PrioSizesAssumption ==
  /\ NPROC \in Nat \ {0} /\ MAX_PROCS \in Nat \ {0} /\ NPROC <= MAX_PROCS
  /\ NCPU \in Nat \ {0}
  /\ LOWEST \in Nat /\ SHORT \in 0 .. LOWEST

NULL  == 0
Procs == 1 .. NPROC
CPUs  == 0 .. (NCPU - 1)
Prios == 0 .. LOWEST

QueueFaults == {"none", "runqueue full", "null tail", "endless list"}

Queues == [head  : [CPUs -> [Prios -> Procs \cup {NULL}]],
           tail  : [CPUs -> [Prios -> Procs \cup {NULL}]],
           count : [CPUs -> Int],
           next  : [Procs -> Procs \cup {NULL}],
           fault : QueueFaults]

\* The nodes a traversal of list k of CPU c meets, in order; NULL behind the end.
Nodes(q, c, k) ==
  LET node[i \in 0 .. NPROC] ==
        IF i = 0 THEN q.head[c][k]
        ELSE IF node[i - 1] = NULL THEN NULL ELSE q.next[node[i - 1]]
  IN  node

ListMembers(q, c, k) == {Nodes(q, c, k)[i] : i \in 0 .. NPROC} \ {NULL}

\* NPROC processes cannot be NPROC + 1 different nodes.
Ends(q, c, k) == Nodes(q, c, k)[NPROC] = NULL

rq_init ==
  [head  |-> [c \in CPUs |-> [k \in Prios |-> NULL]],
   tail  |-> [c \in CPUs |-> [k \in Prios |-> NULL]],
   count |-> [c \in CPUs |-> 0],
   next  |-> [p \in Procs |-> NULL],
   fault |-> "none"]

\* rq_add(&cpus[c].rq, p) with p->priority = k: append to the list.
rq_add(q, c, p, k) ==
  LET last == q.tail[c][k]
      cleared == [q.next EXCEPT ![p] = NULL]
  IN
  IF q.count[c] >= MAX_PROCS THEN [q EXCEPT !.fault = "runqueue full"]
  ELSE IF q.head[c][k] = NULL
  THEN [q EXCEPT !.head[c][k] = p, !.tail[c][k] = p, !.next = cleared, !.count[c] = @ + 1]
  ELSE IF last = NULL THEN [q EXCEPT !.fault = "null tail"]
  ELSE [q EXCEPT !.tail[c][k] = p, !.next = [cleared EXCEPT ![last] = p], !.count[c] = @ + 1]

\* The tail stays behind when the last process of the list goes.
rq_remove_keepsTail(q, c, p, k) ==
  LET node == Nodes(q, c, k)
      i == Min({j \in 0 .. NPROC : node[j] = p})
  IN
  IF p \in ListMembers(q, c, k)
  THEN [q EXCEPT
          !.head[c][k] = IF i = 0 THEN q.next[p] ELSE @,
          !.next = [x \in Procs |-> IF x = p THEN NULL
                                    ELSE IF i > 0 /\ x = node[i - 1] THEN q.next[p] ELSE @[x]],
          !.count[c] = @ - 1]
  ELSE q

\* rq_remove(&cpus[c].rq, p) with p->priority = k: unlink the first occurrence; nothing
\* happens if p is not in that list, if the list ends at all.
rq_remove(q, c, p, k) ==
  LET node == Nodes(q, c, k)
      i == Min({j \in 0 .. NPROC : node[j] = p})
      prev == IF i = 0 THEN NULL ELSE node[i - 1]
  IN
  IF p \in ListMembers(q, c, k)
  THEN [q EXCEPT
          !.head[c][k] = IF prev = NULL THEN q.next[p] ELSE @,
          !.tail[c][k] = IF q.next[p] = NULL THEN prev ELSE @,
          !.next = [x \in Procs |-> IF x = p THEN NULL
                                    ELSE IF x = prev THEN q.next[p] ELSE @[x]],
          !.count[c] = @ - 1]
  ELSE IF Ends(q, c, k) THEN q ELSE [q EXCEPT !.fault = "endless list"]

\* The order in which rq_select() looks at the lists.
Rank(k) == IF k = SHORT THEN -1 ELSE k

NonEmpty(q, c) == {k \in Prios : q.head[c][k] # NULL}

\* The short-lived list is not looked at first.
BestList_inOrder(q, c) == Min(NonEmpty(q, c))

BestList(q, c) == CHOOSE k \in NonEmpty(q, c) : \A l \in NonEmpty(q, c) : Rank(k) <= Rank(l)

\* The process rq_select() returns, NULL if there is none.
Selected(q, c) ==
  IF q.count[c] = 0 \/ NonEmpty(q, c) = {} THEN NULL ELSE q.head[c][BestList(q, c)]

\* The queues after rq_select() has removed that process.
rq_select(q, c) ==
  LET k == BestList(q, c)
      p == q.head[c][k]
  IN
  IF Selected(q, c) = NULL THEN q
  ELSE [q EXCEPT !.head[c][k] = q.next[p],
                 !.tail[c][k] = IF q.next[p] = NULL THEN NULL ELSE @,
                 !.next[p] = NULL,
                 !.count[c] = @ - 1]
===============================================================================
