----------------------------- MODULE LotteryDraw ------------------------------
(***************************************************************************)
(* The draw of the lottery: rq_select() of lottery-scheduler/runqueue.c    *)
(* and rand_range() of rand.c, with the arithmetic of W-bit integers.      *)
(*                                                                         *)
(* rq.lock keeps the queue as it is during the draw.  The ticket counts    *)
(* are guarded by ptable_lock only, so settickets() on another CPU may     *)
(* change them in the middle.  rand() is any number up to RAND_MAX: the    *)
(* xorshift generator behind it is shared by all CPUs without a lock.      *)
(***************************************************************************)
EXTENDS Integers, Sequences, FiniteSets, FiniteSetsExt

CONSTANTS N,           \* bound: processes in the queue
          W,           \* bits of an int (32)
          TicketArgs,  \* ticket counts that programs ask for
          MaxChanges   \* bound: settickets() calls in a behaviour

NULL     == 0
Procs    == 1 .. N
RAND_MAX == 2^(W - 1) - 1   \* x & 0x7fffffff

\* Two's complement: what an int and an unsigned int hold.
Signed(x)   == ((x + 2^(W - 1)) % 2^W) - 2^(W - 1)
Unsigned(x) == x % 2^W

VARIABLES
  queue,     \* the processes in rq->procs, in order
  tickets,   \* p->tickets
  pc,        \* "sum", "shuffle", "draw", "pick", "done"
  total,     \* total_tickets
  temp,      \* temp_procs
  i,         \* index of the shuffle
  winner,
  selected,
  changes,   \* settickets() calls so far
  stale      \* one of them came after the sum

vars == <<queue, tickets, pc, total, temp, i, winner, selected, changes, stale>>

\* The ticket counts of the processes S added up.
TicketSum(S) == Signed(MapThenSumSet(LAMBDA p : IF tickets[p] < 1 THEN 1 ELSE tickets[p], S))

TypeOK ==
  /\ queue    \in UNION {[1 .. n -> Procs] : n \in 0 .. N}
  /\ tickets  \in [Procs -> TicketArgs]
  /\ pc       \in {"sum", "shuffle", "draw", "pick", "done"}
  /\ total    \in -2^(W - 1) .. 2^(W - 1) - 1
  /\ temp     \in UNION {[1 .. n -> Procs] : n \in 0 .. N}
  /\ i        \in 0 .. N
  /\ winner   \in 0 .. RAND_MAX
  /\ selected \in Procs \cup {NULL}
  /\ changes  \in 0 .. MaxChanges
  /\ stale    \in BOOLEAN

\* rq_select() is called with some processes queued.
Init ==
  /\ \E n \in 0 .. N : queue = [k \in 1 .. n |-> k]
  /\ tickets  \in [Procs -> TicketArgs]
  /\ pc       = "sum"
  /\ total    = 0
  /\ temp     = <<>>
  /\ i        = 0
  /\ winner   = 0
  /\ selected = NULL
  /\ changes  = 0
  /\ stale    = FALSE

-------------------------------------------------------------------------------
(* rand_range(max) *)

\* Numbers from here on are drawn again; max is converted to unsigned.
Threshold(max) == (RAND_MAX \div Unsigned(max)) * Unsigned(max)

\* Without the rejection of the top numbers.
Accepted_all(max) == 0 .. RAND_MAX

\* The numbers rand() may return that end the loop.
Accepted(max) == {r \in 0 .. RAND_MAX : r < Threshold(max)}

-------------------------------------------------------------------------------
(* rq_select() *)

Return(p) == pc' = "done" /\ selected' = p

\* Step 1, and the copy of the queue of step 2.
sum ==
  /\ pc = "sum"
  /\ total' = TicketSum({queue[k] : k \in DOMAIN queue})
  /\ temp'  = queue
  /\ i'     = Len(queue)
  /\ IF queue = <<>> \/ total' = 0 THEN Return(NULL)
     ELSE pc' = "shuffle" /\ UNCHANGED selected
  /\ UNCHANGED <<queue, tickets, winner, changes, stale>>

\* Step 4: swap the last of the first i processes with any of them.
shuffle ==
  /\ pc = "shuffle" /\ i > 1
  /\ \E r \in Accepted(i) :
       LET j == (r % i) + 1 IN
       temp' = [temp EXCEPT ![i] = temp[j], ![j] = temp[i]]
  /\ i' = i - 1
  /\ UNCHANGED <<queue, tickets, pc, total, winner, selected, changes, stale>>

shuffled ==
  /\ pc = "shuffle" /\ i <= 1
  /\ pc' = "draw"
  /\ UNCHANGED <<queue, tickets, total, temp, i, winner, selected, changes, stale>>

\* Step 5: a number below total_tickets ...
draw ==
  /\ pc = "draw"
  /\ \E r \in Accepted(total) : winner' = r % Unsigned(total)
  /\ pc' = "pick"
  /\ UNCHANGED <<queue, tickets, total, temp, i, selected, changes, stale>>

\* current_tickets + effective_tickets at the k-th process.
UpTo(k) == TicketSum({temp[j] : j \in 1 .. k})

\* The places whose ticket range the number has not passed; the first of them wins.
Winners(w) == {k \in DOMAIN temp : w < UpTo(k)}

Choice(w) == IF Winners(w) = {} THEN NULL ELSE temp[Min(Winners(w))]

\* ... and the process whose range it falls in, if the counts are still the same.
pick ==
  /\ pc = "pick"
  /\ Return(Choice(winner))
  /\ UNCHANGED <<queue, tickets, total, temp, i, winner, changes, stale>>

\* settickets() on another CPU, for a queued process or any other.
settickets(p, t) ==
  /\ changes < MaxChanges /\ pc # "done"
  /\ tickets' = [tickets EXCEPT ![p] = t]
  /\ changes' = changes + 1
  /\ stale'   = (pc # "sum")
  /\ UNCHANGED <<queue, pc, total, temp, i, winner, selected>>

rq_select == sum \/ shuffle \/ shuffled \/ draw \/ pick

Next == rq_select \/ \E p \in Procs, t \in TicketArgs : settickets(p, t)

Spec == Init /\ [][Next]_vars

\* The scheduler runs rq_select() with interrupts off, and the generator does not
\* return rejected numbers only.
FairSpec == Spec /\ WF_vars(rq_select)

-------------------------------------------------------------------------------
(* Properties. *)

\* The draw is proportional: of the numbers that rand_range() accepts, the share that
\* elects a process is its share of the tickets, in whatever order the shuffle left the
\* processes.  It holds while nobody changes the counts and their sum fits an int.
DrawIsProportional ==
  pc = "draw" /\ ~stale =>
    \A p \in Procs :
      total * Cardinality({r \in Accepted(total) : Choice(r % total) = p})
        = Cardinality(Accepted(total)) *
            (IF \E k \in DOMAIN queue : queue[k] = p THEN tickets[p] ELSE 0)

\* The shuffle loses and doubles nobody, at no step.
ShufflePermutes ==
  pc # "sum" => /\ DOMAIN temp = DOMAIN queue
                /\ {temp[k] : k \in DOMAIN temp} = {queue[k] : k \in DOMAIN queue}

\* Somebody is drawn unless the queue is empty, or the counts changed in the middle; and
\* nobody outside the queue is drawn even then.
SomebodyWins ==
  pc = "done" =>
    /\ selected # NULL => \E k \in DOMAIN queue : queue[k] = selected
    /\ selected = NULL => queue = <<>> \/ stale

\* Every process of the queue takes part in the draw once, and wins by its share.
DrawIsFair == TypeOK /\ DrawIsProportional /\ ShufflePermutes /\ SomebodyWins

\* rq_select() returns, so that rq.lock is released.
DrawEnds == <>(pc = "done")
===============================================================================
