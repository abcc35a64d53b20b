----------------------------- MODULE MC_KernelParts ---------------------------
(***************************************************************************)
(* Three parts of the kernel side by side, none of which shares state with *)
(* another: the pages of memory, the draw of the lottery and the clock.  A *)
(* behaviour is one of them, by topic; the variables of the others stay as *)
(* they are initially.                                                     *)
(*                                                                         *)
(* The calls that want memory are any, or those of sbrktest of             *)
(* usertests.c: a process grows by bytes, shares its size with a child,    *)
(* grows to something big, shrinks and grows again, and survives a child   *)
(* that takes all the memory.  The first process is the test.  It starts   *)
(* one child at a time where the test starts ten, and what its children    *)
(* find above KERNBASE is the business of the hardware: they exit.         *)
(***************************************************************************)
EXTENDS Memory, SequencesExt

VARIABLES todo,  \* the calls that a process of the test still makes
          test,  \* "sbrktest", or "none": any calls
          wrong  \* sbrk(0) was not what the test expects

testVars == <<todo, test, wrong>>

\* sbrk(n) when sbrk(0) is at.
Sbrk(n, at) == <<[op |-> "sbrk", n |-> n, at |-> at]>>
Do(op)      == <<[op |-> op]>>
Fork(calls) == <<[op |-> "fork", child |-> calls]>>

oldbrk == PGSIZE
BIG    == Size - 1
top    == 2 * PGSIZE + 2

sbrktest ==
  FlattenSeq([i \in 1 .. PGSIZE |-> Sbrk(1, oldbrk + i - 1)])
  \o Fork(Sbrk(1, top - 2) \o Sbrk(1, top - 1) \o Do("exit"))
  \o Sbrk(1, top - 2) \o Sbrk(1, top - 1) \o Do("wait")
  \o Sbrk(BIG - top, top) \o Sbrk(-PGSIZE, BIG) \o Sbrk(PGSIZE, BIG - PGSIZE)
  \o Sbrk(oldbrk - BIG, BIG)
  \o Fork(Do("exit")) \o Do("wait")
  \o Fork(Sbrk(BIG - oldbrk, oldbrk) \o Do("sit")) \o Do("await")
  \o Sbrk(PGSIZE, oldbrk) \o Do("kill") \o Do("wait")
  \o Sbrk(-PGSIZE, oldbrk + PGSIZE) \o <<[op |-> "end", at |-> oldbrk]>>

TestInit ==
  /\ Init
  /\ test \in {"none", "sbrktest"}
  /\ todo = [p \in Procs |-> IF p = initproc /\ test = "sbrktest" THEN sbrktest ELSE <<>>]
  /\ wrong = FALSE

-------------------------------------------------------------------------------
\* What p does next in the test.
Does(p, op) == todo[p] # <<>> /\ Head(todo[p]).op = op
Done(p)     == todo' = [todo EXCEPT ![p] = Tail(@)]
Checks(p)   == wrong' = (wrong \/ sz[p] # Head(todo[p]).at)

testSbrk(p) == Does(p, "sbrk") /\ sbrk(p, Head(todo[p]).n) /\ Checks(p) /\ Done(p)
testEnd(p)  == Does(p, "end") /\ InUser(p) /\ Checks(p) /\ Done(p) /\ UNCHANGED memory
testExit(p) == Does(p, "exit") /\ exit(p) /\ Done(p) /\ UNCHANGED wrong

testFork(p) ==
  /\ Does(p, "fork") /\ UNCHANGED wrong
  /\ \E c \in Procs : /\ fork(p, c)
                      /\ todo' = [todo EXCEPT ![p] = Tail(@), ![c] = Head(todo[p]).child]

\* Without a child, because fork() has failed, the test stops.
testWait(p) ==
  /\ Does(p, "wait") /\ InUser(p) /\ Done(p)
  /\ IF \E c \in Procs \ {p} : state[c] # "UNUSED" /\ parent[c] = p
     THEN (\E c \in Procs : wait(p, c)) /\ UNCHANGED wrong
     ELSE wrong' = TRUE /\ UNCHANGED memory

\* The byte that comes through the pipe when the child has its memory, or has not got it.
testAwait(p) ==
  /\ Does(p, "await") /\ \E c \in Procs : Does(c, "sit") /\ InUser(c)
  /\ Done(p) /\ UNCHANGED <<memory, wrong>>

testKill(p) ==
  /\ Does(p, "kill") /\ InUser(p)
  /\ todo' = [c \in Procs |-> IF c = p THEN Tail(todo[p])
                              ELSE IF Does(c, "sit") THEN Do("exit") ELSE todo[c]]
  /\ UNCHANGED <<memory, wrong>>

Test(p) ==
  \/ testSbrk(p) \/ testEnd(p) \/ testExit(p) \/ testFork(p) \/ testWait(p) \/ testAwait(p)
  \/ testKill(p)

TestNext ==
  /\ panicked = "none"
  /\ \E p \in Procs :
       \/ test = "none" /\ User(p) /\ UNCHANGED testVars
       \/ Kernel(p) /\ UNCHANGED testVars
       \/ Test(p) /\ UNCHANGED <<ncalls, test>>

TestSpec == TestInit /\ [][TestNext]_<<vars, testVars>>

-------------------------------------------------------------------------------
(* Properties. *)

\* The size is at each step what sbrktest expects: pieces that are smaller than a page, a child's
\* growth that leaves the parent alone, shrinking and growing by a page, and an allocation that
\* succeeds while a child sits on what its own, failed one has left it with.
SbrkTestPasses == ~wrong

-------------------------------------------------------------------------------
(* The draw and the clock beside it. *)

CONSTANTS N, W, TicketArgs, MaxChanges,      \* LotteryDraw
          Sleepers, TICKWORD, MaxLag         \* Clock

VARIABLES
  topic,
  queue, tickets, drawing, total, temp, slot, winner, selected, changes, stale,
  ticks, tickslock, clockpc, ticks0, nap, killed, elapsed, lag

\* Arguments of sleep(): short ones, none, and -1, which a late test may miss again and again.
MCNaps == {-1, 0, 1, 2}

MCDeltas == {3, -1, -2, -20}
MCImages == {<<3, 1>>, <<7>>}

Draw  == INSTANCE LotteryDraw WITH pc <- drawing, i <- slot
Ticks == INSTANCE Clock WITH WORD <- TICKWORD, Naps <- MCNaps, pc <- clockpc, n <- nap

memVars   == <<vars, testVars>>
drawVars  == <<queue, tickets, drawing, total, temp, slot, winner, selected, changes, stale>>
clockVars == <<ticks, tickslock, clockpc, ticks0, nap, killed, elapsed, lag>>
allVars   == <<topic, memVars, drawVars, clockVars>>

MCInit ==
  /\ topic \in {"memory", "draw", "clock"}
  /\ (topic # "memory" => test = "none") /\ TestInit
  /\ Draw!Init  /\ (topic # "draw" => queue = <<>> /\ \A p \in 1 .. N : tickets[p] = 1)
  /\ Ticks!Init

MCNext ==
  /\ UNCHANGED topic
  /\ \/ topic = "memory" /\ TestNext   /\ UNCHANGED <<drawVars, clockVars>>
     \/ topic = "draw"   /\ Draw!Next  /\ UNCHANGED <<memVars, clockVars>>
     \/ topic = "clock"  /\ Ticks!Next /\ UNCHANGED <<memVars, drawVars>>

\* The fairness that each part states.
MCFairness ==
  /\ \A p \in Procs :
       WF_allVars(topic = "memory" /\ Kernel(p)
                  /\ UNCHANGED <<topic, testVars, drawVars, clockVars>>)
  /\ WF_allVars(topic = "draw" /\ Draw!rq_select
                /\ UNCHANGED <<topic, memVars, clockVars>>)
  /\ SF_allVars(topic = "clock" /\ Ticks!tick
                /\ UNCHANGED <<topic, memVars, drawVars>>)
  /\ WF_allVars(topic = "clock" /\ Ticks!tickWakes
                /\ UNCHANGED <<topic, memVars, drawVars>>)
  /\ \A p \in Sleepers :
       SF_allVars(topic = "clock" /\ Ticks!Proceed(p)
                  /\ UNCHANGED <<topic, memVars, drawVars>>)

MCSpec == MCInit /\ [][MCNext]_allVars /\ MCFairness

-------------------------------------------------------------------------------
(* The properties of the parts; MemoryIsConsistent is in Memory. *)

\* rq_select() draws every process by its share of the tickets, and somebody.
DrawIsFair == topic = "draw" => Draw!DrawIsFair

\* sleep() lasts as long as it was asked to, and no longer than the wait for a CPU, and sbrk()
\* returns what sbrktest expects of it.
CallsDoAsAsked == SbrkTestPasses /\ (topic = "clock" => Ticks!SleepsEndInTime)

\* rq_select() returns.
DrawEnds == <>(topic = "draw" => drawing = "done")

\* Nothing that the kernel waits for here lasts for ever: calls that want memory return, the draw
\* ends, and killed sleepers exit.
PartsGoOn == CallsReturn /\ DrawEnds /\ Ticks!KilledEnds
===============================================================================
