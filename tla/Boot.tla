---------------------------------- MODULE Boot --------------------------------
(***************************************************************************)
(* How the CPUs come up (main.c, entryother.S, lapic.c: lapicstartap) and  *)
(* how they share the page allocator meanwhile (kalloc.c).                 *)
(*                                                                         *)
(* The boot processor has run kinit1(): the free list holds the pages that *)
(* entrypgdir maps.  It starts the others one by one, through one word of  *)
(* memory that holds the stack of the next, then gives kinit2() the other  *)
(* pages, turns the lock of the allocator on, and makes the first process. *)
(* kalloc() and kfree() take as many steps as they access memory.          *)
(***************************************************************************)
EXTENDS Naturals, FiniteSets, Sequences

CONSTANTS NCPU, \* CPUs; which one boots is open
          LOW,  \* pages that kinit1() frees
          HIGH  \* pages that kinit2() frees

VARIABLES
  bsp,       \* the boot processor
  pc,        \* where a CPU is
  freelist,  \* kmem.freelist, 0 if empty
  next,      \* r->next
  use_lock,  \* kmem.use_lock
  locked,    \* the CPU that has kmem.lock, Nobody if it is free
  r,         \* the page that kalloc() or kfree() works on
  then,      \* where a CPU goes on when they return
  other,     \* startothers(): the CPU that comes next; kinit2(): the page
  stackword, \* the stack pointer at code - 4
  started,   \* c->started
  stack,     \* the stack that a CPU runs on, 0 if it is off
  held,      \* the pages that the processes on a CPU have allocated
  ready,     \* userinit() has made the first process runnable
  panicked

kmemVars == <<freelist, next, use_lock, locked>>
vars == <<bsp, pc, kmemVars, r, then, other, stackword, started, stack, held, ready, panicked>>

CPUs    == 0 .. (NCPU - 1)
Nobody  == NCPU
Low     == 1 .. LOW
High    == (LOW + 1) .. (LOW + HIGH)
Pages   == Low \cup High

\* The pages that kinit1() frees.
FreedFirst == Low

BootStack == LOW + HIGH + 1 \* the one that entry.S sets up

TypeOK ==
  /\ bsp \in CPUs /\ ready \in BOOLEAN /\ panicked \in BOOLEAN
  /\ pc \in [CPUs -> {"off", "entry", "mpenter", "mpmain", "scheduler", "startothers",
                      "startap", "wait", "kinit2", "uselock", "userinit", "made",
                      "kalloc", "pop", "popped", "kfree", "push", "pushed", "unlock"}]
  /\ freelist \in Pages \cup {0} /\ next \in [Pages -> Pages \cup {0}]
  /\ use_lock \in BOOLEAN /\ locked \in CPUs \cup {Nobody}
  /\ r \in [CPUs -> Pages \cup {0}]
  /\ other \in 0 .. LOW + HIGH + 1
  /\ stackword \in Pages \cup {0}
  /\ started \in [CPUs -> BOOLEAN]
  /\ stack \in [CPUs -> Pages \cup {0, BootStack}]
  /\ held \in [CPUs -> SUBSET Pages]

Init ==
  /\ bsp \in CPUs
  /\ pc = [c \in CPUs |-> IF c = bsp THEN "startothers" ELSE "off"]
  /\ freelist = Cardinality(FreedFirst)
  /\ next = [p \in Pages |-> IF p \in FreedFirst THEN p - 1 ELSE 0]
  /\ use_lock = FALSE /\ locked = Nobody
  /\ r = [c \in CPUs |-> 0] /\ then = [c \in CPUs |-> "off"]
  /\ other = 0 /\ stackword = 0
  /\ started = [c \in CPUs |-> FALSE]
  /\ stack = [c \in CPUs |-> IF c = bsp THEN BootStack ELSE 0]
  /\ held = [c \in CPUs |-> {}]
  /\ ready = FALSE /\ panicked = FALSE

Goto(c, place) == pc' = [pc EXCEPT ![c] = place]
Call(c, what, back) == Goto(c, what) /\ then' = [then EXCEPT ![c] = back]

-------------------------------------------------------------------------------
(* kalloc.c *)

\* The test of use_lock, and acquire().
enters(c) ==
  /\ pc[c] \in {"kalloc", "kfree"}
  /\ use_lock => locked = Nobody
  /\ locked' = IF use_lock THEN c ELSE locked
  /\ Goto(c, IF pc[c] = "kalloc" THEN "pop" ELSE "push")
  /\ UNCHANGED <<bsp, freelist, next, use_lock, r, then, other, stackword, started, stack, held,
                 ready, panicked>>

\* r = kmem.freelist
pop(c) ==
  /\ pc[c] = "pop"
  /\ r' = [r EXCEPT ![c] = freelist]
  /\ Goto(c, IF freelist = 0 THEN "unlock" ELSE "popped")
  /\ UNCHANGED <<bsp, kmemVars, then, other, stackword, started, stack, held, ready, panicked>>

\* kmem.freelist = r->next
popped(c) ==
  /\ pc[c] = "popped"
  /\ freelist' = next[r[c]]
  /\ Goto(c, "unlock")
  /\ UNCHANGED <<bsp, next, use_lock, locked, r, then, other, stackword, started, stack, held,
                 ready, panicked>>

\* r->next = kmem.freelist
push(c) ==
  /\ pc[c] = "push"
  /\ next' = [next EXCEPT ![r[c]] = freelist]
  /\ Goto(c, "pushed")
  /\ UNCHANGED <<bsp, freelist, use_lock, locked, r, then, other, stackword, started, stack, held,
                 ready, panicked>>

\* kmem.freelist = r
pushed(c) ==
  /\ pc[c] = "pushed"
  /\ freelist' = r[c]
  /\ Goto(c, "unlock")
  /\ UNCHANGED <<bsp, next, use_lock, locked, r, then, other, stackword, started, stack, held,
                 ready, panicked>>

\* The second test of use_lock; release() panics on a lock that the CPU does not hold.
leaves(c) ==
  /\ pc[c] = "unlock"
  /\ locked' = IF use_lock THEN Nobody ELSE locked
  /\ panicked' = (use_lock /\ locked # c)
  /\ Goto(c, then[c])
  /\ UNCHANGED <<bsp, freelist, next, use_lock, r, then, other, stackword, started, stack, held,
                 ready>>

-------------------------------------------------------------------------------
(* The boot processor. *)

\* startothers(): the next CPU, itself left out, gets a stack; behind the last one
\* kinit2() begins.
startothers ==
  /\ pc[bsp] = "startothers"
  /\ CASE other = NCPU -> other' = LOW + 1 /\ Goto(bsp, "kinit2") /\ UNCHANGED then
       [] other = bsp  -> other' = other + 1 /\ UNCHANGED <<pc, then>>
       [] OTHER        -> Call(bsp, "kalloc", "startap") /\ UNCHANGED other
  /\ UNCHANGED <<bsp, kmemVars, r, stackword, started, stack, held, ready, panicked>>

\* The boot processor does not wait.
startap_noWait ==
  /\ pc[bsp] = "startap"
  /\ stackword' = r[bsp]
  /\ pc' = [pc EXCEPT ![bsp] = "startothers", ![other] = "entry"]
  /\ other' = other + 1
  /\ UNCHANGED <<bsp, kmemVars, r, then, started, stack, held, ready, panicked>>

\* The stack of the next CPU, and the startup interrupt.
startap ==
  /\ pc[bsp] = "startap"
  /\ stackword' = r[bsp]
  /\ pc' = [pc EXCEPT ![bsp] = "wait", ![other] = "entry"]
  /\ UNCHANGED <<bsp, kmemVars, r, then, other, started, stack, held, ready, panicked>>

\* The loop on c->started.
waits ==
  /\ pc[bsp] = "wait" /\ started[other]
  /\ other' = other + 1
  /\ Goto(bsp, "startothers")
  /\ UNCHANGED <<bsp, kmemVars, r, then, stackword, started, stack, held, ready, panicked>>

\* kinit2() frees one page after the other.
kinit2 ==
  /\ pc[bsp] = "kinit2"
  /\ IF other <= LOW + HIGH
     THEN /\ r' = [r EXCEPT ![bsp] = other]
          /\ other' = other + 1
          /\ Call(bsp, "kfree", "kinit2")
     ELSE Goto(bsp, "uselock") /\ UNCHANGED <<r, then, other>>
  /\ UNCHANGED <<bsp, kmemVars, stackword, started, stack, held, ready, panicked>>

\* kmem.use_lock = 1, and the first page of userinit().
uselock ==
  /\ pc[bsp] = "uselock"
  /\ use_lock' = TRUE
  /\ Call(bsp, "kalloc", "userinit")
  /\ UNCHANGED <<bsp, freelist, next, locked, r, other, stackword, started, stack, held, ready,
                 panicked>>

\* userinit() makes the first process; it panics without memory.
userinit ==
  /\ pc[bsp] = "userinit"
  /\ r[bsp] # 0
  /\ held' = [held EXCEPT ![bsp] = @ \cup {r[bsp]}]
  /\ ready' = TRUE
  /\ Goto(bsp, "mpmain")
  /\ UNCHANGED <<bsp, kmemVars, r, then, other, stackword, started, stack, panicked>>

-------------------------------------------------------------------------------
(* All CPUs. *)

\* entryother.S switches to the stack at start - 4, on entrypgdir.
entry(c) ==
  /\ pc[c] = "entry"
  /\ stack' = [stack EXCEPT ![c] = stackword]
  /\ Goto(c, "mpenter")
  /\ UNCHANGED <<bsp, kmemVars, r, then, other, stackword, started, held, ready, panicked>>

\* mpenter() switches to the full page table.
mpenter(c) ==
  /\ pc[c] = "mpenter"
  /\ Goto(c, "mpmain")
  /\ UNCHANGED <<bsp, kmemVars, r, then, other, stackword, started, stack, held, ready, panicked>>

mpmain(c) ==
  /\ pc[c] = "mpmain"
  /\ started' = [started EXCEPT ![c] = TRUE]
  /\ Goto(c, "scheduler")
  /\ UNCHANGED <<bsp, kmemVars, r, then, other, stackword, stack, held, ready, panicked>>

\* A process runs and needs a page, ...
allocates(c) ==
  /\ pc[c] = "scheduler" /\ ready
  /\ Call(c, "kalloc", "made")
  /\ UNCHANGED <<bsp, kmemVars, r, other, stackword, started, stack, held, ready, panicked>>

\* ... gets it ...
made(c) ==
  /\ pc[c] = "made"
  /\ held' = [held EXCEPT ![c] = @ \cup ({r[c]} \ {0})]
  /\ Goto(c, "scheduler")
  /\ UNCHANGED <<bsp, kmemVars, r, then, other, stackword, started, stack, ready, panicked>>

\* ... or gives one back.
frees(c) ==
  /\ pc[c] = "scheduler"
  /\ \E p \in held[c] : r' = [r EXCEPT ![c] = p] /\ held' = [held EXCEPT ![c] = @ \ {p}]
  /\ Call(c, "kfree", "scheduler")
  /\ UNCHANGED <<bsp, kmemVars, other, stackword, started, stack, ready, panicked>>

Comes(c) == entry(c) \/ mpenter(c) \/ mpmain(c)
Memory(c) == enters(c) \/ pop(c) \/ popped(c) \/ push(c) \/ pushed(c) \/ leaves(c)
Boots == startothers \/ startap \/ waits \/ kinit2 \/ uselock \/ userinit

Next ==
  /\ ~panicked
  /\ \/ Boots
     \/ \E c \in CPUs : Comes(c) \/ Memory(c) \/ allocates(c) \/ made(c) \/ frees(c)

Spec == Init /\ [][Next]_vars

-------------------------------------------------------------------------------
(* Properties. *)

\* The free pages, along the list.
FreePages ==
  LET node[i \in 0 .. LOW + HIGH] ==
        IF i = 0 THEN freelist ELSE IF node[i - 1] = 0 THEN 0 ELSE next[node[i - 1]]
  IN {node[i] : i \in 0 .. LOW + HIGH} \ {0}

\* No page is handed out twice, to be a stack or to be a process's, and none that is in use
\* is on the free list, while the lock is off and afterwards.
PagesHandedOutOnce ==
  /\ \A c, d \in CPUs : c # d => held[c] \cap held[d] = {} /\ (stack[c] # stack[d] \/ stack[c] = 0)
  /\ \A c, d \in CPUs : stack[c] \notin held[d]
  /\ (\A c \in CPUs : pc[c] \notin {"popped", "push", "pushed"}) =>
       FreePages \cap (UNION {held[c] : c \in CPUs} \cup {stack[c] : c \in CPUs}) = {}

\* A CPU that still runs on entrypgdir has a stack that entrypgdir maps.
StackIsMapped == \A c \in CPUs : pc[c] = "mpenter" => stack[c] \in Low

\* release() never meets the lock that was turned on between its test and the one before.
NoReleasePanic == ~panicked
===============================================================================
