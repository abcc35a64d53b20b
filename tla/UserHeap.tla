------------------------------- MODULE UserHeap -------------------------------
(***************************************************************************)
(* The memory allocator of user programs (umalloc.c) on top of sbrk().     *)
(*                                                                         *)
(* Addresses count headers: a block of n units is one header and n - 1     *)
(* units that the program uses.  The free blocks form a ring through base  *)
(* (address 0, below the heap), along which malloc() looks for the first   *)
(* fit and free() for the place of a block.  A program is one thread; it   *)
(* frees what malloc() gave it, once, and may call sbrk() itself, so that  *)
(* the heap has holes.                                                     *)
(*                                                                         *)
(* Requests stay below the size at which nbytes or nu * sizeof(Header)     *)
(* wraps round.                                                            *)
(***************************************************************************)
EXTENDS Naturals, FiniteSets

CONSTANTS TOP,      \* the units that sbrk() can give at most
          CORE,     \* the least that morecore() asks for: 4096 units
          MaxUnits  \* the largest request, header included

VARIABLES
  next,     \* header->s.ptr of the free blocks and base
  size,     \* header->s.size of all blocks
  freep,    \* where the next search starts; NoRing before the first malloc()
  brk,      \* the end of the heap
  held,     \* the blocks that the program has, with the units it asked for
  foreign,  \* the units that the program got from sbrk() itself
  nunits    \* the request that malloc() is working on, 0 if none

heapVars == <<next, size, freep>>
vars     == <<heapVars, brk, held, foreign, nunits>>

base   == 0
NoRing == TOP + 1
Ring   == [next |-> next, size |-> size, freep |-> freep]

Addresses == base .. TOP

TypeOK ==
  /\ DOMAIN next \subseteq Addresses
  /\ DOMAIN size \subseteq Addresses
  /\ \A b \in DOMAIN next : next[b] \in DOMAIN next
  /\ \A b \in DOMAIN size : size[b] \in 0 .. TOP
  /\ freep \in DOMAIN next \cup {NoRing}
  /\ brk \in 1 .. TOP + 1
  /\ DOMAIN held \cap DOMAIN next = {}
  /\ nunits \in 0 .. MaxUnits

Init ==
  /\ next = <<>> /\ size = <<>> /\ freep = NoRing
  /\ brk = 1
  /\ held = <<>> /\ foreign = {}
  /\ nunits = 0

-------------------------------------------------------------------------------
Least(S) == CHOOSE i \in S : \A j \in S : i <= j

\* The ring from freep on.
Chain(r) ==
  LET node[i \in 0 .. Cardinality(DOMAIN r.next)] ==
        IF i = 0 THEN r.freep ELSE r.next[node[i - 1]]
  IN node

\* Where the loop of free() stops: b lies between p and its successor, or beyond one
\* of the ends of the ring.
Between(r, b, p) ==
  LET n == r.next[p] IN (b > p /\ b < n) \/ (p >= n /\ (b > p \/ b < n))

Place(r, b) ==
  LET node == Chain(r) IN node[Least({i \in DOMAIN node : Between(r, b, node[i])})]

\* f without the block b, if cond holds.
Without(f, b, cond) == [x \in DOMAIN f \ (IF cond THEN {b} ELSE {}) |-> f[x]]

\* b is put behind p without looking at its lower neighbour.
Inserted_upOnly(r, b, p) ==
  LET n  == r.next[p]
      up == b + r.size[b] = n
      sz == r.size[b] + (IF up THEN r.size[n] ELSE 0)
      nx == IF up THEN r.next[n] ELSE n
  IN [next  |-> Without([x \in DOMAIN r.next \cup {b} |->
                           IF x = p THEN b ELSE IF x = b THEN nx ELSE r.next[x]], n, up),
      size  |-> Without([r.size EXCEPT ![b] = sz], n, up),
      freep |-> p]

\* b is put behind p and joined with the neighbours that it touches.
Inserted(r, b, p) ==
  LET n    == r.next[p]
      up   == b + r.size[b] = n
      down == p + r.size[p] = b
      sz   == r.size[b] + (IF up THEN r.size[n] ELSE 0)
      nx   == IF up THEN r.next[n] ELSE n
      link == [x \in DOMAIN r.next \cup {b} |->
                 IF x = p THEN (IF down THEN nx ELSE b) ELSE IF x = b THEN nx ELSE r.next[x]]
      grow == [r.size EXCEPT ![b] = sz, ![p] = IF down THEN @ + sz ELSE @]
  IN [next  |-> Without(Without(link, n, up), b, down),
      size  |-> Without(Without(grow, n, up), b, down),
      freep |-> p]

Freed(r, b) == Inserted(r, b, Place(r, b))

Install(r) == next' = r.next /\ size' = r.size /\ freep' = r.freep

free(b) ==
  /\ nunits = 0 /\ b \in DOMAIN held
  /\ Install(Freed(Ring, b))
  /\ held' = Without(held, b, TRUE)
  /\ UNCHANGED <<brk, foreign, nunits>>

\* malloc() is called; the first call makes the ring.
malloc(n) ==
  /\ nunits = 0
  /\ nunits' = n
  /\ IF freep = NoRing
     THEN /\ next' = [b \in {base} |-> base] /\ size' = [b \in {base} |-> 0]
          /\ freep' = base
     ELSE UNCHANGED heapVars
  /\ UNCHANGED <<brk, held, foreign>>

\* The positions behind freep whose block is large enough.
Fits == LET node == Chain(Ring) IN {i \in DOMAIN node \ {0} : size[node[i]] >= nunits}

\* The tail of a block that is too large is cut off.
Split(p) ==
  LET b == p + size[p] - nunits IN
  /\ size' = [x \in DOMAIN size \cup {b} |->
                IF x = p THEN size[p] - nunits ELSE IF x = b THEN nunits ELSE size[x]]
  /\ held' = [x \in DOMAIN held \cup {b} |-> IF x = b THEN nunits ELSE held[x]]
  /\ UNCHANGED next

\* A block of exactly the size leaves the ring.
Unlink(prevp, p) ==
  /\ next' = Without([next EXCEPT ![prevp] = next[p]], p, TRUE)
  /\ held' = [x \in DOMAIN held \cup {p} |-> IF x = p THEN nunits ELSE held[x]]
  /\ UNCHANGED size

\* malloc() finds a block and returns it.
mallocReturns ==
  /\ nunits # 0 /\ Fits # {}
  /\ LET node  == Chain(Ring)
         i     == Least(Fits)
         prevp == node[i - 1]
         p     == node[i]
     IN /\ IF size[p] = nunits THEN Unlink(prevp, p) ELSE Split(p)
        /\ freep' = prevp
  /\ nunits' = 0
  /\ UNCHANGED <<brk, foreign>>

CoreUnits == IF nunits < CORE THEN CORE ELSE nunits

\* malloc() has come round to freep: morecore() frees new memory into the ring.
morecore ==
  /\ nunits # 0 /\ Fits = {}
  /\ brk + CoreUnits <= TOP + 1
  /\ brk' = brk + CoreUnits
  /\ LET r == [Ring EXCEPT !.size = [x \in DOMAIN size \cup {brk} |->
                                       IF x = brk THEN CoreUnits ELSE size[x]]]
     IN Install(Freed(r, brk))
  /\ UNCHANGED <<held, foreign, nunits>>

\* sbrk() fails, for want of address space or of pages, and malloc() returns 0.
mallocFails ==
  /\ nunits # 0 /\ Fits = {}
  /\ nunits' = 0
  /\ UNCHANGED <<heapVars, brk, held, foreign>>

\* The program takes a unit for itself.
sbrk ==
  /\ nunits = 0 /\ brk <= TOP
  /\ brk' = brk + 1
  /\ foreign' = foreign \cup {brk}
  /\ UNCHANGED <<heapVars, held, nunits>>

Next ==
  \/ \E b \in DOMAIN held : free(b)
  \/ \E n \in 1 .. MaxUnits : malloc(n)
  \/ mallocReturns \/ morecore \/ mallocFails \/ sbrk

Spec == Init /\ [][Next]_vars

-------------------------------------------------------------------------------
(* Properties. *)

Units(b) == b .. (b + size[b] - 1)

\* Every unit of the heap is in exactly one block, free or held, or in the memory the
\* program took itself: nothing is handed out twice and nothing is lost, in any order of
\* malloc() and free().
HeapIsTiled ==
  /\ \A b \in DOMAIN held : size[b] = held[b]
  /\ UNION {Units(b) : b \in DOMAIN size} \cup foreign = 1 .. (brk - 1)
  /\ \A b, d \in DOMAIN size : b # d => Units(b) \cap Units(d) = {}
  /\ \A b \in DOMAIN size : Units(b) \cap foreign = {}

\* The ring holds every free block in the order of the addresses, and no two of them
\* touch: what was freed is usable as one piece.
RingIsSorted ==
  freep # NoRing =>
    \A b \in DOMAIN next :
      /\ next[b] = base \/ next[b] > b
      /\ \A d \in DOMAIN next : d > b => (next[b] > b /\ next[b] <= d)
      /\ b # base => b + size[b] \notin DOMAIN next
===============================================================================
