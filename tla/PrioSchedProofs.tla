--------------------------- MODULE PrioSchedProofs ----------------------------
(***************************************************************************)
(* Process management of the priority kernel, for every number of          *)
(* processes, CPUs and priorities and every length of the lists.           *)
(***************************************************************************)
EXTENDS PrioSched, WellFoundedInduction, TLAPS, FiniteSetTheorems

-------------------------------------------------------------------------------
(* Constants. *)

\* A scan of a table returns the first slot of those that it looks for.
LEMMA FirstIsMember ==
  ASSUME NEW S \in SUBSET Nat, S # {}
  PROVE  Min(S) \in S /\ \A y \in S : Min(S) <= y
<1> DEFINE R == OpToRel(<, Nat)
<1>1. IsWellFoundedOn(R, Nat)
  BY NatLessThanWellFounded, Zenon
<1>2. \A x, y \in Nat : y < x => <<y, x>> \in R
  BY Zenon DEF OpToRel
<1> HIDE DEF R
<1>3. PICK x \in S : \A y \in S : ~ (<<y, x>> \in R)
  BY <1>1, WFMin
<1>4. \A y \in S : ~ (y < x)
  BY <1>2, <1>3, Zenon
<1>5. \E z \in S : \A y \in S : z <= y
  BY <1>4
<1> QED BY <1>5 DEF Min

LEMMA Basics ==
  /\ InitProc \in Procs /\ NULL \notin Procs
  /\ NoCpu \notin CPUs /\ 0 \in CPUs
  /\ Procs \in SUBSET Nat
  /\ IsFiniteSet(Procs) /\ Cardinality(Procs) = NPROC
  /\ SHORT \in Prios /\ 0 \in Prios
<1>1. 1 \in Nat /\ NPROC \in Nat
  BY PrioSizesAssumption
<1>2. IsFiniteSet(1 .. NPROC)
      /\ Cardinality(1 .. NPROC) = IF 1 > NPROC THEN 0 ELSE NPROC - 1 + 1
  BY <1>1, FS_Interval
<1> QED
  BY <1>1, <1>2, PrioSizesAssumption DEF InitProc, Procs, NULL, NoCpu, CPUs, Prios

-------------------------------------------------------------------------------
(* The lists of runqueue.c. *)

\* A traversal of a list meets its processes in order and NULL behind them.
LEMMA TraversalMeets ==
  ASSUME NEW u \in Queues, NEW c \in CPUs, NEW k \in Prios,
         NEW n \in 0 .. NPROC, NEW s \in [1 .. n -> Procs], IsList(u, c, k, n, s)
  PROVE  Nodes(u, c, k) = [i \in 0 .. NPROC |-> IF i < n THEN s[i + 1] ELSE NULL]
<1> DEFINE Met(g) == g = [i \in 0 .. NPROC |->
                            IF i = 0 THEN u.head[c][k]
                            ELSE IF g[i - 1] = NULL THEN NULL ELSE u.next[g[i - 1]]]
           f == [i \in 0 .. NPROC |-> IF i < n THEN s[i + 1] ELSE NULL]
<1>1. NPROC \in Nat /\ NULL \notin Procs
  BY Basics, PrioSizesAssumption
<1>2. Met(f)
  <2> DEFINE g == [i \in 0 .. NPROC |->
                     IF i = 0 THEN u.head[c][k]
                     ELSE IF f[i - 1] = NULL THEN NULL ELSE u.next[f[i - 1]]]
  <2>1. ASSUME NEW i \in 0 .. NPROC PROVE f[i] = g[i]
    <3>1. CASE i = 0
      BY <1>1, <3>1 DEF IsList
    <3>2. CASE i # 0 /\ i <= n
      <4>1. i \in 1 .. n /\ i - 1 \in 0 .. NPROC /\ f[i - 1] = s[i] /\ s[i] \in Procs
        BY <1>1, <3>2
      <4> QED BY <1>1, <3>2, <4>1 DEF IsList
    <3>3. CASE i > n /\ i # 0
      BY <1>1, <3>3
    <3> QED BY <1>1, <3>1, <3>2, <3>3
  <2> QED BY <2>1
<1>3. Nodes(u, c, k) = CHOOSE g : Met(g)
  BY DEF Nodes
<1>4. Met(Nodes(u, c, k))
  <2> HIDE DEF Met, f
  <2> QED BY <1>2, <1>3
<1> DEFINE g == Nodes(u, c, k)
           Off == {i \in 0 .. NPROC : g[i] # f[i]}
<1>5. Off = {}
  <2> HIDE DEF g
  <2> SUFFICES ASSUME Off # {} PROVE FALSE
    OBVIOUS
  <2>1. PICK m \in Off : \A i \in Off : m <= i
    <3>1. Off \in SUBSET Nat
      BY <1>1
    <3> QED BY <3>1, FirstIsMember
  <2>2. m # 0
    BY <1>1, <1>2, <1>4, <2>1 DEF g
  <2>3. m - 1 \in 0 .. NPROC /\ g[m - 1] = f[m - 1]
    BY <1>1, <2>1, <2>2, SMTT(30)
  <2>4. g[m] = f[m]
    <3>1. g[m] = IF g[m - 1] = NULL THEN NULL ELSE u.next[g[m - 1]]
      BY <1>4, <2>1, <2>2 DEF g
    <3>2. f[m] = IF f[m - 1] = NULL THEN NULL ELSE u.next[f[m - 1]]
      <4> HIDE DEF f
      <4> QED BY <1>2, <2>1, <2>2
    <3> HIDE DEF f
    <3> QED BY <2>3, <3>1, <3>2
  <2> QED BY <2>1, <2>4
<1>6. g = f
  <2>1. DOMAIN g = 0 .. NPROC /\ g = [i \in 0 .. NPROC |-> g[i]]
    BY <1>4
  <2> QED BY <1>5, <2>1
<1> QED BY <1>6

\* The processes of a list and of a CPU are finite in number, and no more than there are.
LEMMA SetsAreFinite ==
  ASSUME NEW w, NEW c, NEW k
  PROVE  /\ IsFiniteSet(Listed(w, c, k)) /\ Cardinality(Listed(w, c, k)) \in 0 .. NPROC
         /\ IsFiniteSet(Counted(w, c)) /\ Cardinality(Counted(w, c)) \in 0 .. NPROC
<1>1. Listed(w, c, k) \in SUBSET Procs /\ Counted(w, c) \in SUBSET Procs
  BY DEF Listed, Counted
<1> QED BY <1>1, Basics, FS_Subset, FS_CardinalityType, PrioSizesAssumption

\* What the list of a place holds, as the invariant has it.
LEMMA ListOf ==
  ASSUME NEW u, NEW w, ListsHold(u, w), NEW c \in CPUs, NEW k \in Prios
  PROVE  \E n \in 0 .. NPROC : \E s \in [1 .. n -> Procs] :
           /\ n = Cardinality(Listed(w, c, k)) /\ IsList(u, c, k, n, s)
           /\ \A i \in 1 .. n : s[i] \in Listed(w, c, k)
           /\ \A p \in Listed(w, c, k) : \E i \in 1 .. n : s[i] = p
<1>1. PICK n \in 0 .. NPROC : \E s \in [1 .. n -> Listed(w, c, k)] :
           /\ n = Cardinality(Listed(w, c, k)) /\ IsList(u, c, k, n, s)
           /\ \A p \in Listed(w, c, k) : \E i \in 1 .. n : s[i] = p
  BY DEF ListsHold, HoldsList
<1>2. PICK s \in [1 .. n -> Listed(w, c, k)] :
           /\ n = Cardinality(Listed(w, c, k)) /\ IsList(u, c, k, n, s)
           /\ \A p \in Listed(w, c, k) : \E i \in 1 .. n : s[i] = p
  BY <1>1
<1>3. Listed(w, c, k) \subseteq Procs
  BY DEF Listed
<1>4. s \in [1 .. n -> Procs] /\ \A i \in 1 .. n : s[i] \in Listed(w, c, k)
  BY <1>2, <1>3
<1> QED BY <1>2, <1>4

\* Every traversal ends and meets exactly the processes of the list; head and tail are NULL
\* where there are none, and members otherwise.
LEMMA ListFacts ==
  ASSUME NEW u, NEW w, ListsHold(u, w), NEW c \in CPUs, NEW k \in Prios
  PROVE  /\ Ends(u, c, k)
         /\ ListMembers(u, c, k) = Listed(w, c, k)
         /\ IF Listed(w, c, k) = {} THEN u.head[c][k] = NULL /\ u.tail[c][k] = NULL
            ELSE /\ u.head[c][k] \in Listed(w, c, k)
                 /\ u.tail[c][k] \in Listed(w, c, k)
                 /\ u.next[u.tail[c][k]] = NULL
<1>1. PICK n \in 0 .. NPROC : \E s \in [1 .. n -> Procs] :
           /\ n = Cardinality(Listed(w, c, k)) /\ IsList(u, c, k, n, s)
           /\ \A i \in 1 .. n : s[i] \in Listed(w, c, k)
           /\ \A p \in Listed(w, c, k) : \E i \in 1 .. n : s[i] = p
  BY ListOf
<1>2. PICK s \in [1 .. n -> Procs] :
           /\ n = Cardinality(Listed(w, c, k)) /\ IsList(u, c, k, n, s)
           /\ \A i \in 1 .. n : s[i] \in Listed(w, c, k)
           /\ \A p \in Listed(w, c, k) : \E i \in 1 .. n : s[i] = p
  BY <1>1
<1>3. Nodes(u, c, k) = [i \in 0 .. NPROC |-> IF i < n THEN s[i + 1] ELSE NULL]
  <2>1. u \in Queues
    BY DEF ListsHold
  <2> QED BY <1>2, <2>1, TraversalMeets
<1>4. NPROC \in Nat /\ NULL \notin Procs /\ Listed(w, c, k) \subseteq Procs
  BY Basics, PrioSizesAssumption DEF Listed
<1>5. Ends(u, c, k)
  BY <1>3, <1>4 DEF Ends
<1>6. ListMembers(u, c, k) = Listed(w, c, k)
  <2>1. ASSUME NEW i \in 0 .. NPROC, Nodes(u, c, k)[i] # NULL
        PROVE  Nodes(u, c, k)[i] \in Listed(w, c, k)
    BY <1>2, <1>3, <1>4, <2>1
  <2>2. ASSUME NEW p \in Listed(w, c, k)
        PROVE  \E i \in 0 .. NPROC : Nodes(u, c, k)[i] = p
    <3>1. PICK i \in 1 .. n : s[i] = p
      BY <1>2
    <3>2. i - 1 \in 0 .. NPROC /\ Nodes(u, c, k)[i - 1] = p
      BY <1>3, <1>4, <3>1
    <3> QED BY <3>2
  <2> DEFINE g == Nodes(u, c, k)
  <2>3. ListMembers(u, c, k) = {g[i] : i \in 0 .. NPROC} \ {NULL}
    BY DEF ListMembers
  <2> HIDE DEF g
  <2>4. NULL \notin Listed(w, c, k)
    BY <1>4
  <2> QED BY <2>1, <2>2, <2>3, <2>4 DEF g
<1>7. IF Listed(w, c, k) = {} THEN u.head[c][k] = NULL /\ u.tail[c][k] = NULL
      ELSE /\ u.head[c][k] \in Listed(w, c, k) /\ u.tail[c][k] \in Listed(w, c, k)
           /\ u.next[u.tail[c][k]] = NULL
  <2>1. CASE n = 0
    BY <1>2, <2>1 DEF IsList
  <2>2. CASE n # 0
    <3>1. 1 \in 1 .. n /\ n \in 1 .. n
      BY <1>4, <2>2
    <3> QED BY <1>2, <2>2, <3>1 DEF IsList
  <2> QED BY <2>1, <2>2
<1> QED BY <1>5, <1>6, <1>7

AllPlaces == (CPUs \X Prios) \cup {Nowhere}

\* The lists of two places have no process in common.
LEMMA ListsDisjoint ==
  ASSUME NEW w, NEW c, NEW k, NEW d, NEW l, NEW p, p \in Listed(w, c, k), p \in Listed(w, d, l)
  PROVE  c = d /\ k = l
BY DEF Listed

\* Where p comes to a list, that list and the processes of that CPU gain p.
LEMMA PlaceGained ==
  ASSUME NEW w \in [Procs -> AllPlaces], NEW p \in Procs, w[p] = Nowhere,
         NEW c \in CPUs, NEW k \in Prios
  PROVE  LET v == [w EXCEPT ![p] = <<c, k>>] IN
         /\ p \notin Counted(w, c) /\ Counted(v, c) = Counted(w, c) \cup {p}
         /\ p \notin Listed(w, c, k) /\ Listed(v, c, k) = Listed(w, c, k) \cup {p}
         /\ \A d \in CPUs : d # c => Counted(v, d) = Counted(w, d)
         /\ \A d \in CPUs, l \in Prios : d # c \/ l # k => Listed(v, d, l) = Listed(w, d, l)
         /\ \A d \in CPUs, l \in Prios : p \notin Listed(w, d, l)
<1> DEFINE v == [w EXCEPT ![p] = <<c, k>>]
<1>1. \A x \in Procs : v[x] = IF x = p THEN <<c, k>> ELSE w[x]
  OBVIOUS
<1>2. w[p][1] = NoCpu /\ NoCpu \notin CPUs
  BY Basics DEF Nowhere
<1>3. \A d \in CPUs, l \in Prios : w[p] # <<d, l>>
  BY <1>2, Basics DEF Nowhere
<1> HIDE DEF v
<1>4. p \notin Counted(w, c) /\ Counted(v, c) = Counted(w, c) \cup {p}
  <2>1. v[p][1] = c
    BY <1>1
  <2> QED BY <1>1, <1>2, <2>1 DEF Counted
<1>5. \A d \in CPUs : d # c => Counted(v, d) = Counted(w, d)
  <2>1. v[p][1] = c
    BY <1>1
  <2> QED BY <1>1, <1>2, <2>1 DEF Counted
<1>6. p \notin Listed(w, c, k) /\ Listed(v, c, k) = Listed(w, c, k) \cup {p}
  BY <1>1, <1>3 DEF Listed
<1>7. \A d \in CPUs, l \in Prios : d # c \/ l # k => Listed(v, d, l) = Listed(w, d, l)
  BY <1>1, <1>3 DEF Listed
<1>8. \A d \in CPUs, l \in Prios : p \notin Listed(w, d, l)
  BY <1>3 DEF Listed
<1> QED BY <1>4, <1>5, <1>6, <1>7, <1>8 DEF v

\* The fields after rq_add(), where the queue is not full.
LEMMA AddedFields ==
  ASSUME NEW u \in Queues, NEW c \in CPUs, NEW p \in Procs, NEW k \in Prios,
         u.count[c] < MAX_PROCS,
         u.head[c][k] = NULL \/ u.tail[c][k] # NULL
  PROVE  LET t == rq_add(u, c, p, k) IN
         /\ t \in Queues /\ t.fault = u.fault
         /\ \A d \in CPUs : t.count[d] = IF d = c THEN u.count[c] + 1 ELSE u.count[d]
         /\ \A d \in CPUs, l \in Prios :
              /\ t.head[d][l] = IF d = c /\ l = k /\ u.head[c][k] = NULL THEN p ELSE u.head[d][l]
              /\ t.tail[d][l] = IF d = c /\ l = k THEN p ELSE u.tail[d][l]
         /\ \A x \in Procs :
              t.next[x] = IF u.head[c][k] # NULL /\ x = u.tail[c][k] THEN p
                          ELSE IF x = p THEN NULL ELSE u.next[x]
<1> DEFINE first == IF u.head[c][k] = NULL THEN p ELSE u.head[c][k]
           last == u.tail[c][k]
           cleared == [u.next EXCEPT ![p] = NULL]
           h == [u.head EXCEPT ![c] = [u.head[c] EXCEPT ![k] = first]]
           t == [u.tail EXCEPT ![c] = [u.tail[c] EXCEPT ![k] = p]]
           n == IF u.head[c][k] = NULL THEN cleared ELSE [cleared EXCEPT ![last] = p]
           m == [u.count EXCEPT ![c] = u.count[c] + 1]
           v == [u EXCEPT !.head = h, !.tail = t, !.next = n, !.count = m]
<1>1. /\ u.head \in [CPUs -> [Prios -> Procs \cup {NULL}]]
      /\ u.tail \in [CPUs -> [Prios -> Procs \cup {NULL}]]
      /\ u.next \in [Procs -> Procs \cup {NULL}]
      /\ u.count \in [CPUs -> Int]
  BY DEF Queues
<1>2. /\ h \in [CPUs -> [Prios -> Procs \cup {NULL}]]
      /\ t \in [CPUs -> [Prios -> Procs \cup {NULL}]]
      /\ n \in [Procs -> Procs \cup {NULL}]
      /\ m \in [CPUs -> Int]
  BY <1>1
<1>3. rq_add(u, c, p, k) = v
  <2>1. ~ (u.count[c] >= MAX_PROCS)
    BY <1>1, PrioSizesAssumption
  <2>2. CASE u.head[c][k] = NULL
    <3>1. rq_add(u, c, p, k) = [u EXCEPT !.head[c][k] = p, !.tail[c][k] = p, !.next = cleared,
                                         !.count[c] = @ + 1]
      BY <2>1, <2>2 DEF rq_add
    <3>2. first = p /\ n = cleared
      BY <2>2
    <3> QED BY <3>1, <3>2 DEF Queues
  <2>3. CASE u.head[c][k] # NULL
    <3>1. rq_add(u, c, p, k) = [u EXCEPT !.tail[c][k] = p, !.next = n, !.count[c] = @ + 1]
      BY <2>1, <2>3 DEF rq_add
    <3>2. h = u.head
      BY <1>1, <2>3
    <3> HIDE DEF h, n
    <3>3. v = [u EXCEPT !.head = u.head, !.tail = t, !.next = n, !.count = m]
      BY <3>2
    <3> QED BY <3>1, <3>3, ZenonT(60) DEF Queues
  <2> QED BY <2>2, <2>3
<1> HIDE DEF h, t, n, m
<1>4. /\ v \in Queues
      /\ v.head = h /\ v.tail = t /\ v.next = n /\ v.count = m /\ v.fault = u.fault
  BY <1>2 DEF Queues
<1> HIDE DEF v
<1>5. \A d \in CPUs : m[d] = IF d = c THEN u.count[c] + 1 ELSE u.count[d]
  BY <1>1 DEF m
<1>6. \A d \in CPUs, l \in Prios :
        /\ h[d][l] = IF d = c /\ l = k /\ u.head[c][k] = NULL THEN p ELSE u.head[d][l]
        /\ t[d][l] = IF d = c /\ l = k THEN p ELSE u.tail[d][l]
  <2>1. ASSUME NEW d \in CPUs, NEW l \in Prios
        PROVE  h[d][l] = IF d = c /\ l = k /\ u.head[c][k] = NULL THEN p ELSE u.head[d][l]
    <3>1. h[d] = IF d = c THEN [u.head[c] EXCEPT ![k] = first] ELSE u.head[d]
      BY <1>1 DEF h
    <3> QED BY <1>1, <3>1
  <2>2. ASSUME NEW d \in CPUs, NEW l \in Prios
        PROVE  t[d][l] = IF d = c /\ l = k THEN p ELSE u.tail[d][l]
    <3>1. t[d] = IF d = c THEN [u.tail[c] EXCEPT ![k] = p] ELSE u.tail[d]
      BY <1>1 DEF t
    <3> QED BY <1>1, <3>1
  <2> QED BY <2>1, <2>2
<1>7. \A x \in Procs : n[x] = IF u.head[c][k] # NULL /\ x = u.tail[c][k] THEN p
                              ELSE IF x = p THEN NULL ELSE u.next[x]
  BY <1>1 DEF n
<1> QED BY <1>3, <1>4, <1>5, <1>6, <1>7

\* A list none of whose processes is linked otherwise stays what it is.
LEMMA ListKept ==
  ASSUME NEW u, NEW t, NEW w, NEW v, ListsHold(u, w), NEW d \in CPUs, NEW l \in Prios,
         Listed(v, d, l) = Listed(w, d, l),
         t.head[d][l] = u.head[d][l], t.tail[d][l] = u.tail[d][l],
         \A x \in Listed(w, d, l) : t.next[x] = u.next[x]
  PROVE  HoldsList(t, v, d, l)
<1>1. PICK n \in 0 .. NPROC : \E s \in [1 .. n -> Procs] :
           /\ n = Cardinality(Listed(w, d, l)) /\ IsList(u, d, l, n, s)
           /\ \A i \in 1 .. n : s[i] \in Listed(w, d, l)
           /\ \A x \in Listed(w, d, l) : \E i \in 1 .. n : s[i] = x
  BY ListOf
<1>2. PICK s \in [1 .. n -> Procs] :
           /\ n = Cardinality(Listed(w, d, l)) /\ IsList(u, d, l, n, s)
           /\ \A i \in 1 .. n : s[i] \in Listed(w, d, l)
           /\ \A x \in Listed(w, d, l) : \E i \in 1 .. n : s[i] = x
  BY <1>1
<1>3. s \in [1 .. n -> Listed(v, d, l)]
  BY <1>2
<1>4. IsList(t, d, l, n, s)
  BY <1>2 DEF IsList
<1> QED BY <1>2, <1>3, <1>4 DEF HoldsList

\* rq_add() appends a process that no list holds; the queue cannot be full.
LEMMA AddKeepsLists ==
  ASSUME NEW u, NEW w \in [Procs -> AllPlaces], ListsHold(u, w),
         NEW p \in Procs, w[p] = Nowhere, NEW c \in CPUs, NEW k \in Prios
  PROVE  ListsHold(rq_add(u, c, p, k), [w EXCEPT ![p] = <<c, k>>])
<1> DEFINE v == [w EXCEPT ![p] = <<c, k>>]
           t == rq_add(u, c, p, k)
           last == u.tail[c][k]
<1>1. /\ p \notin Counted(w, c) /\ Counted(v, c) = Counted(w, c) \cup {p}
      /\ p \notin Listed(w, c, k) /\ Listed(v, c, k) = Listed(w, c, k) \cup {p}
      /\ \A d \in CPUs : d # c => Counted(v, d) = Counted(w, d)
      /\ \A d \in CPUs, l \in Prios : d # c \/ l # k => Listed(v, d, l) = Listed(w, d, l)
      /\ \A d \in CPUs, l \in Prios : p \notin Listed(w, d, l)
  BY PlaceGained
<1> HIDE DEF v
<1>2. /\ u \in Queues /\ u.fault = "none"
      /\ \A d \in CPUs : u.count[d] = Cardinality(Counted(w, d))
  BY DEF ListsHold
<1>3. /\ IsFiniteSet(Counted(w, c)) /\ Cardinality(Counted(w, c)) \in Nat
      /\ Cardinality(Counted(v, c)) = Cardinality(Counted(w, c)) + 1
      /\ Cardinality(Counted(v, c)) <= NPROC
  <2>1. NPROC \in Nat
    BY PrioSizesAssumption
  <2>2. IsFiniteSet(Counted(w, c)) /\ Cardinality(Counted(w, c)) \in Nat
    BY <2>1, SetsAreFinite
  <2>3. Cardinality(Counted(v, c)) = Cardinality(Counted(w, c)) + 1
    BY <1>1, <2>2, FS_AddElement
  <2>4. Cardinality(Counted(v, c)) <= NPROC
    BY <2>1, SetsAreFinite
  <2> QED BY <2>2, <2>3, <2>4
<1>4. u.count[c] < MAX_PROCS
  BY <1>2, <1>3, PrioSizesAssumption
<1>5. IF Listed(w, c, k) = {} THEN u.head[c][k] = NULL
      ELSE u.head[c][k] \in Procs /\ u.tail[c][k] \in Listed(w, c, k)
  <2>1. Listed(w, c, k) \subseteq Procs
    BY DEF Listed
  <2> QED BY <2>1, ListFacts
<1>6. NULL \notin Procs /\ Listed(w, c, k) \subseteq Procs
  BY Basics DEF Listed
<1>7. /\ t \in Queues /\ t.fault = u.fault
      /\ \A d \in CPUs : t.count[d] = IF d = c THEN u.count[c] + 1 ELSE u.count[d]
      /\ \A d \in CPUs, l \in Prios :
           /\ t.head[d][l] = IF d = c /\ l = k /\ u.head[c][k] = NULL THEN p ELSE u.head[d][l]
           /\ t.tail[d][l] = IF d = c /\ l = k THEN p ELSE u.tail[d][l]
      /\ \A x \in Procs :
           t.next[x] = IF u.head[c][k] # NULL /\ x = u.tail[c][k] THEN p
                       ELSE IF x = p THEN NULL ELSE u.next[x]
  <2>1. u.head[c][k] = NULL \/ u.tail[c][k] # NULL
    BY <1>5, <1>6
  <2> QED BY <1>2, <1>4, <2>1, AddedFields
<1> HIDE DEF t
<1>8. \A d \in CPUs : t.count[d] = Cardinality(Counted(v, d))
  BY <1>1, <1>2, <1>3, <1>7
<1>9. ASSUME NEW d \in CPUs, NEW l \in Prios PROVE HoldsList(t, v, d, l)
  <2>1. CASE d # c \/ l # k
    <3>1. ASSUME NEW x \in Listed(w, d, l) PROVE t.next[x] = u.next[x]
      <4>1. x \in Procs /\ x # p
        BY <1>1 DEF Listed
      <4>2. u.head[c][k] = NULL \/ x # u.tail[c][k]
        <5>1. x \notin Listed(w, c, k)
          BY <2>1, ListsDisjoint
        <5> QED BY <1>5, <1>6, <5>1
      <4> QED BY <1>7, <4>1, <4>2
    <3>2. t.head[d][l] = u.head[d][l] /\ t.tail[d][l] = u.tail[d][l]
      BY <1>7, <2>1
    <3>3. Listed(v, d, l) = Listed(w, d, l)
      BY <1>1, <2>1
    <3> QED BY <3>1, <3>2, <3>3, ListKept
  <2>2. CASE d = c /\ l = k
    <3>1. PICK n \in 0 .. NPROC : \E s \in [1 .. n -> Procs] :
             /\ n = Cardinality(Listed(w, c, k)) /\ IsList(u, c, k, n, s)
             /\ \A i \in 1 .. n : s[i] \in Listed(w, c, k)
             /\ \A x \in Listed(w, c, k) : \E i \in 1 .. n : s[i] = x
      BY ListOf, SMTT(30)
    <3>2. PICK s \in [1 .. n -> Procs] :
             /\ n = Cardinality(Listed(w, c, k)) /\ IsList(u, c, k, n, s)
             /\ \A i \in 1 .. n : s[i] \in Listed(w, c, k)
             /\ \A x \in Listed(w, c, k) : \E i \in 1 .. n : s[i] = x
      BY <3>1
    <3>3. NPROC \in Nat /\ n \in Nat
      BY PrioSizesAssumption
    <3>4. n + 1 = Cardinality(Listed(v, c, k)) /\ n + 1 \in 0 .. NPROC
      <4>1. IsFiniteSet(Listed(w, c, k))
        BY SetsAreFinite
      <4>2. Cardinality(Listed(v, c, k)) = Cardinality(Listed(w, c, k)) + 1
        BY <1>1, <4>1, FS_AddElement
      <4> QED BY <3>2, <4>2, SetsAreFinite
    <3> DEFINE r == [i \in 1 .. n + 1 |-> IF i <= n THEN s[i] ELSE p]
    <3>5. \A i \in 1 .. n + 1 : r[i] = IF i <= n THEN s[i] ELSE p
      OBVIOUS
    <3>6. r \in [1 .. n + 1 -> Listed(v, c, k)]
      BY <1>1, <3>2, <3>3
    <3> HIDE DEF r
    <3>7. \A x \in Listed(v, c, k) : \E i \in 1 .. n + 1 : r[i] = x
      <4> SUFFICES ASSUME NEW x \in Listed(v, c, k) PROVE \E i \in 1 .. n + 1 : r[i] = x
        OBVIOUS
      <4>1. CASE x = p
        <5>1. n + 1 \in 1 .. n + 1 /\ r[n + 1] = x
          BY <3>3, <3>5, <4>1
        <5> QED BY <5>1
      <4>2. CASE x # p
        <5>1. PICK i \in 1 .. n : s[i] = x
          BY <1>1, <3>2, <4>2
        <5>2. i \in 1 .. n + 1 /\ r[i] = x
          BY <3>3, <3>5, <5>1
        <5> QED BY <5>2
      <4> QED BY <4>1, <4>2
    <3>8. IsList(t, c, k, n + 1, r)
      <4>1. /\ u.head[c][k] = IF n = 0 THEN NULL ELSE s[1]
            /\ u.tail[c][k] = IF n = 0 THEN NULL ELSE s[n]
            /\ \A i \in 1 .. n : u.next[s[i]] = IF i = n THEN NULL ELSE s[i + 1]
            /\ \A i, j \in 1 .. n : s[i] = s[j] => i = j
        BY <3>2 DEF IsList
      <4>2. \A i \in 1 .. n : s[i] \in Procs /\ s[i] # p
        BY <1>1, <3>2
      <4>3. t.head[c][k] = r[1]
        BY <1>6, <1>7, <3>3, <3>5, <4>1, <4>2
      <4>4. t.tail[c][k] = r[n + 1]
        BY <1>7, <3>3, <3>5
      <4>5. ASSUME NEW i \in 1 .. n + 1
            PROVE  t.next[r[i]] = IF i = n + 1 THEN NULL ELSE r[i + 1]
        <5>1. CASE i = n + 1
          <6>1. r[i] = p
            BY <3>3, <3>5, <5>1
          <6>2. u.head[c][k] = NULL \/ p # u.tail[c][k]
            BY <1>1, <1>5, <1>6
          <6> QED BY <1>7, <5>1, <6>1, <6>2
        <5>2. CASE i = n
          <6>1. i \in 1 .. n /\ r[i] = s[n] /\ r[i + 1] = p
            BY <3>3, <3>5, <5>2
          <6>2. u.head[c][k] # NULL /\ s[n] = u.tail[c][k]
            <7>1. 1 \in 1 .. n
              BY <3>3, <6>1
            <7> QED BY <1>6, <4>1, <4>2, <6>1, <7>1, <3>3
          <6> QED BY <1>7, <3>3, <4>2, <5>2, <6>1, <6>2
        <5>3. CASE i # n /\ i # n + 1
          <6>1. i \in 1 .. n /\ i + 1 \in 1 .. n /\ r[i] = s[i] /\ r[i + 1] = s[i + 1]
            BY <3>3, <3>5, <5>3
          <6>2. n \in 1 .. n /\ s[i] # s[n] /\ s[i] # p /\ s[i] \in Procs
            BY <3>3, <4>1, <4>2, <5>3, <6>1
          <6>3. t.next[s[i]] = u.next[s[i]]
            BY <1>7, <3>3, <4>1, <6>2
          <6> QED BY <3>3, <4>1, <5>3, <6>1, <6>3
        <5> QED BY <5>1, <5>2, <5>3
      <4>6. \A i, j \in 1 .. n + 1 : r[i] = r[j] => i = j
        BY <3>3, <3>5, <4>1, <4>2
      <4> QED BY <3>3, <4>3, <4>4, <4>5, <4>6 DEF IsList
    <3> QED BY <2>2, <3>4, <3>6, <3>7, <3>8 DEF HoldsList
  <2> QED BY <2>1, <2>2
<1>10. t \in Queues /\ t.fault = "none"
  BY <1>2, <1>7
<1>11. ListsHold(t, v)
  BY <1>8, <1>9, <1>10 DEF ListsHold
<1> QED BY <1>11 DEF t, v

\* rq_remove() does nothing to a process that is not in the list it looks at.
LEMMA RemoveAbsent ==
  ASSUME NEW u, NEW w, ListsHold(u, w), NEW p, NEW c \in CPUs, NEW k \in Prios,
         p \notin Listed(w, c, k)
  PROVE  rq_remove(u, c, p, k) = u
<1>1. Ends(u, c, k) /\ ListMembers(u, c, k) = Listed(w, c, k)
  BY ListFacts
<1> QED BY <1>1 DEF rq_remove

\* The places when p has left its list.
Without(w, p) == [w EXCEPT ![p] = Nowhere]

\* Where p leaves its list, that list and the processes of that CPU lose p.
LEMMA PlaceLost ==
  ASSUME NEW w \in [Procs -> AllPlaces], NEW p \in Procs,
         NEW c \in CPUs, NEW k \in Prios, w[p] = <<c, k>>
  PROVE  /\ p \in Counted(w, c) /\ Counted(Without(w, p), c) = Counted(w, c) \ {p}
         /\ p \in Listed(w, c, k) /\ Listed(Without(w, p), c, k) = Listed(w, c, k) \ {p}
         /\ \A d \in CPUs : d # c => Counted(Without(w, p), d) = Counted(w, d)
         /\ \A d \in CPUs, l \in Prios : d # c \/ l # k => Listed(Without(w, p), d, l) = Listed(w, d, l)
<1>1. \A x \in Procs : Without(w, p)[x] = IF x = p THEN Nowhere ELSE w[x]
  BY DEF Without
<1>2. Nowhere[1] = NoCpu /\ NoCpu \notin CPUs /\ w[p][1] = c
  BY Basics DEF Nowhere
<1>3. \A d \in CPUs, l \in Prios : Nowhere # <<d, l>>
  BY <1>2, Basics DEF Nowhere
<1>4. p \in Counted(w, c) /\ Counted(Without(w, p), c) = Counted(w, c) \ {p}
  BY <1>1, <1>2 DEF Counted
<1>5. \A d \in CPUs : d # c => Counted(Without(w, p), d) = Counted(w, d)
  BY <1>1, <1>2 DEF Counted
<1>6. p \in Listed(w, c, k) /\ Listed(Without(w, p), c, k) = Listed(w, c, k) \ {p}
  BY <1>1, <1>3 DEF Listed
<1>7. \A d \in CPUs, l \in Prios : d # c \/ l # k => Listed(Without(w, p), d, l) = Listed(w, d, l)
  BY <1>1, <1>3 DEF Listed
<1> QED BY <1>4, <1>5, <1>6, <1>7

\* The process before place m of a list.
Before(s, m) == IF m = 1 THEN NULL ELSE s[m - 1]

\* The fields after rq_remove() of the process at place m of a list.
LEMMA RemovedFields ==
  ASSUME NEW u \in Queues, NEW c \in CPUs, NEW k \in Prios,
         NEW n \in 0 .. NPROC, NEW s \in [1 .. n -> Procs], IsList(u, c, k, n, s),
         NEW m \in 1 .. n, NEW p, p = s[m]
  PROVE  LET t == rq_remove(u, c, p, k) IN
         /\ t \in Queues /\ t.fault = u.fault
         /\ \A d \in CPUs : t.count[d] = IF d = c THEN u.count[c] - 1 ELSE u.count[d]
         /\ \A d \in CPUs, l \in Prios :
              /\ t.head[d][l] = IF d = c /\ l = k /\ m = 1 THEN u.next[p] ELSE u.head[d][l]
              /\ t.tail[d][l] = IF d = c /\ l = k /\ u.next[p] = NULL THEN Before(s, m) ELSE u.tail[d][l]
         /\ \A x \in Procs : t.next[x] = IF x = p THEN NULL
                                         ELSE IF x = Before(s, m) THEN u.next[p] ELSE u.next[x]
<1> DEFINE prev == Before(s, m)
           node == Nodes(u, c, k)
           places == {j \in 0 .. NPROC : node[j] = p}
           first == IF m = 1 THEN u.next[p] ELSE u.head[c][k]
           last == IF u.next[p] = NULL THEN prev ELSE u.tail[c][k]
           h == [u.head EXCEPT ![c] = [u.head[c] EXCEPT ![k] = first]]
           t == [u.tail EXCEPT ![c] = [u.tail[c] EXCEPT ![k] = last]]
           link == [x \in Procs |-> IF x = p THEN NULL
                                    ELSE IF x = prev THEN u.next[p] ELSE u.next[x]]
           cnt == [u.count EXCEPT ![c] = u.count[c] - 1]
           v == [u EXCEPT !.head = h, !.tail = t, !.next = link, !.count = cnt]
<1>1. /\ u.head \in [CPUs -> [Prios -> Procs \cup {NULL}]]
      /\ u.tail \in [CPUs -> [Prios -> Procs \cup {NULL}]]
      /\ u.next \in [Procs -> Procs \cup {NULL}]
      /\ u.count \in [CPUs -> Int]
  BY DEF Queues
<1>2. /\ NPROC \in Nat /\ NULL \notin Procs /\ p \in Procs
      /\ prev \in Procs \cup {NULL} /\ (prev = NULL <=> m = 1)
  BY Basics, PrioSizesAssumption DEF Before
<1> HIDE DEF prev
<1>3. node = [i \in 0 .. NPROC |-> IF i < n THEN s[i + 1] ELSE NULL]
  BY TraversalMeets
<1>4. \A i, j \in 1 .. n : s[i] = s[j] => i = j
  BY DEF IsList
<1>5. places = {m - 1}
  <2>1. m - 1 \in places
    BY <1>2, <1>3
  <2>2. ASSUME NEW j \in places PROVE j = m - 1
    <3>1. j \in 0 .. NPROC /\ node[j] = p
      OBVIOUS
    <3> HIDE DEF places, node
    <3>2. j + 1 \in 1 .. n /\ s[j + 1] = p
      BY <1>2, <1>3, <3>1
    <3> QED BY <1>2, <1>4, <3>1, <3>2
  <2> HIDE DEF places
  <2> QED BY <2>1, <2>2
<1>6. Min(places) = m - 1
  <2> HIDE DEF places
  <2>1. places \in SUBSET Nat /\ places # {}
    <3>1. m - 1 \in Nat
      BY <1>2
    <3> QED BY <1>5, <3>1
  <2>2. Min(places) \in places
    BY <2>1, FirstIsMember
  <2> QED BY <1>5, <2>2
<1>7. (IF Min(places) = 0 THEN NULL ELSE node[Min(places) - 1]) = prev
  <2> HIDE DEF places
  <2>1. CASE m = 1
    BY <1>2, <1>6, <2>1 DEF prev, Before
  <2>2. CASE m # 1
    <3>1. m - 2 \in 0 .. NPROC /\ node[m - 2] = s[m - 1] /\ m - 1 # 0 /\ (m - 1) - 1 = m - 2
      BY <1>2, <1>3, <2>2
    <3> QED BY <1>6, <2>2, <3>1 DEF prev, Before
  <2> QED BY <2>1, <2>2
<1>8. p \in ListMembers(u, c, k)
  BY <1>2, <1>5 DEF ListMembers
<1> HIDE DEF node
<1>9. rq_remove(u, c, p, k) =
        [u EXCEPT !.head[c][k] = IF prev = NULL THEN u.next[p] ELSE u.head[c][k],
                  !.tail[c][k] = last,
                  !.next = [x \in Procs |-> IF x = p THEN NULL
                                            ELSE IF x = prev THEN u.next[p] ELSE u.next[x]],
                  !.count[c] = u.count[c] - 1]
  <2> DEFINE i == Min(places)
             back == IF i = 0 THEN NULL ELSE node[i - 1]
  <2>1. rq_remove(u, c, p, k) =
          [u EXCEPT !.head[c][k] = IF back = NULL THEN u.next[p] ELSE @,
                    !.tail[c][k] = IF u.next[p] = NULL THEN back ELSE @,
                    !.next = [x \in Procs |-> IF x = p THEN NULL
                                              ELSE IF x = back THEN u.next[p] ELSE @[x]],
                    !.count[c] = @ - 1]
    BY <1>8 DEF rq_remove, node
  <2>2. back = prev
    BY <1>7
  <2> HIDE DEF back
  <2> QED BY <1>1, <2>1, <2>2
<1>10. /\ h \in [CPUs -> [Prios -> Procs \cup {NULL}]]
       /\ t \in [CPUs -> [Prios -> Procs \cup {NULL}]]
       /\ link \in [Procs -> Procs \cup {NULL}]
       /\ cnt \in [CPUs -> Int]
  <2>1. u.next[p] \in Procs \cup {NULL} /\ u.count[c] \in Int
    BY <1>1, <1>2
  <2>2. first \in Procs \cup {NULL} /\ last \in Procs \cup {NULL}
    BY <1>1, <1>2, <2>1
  <2> HIDE DEF first, last
  <2> QED BY <1>1, <2>1, <2>2
<1>11. rq_remove(u, c, p, k) = v
  <2>1. (IF prev = NULL THEN u.next[p] ELSE u.head[c][k]) = first
    BY <1>2
  <2> HIDE DEF first, last
  <2> QED BY <1>9, <2>1 DEF Queues
<1> HIDE DEF h, t, link, cnt
<1>12. /\ v \in Queues
       /\ v.head = h /\ v.tail = t /\ v.next = link /\ v.count = cnt /\ v.fault = u.fault
  BY <1>10 DEF Queues
<1> HIDE DEF v
<1>13. \A d \in CPUs : cnt[d] = IF d = c THEN u.count[c] - 1 ELSE u.count[d]
  BY <1>1 DEF cnt
<1>14. ASSUME NEW d \in CPUs, NEW l \in Prios
       PROVE  h[d][l] = IF d = c /\ l = k /\ m = 1 THEN u.next[p] ELSE u.head[d][l]
  <2>1. h[d] = IF d = c THEN [u.head[c] EXCEPT ![k] = first] ELSE u.head[d]
    BY <1>1 DEF h
  <2> QED BY <1>1, <2>1
<1>15. ASSUME NEW d \in CPUs, NEW l \in Prios
       PROVE  t[d][l] = IF d = c /\ l = k /\ u.next[p] = NULL THEN prev ELSE u.tail[d][l]
  <2>1. t[d] = IF d = c THEN [u.tail[c] EXCEPT ![k] = last] ELSE u.tail[d]
    BY <1>1 DEF t
  <2> QED BY <1>1, <2>1
<1>16. \A x \in Procs : link[x] = IF x = p THEN NULL
                                  ELSE IF x = prev THEN u.next[p] ELSE u.next[x]
  BY DEF link
<1> QED BY <1>11, <1>12, <1>13, <1>14, <1>15, <1>16 DEF prev

\* rq_remove() takes a process out of the list that holds it.
LEMMA RemoveKeepsLists ==
  ASSUME NEW u, NEW w \in [Procs -> AllPlaces], ListsHold(u, w),
         NEW p \in Procs, NEW c \in CPUs, NEW k \in Prios, w[p] = <<c, k>>
  PROVE  ListsHold(rq_remove(u, c, p, k), Without(w, p))
<1> DEFINE v == Without(w, p)
           t == rq_remove(u, c, p, k)
<1>1. /\ p \in Counted(w, c) /\ Counted(v, c) = Counted(w, c) \ {p}
      /\ p \in Listed(w, c, k) /\ Listed(v, c, k) = Listed(w, c, k) \ {p}
      /\ \A d \in CPUs : d # c => Counted(v, d) = Counted(w, d)
      /\ \A d \in CPUs, l \in Prios : d # c \/ l # k => Listed(v, d, l) = Listed(w, d, l)
  BY PlaceLost
<1> HIDE DEF v
<1>2. /\ u \in Queues /\ u.fault = "none"
      /\ \A d \in CPUs : u.count[d] = Cardinality(Counted(w, d))
  BY DEF ListsHold
<1>3. /\ Cardinality(Counted(v, c)) = Cardinality(Counted(w, c)) - 1
      /\ Cardinality(Listed(v, c, k)) = Cardinality(Listed(w, c, k)) - 1
  <2>1. IsFiniteSet(Counted(w, c)) /\ IsFiniteSet(Listed(w, c, k))
    BY SetsAreFinite
  <2>2. Cardinality(Counted(w, c) \ {p}) = Cardinality(Counted(w, c)) - 1
    BY <1>1, <2>1, FS_RemoveElement
  <2>3. Cardinality(Listed(w, c, k) \ {p}) = Cardinality(Listed(w, c, k)) - 1
    BY <1>1, <2>1, FS_RemoveElement
  <2> QED BY <1>1, <2>2, <2>3
<1>4. PICK n \in 0 .. NPROC : \E s \in [1 .. n -> Procs] :
           /\ n = Cardinality(Listed(w, c, k)) /\ IsList(u, c, k, n, s)
           /\ \A i \in 1 .. n : s[i] \in Listed(w, c, k)
           /\ \A x \in Listed(w, c, k) : \E i \in 1 .. n : s[i] = x
  BY ListOf
<1>5. PICK s \in [1 .. n -> Procs] :
           /\ n = Cardinality(Listed(w, c, k)) /\ IsList(u, c, k, n, s)
           /\ \A i \in 1 .. n : s[i] \in Listed(w, c, k)
           /\ \A x \in Listed(w, c, k) : \E i \in 1 .. n : s[i] = x
  BY <1>4
<1>6. /\ u.head[c][k] = IF n = 0 THEN NULL ELSE s[1]
      /\ u.tail[c][k] = IF n = 0 THEN NULL ELSE s[n]
      /\ \A i \in 1 .. n : u.next[s[i]] = IF i = n THEN NULL ELSE s[i + 1]
      /\ \A i, j \in 1 .. n : s[i] = s[j] => i = j
  BY <1>5 DEF IsList
<1>7. PICK m \in 1 .. n : s[m] = p
  BY <1>1, <1>5
<1> DEFINE prev == Before(s, m)
<1>8. /\ t \in Queues /\ t.fault = u.fault
      /\ \A d \in CPUs : t.count[d] = IF d = c THEN u.count[c] - 1 ELSE u.count[d]
      /\ \A d \in CPUs, l \in Prios :
           /\ t.head[d][l] = IF d = c /\ l = k /\ m = 1 THEN u.next[p] ELSE u.head[d][l]
           /\ t.tail[d][l] = IF d = c /\ l = k /\ u.next[p] = NULL THEN prev ELSE u.tail[d][l]
      /\ \A x \in Procs : t.next[x] = IF x = p THEN NULL
                                      ELSE IF x = prev THEN u.next[p] ELSE u.next[x]
  <2>1. u \in Queues /\ IsList(u, c, k, n, s) /\ p = s[m]
    BY <1>2, <1>5, <1>7
  <2> QED BY <2>1, RemovedFields, SMTT(30)
<1> HIDE DEF t
<1>9. /\ NPROC \in Nat /\ n \in Nat /\ NULL \notin Procs /\ Listed(w, c, k) \subseteq Procs
      /\ prev \in Listed(w, c, k) \cup {NULL} /\ prev # p
      /\ prev = IF m = 1 THEN NULL ELSE s[m - 1]
  <2>1. NPROC \in Nat /\ n \in Nat /\ NULL \notin Procs /\ Listed(w, c, k) \subseteq Procs
    BY Basics, PrioSizesAssumption DEF Listed
  <2>2. CASE m = 1
    BY <2>1, <2>2 DEF Before
  <2>3. CASE m # 1
    <3>1. m - 1 \in 1 .. n
      BY <2>1, <2>3
    <3>2. prev = s[m - 1] /\ m # m - 1
      BY <2>1, <2>3 DEF Before
    <3>3. s[m - 1] # p
      BY <1>6, <1>7, <3>1, <3>2
    <3> HIDE DEF prev
    <3> QED BY <1>5, <2>1, <2>3, <3>1, <3>2, <3>3
  <2> QED BY <2>1, <2>2, <2>3
<1> HIDE DEF prev
<1>10. \A d \in CPUs : t.count[d] = Cardinality(Counted(v, d))
  BY <1>1, <1>2, <1>3, <1>8
<1>11. ASSUME NEW d \in CPUs, NEW l \in Prios PROVE HoldsList(t, v, d, l)
  <2>1. CASE d # c \/ l # k
    <3>1. ASSUME NEW x \in Listed(w, d, l) PROVE t.next[x] = u.next[x]
      <4>1. x \in Procs /\ x \notin Listed(w, c, k)
        BY <2>1, ListsDisjoint DEF Listed
      <4> QED BY <1>1, <1>8, <1>9, <4>1
    <3>2. t.head[d][l] = u.head[d][l] /\ t.tail[d][l] = u.tail[d][l]
      <4> QED BY <1>8, <2>1
    <3>3. Listed(v, d, l) = Listed(w, d, l)
      BY <1>1, <2>1
    <3> QED BY <3>1, <3>2, <3>3, ListKept
  <2>2. CASE d = c /\ l = k
    <3> DEFINE r == [i \in 1 .. n - 1 |-> IF i < m THEN s[i] ELSE s[i + 1]]
    <3>1. n - 1 = Cardinality(Listed(v, c, k)) /\ n - 1 \in 0 .. NPROC
      BY <1>3, <1>5, <1>7, <1>9
    <3>2. \A i \in 1 .. n - 1 : r[i] = IF i < m THEN s[i] ELSE s[i + 1]
      OBVIOUS
    <3>3. \A i \in 1 .. n - 1 : r[i] \in Listed(v, c, k)
      BY <1>1, <1>5, <1>6, <1>7, <1>9, <3>2
    <3>4. r \in [1 .. n - 1 -> Listed(v, c, k)]
      BY <3>3
    <3> HIDE DEF r
    <3>5. \A x \in Listed(v, c, k) : \E i \in 1 .. n - 1 : r[i] = x
      <4> SUFFICES ASSUME NEW x \in Listed(v, c, k) PROVE \E i \in 1 .. n - 1 : r[i] = x
        OBVIOUS
      <4>1. PICK i \in 1 .. n : s[i] = x
        BY <1>1, <1>5
      <4>2. i # m
        BY <1>1, <1>7, <4>1
      <4>3. CASE i < m
        <5>1. i \in 1 .. n - 1 /\ r[i] = x
          BY <1>9, <3>2, <4>1, <4>3
        <5> QED BY <5>1
      <4>4. CASE i > m
        <5>1. i - 1 \in 1 .. n - 1 /\ r[i - 1] = x
          BY <1>9, <3>2, <4>1, <4>4
        <5> QED BY <5>1
      <4> QED BY <1>9, <4>2, <4>3, <4>4
    <3>6. IsList(t, c, k, n - 1, r)
      <4>1. u.next[p] = IF m = n THEN NULL ELSE s[m + 1]
        BY <1>6, <1>7
      <4>2. \A i \in 1 .. n : s[i] \in Procs
        OBVIOUS
      <4>3. u.next[p] = NULL <=> m = n
        <5>1. CASE m = n
          BY <4>1, <5>1
        <5>2. CASE m # n
          <6>1. m + 1 \in 1 .. n
            BY <1>9, <5>2
          <6> QED BY <1>9, <4>1, <4>2, <5>2, <6>1
        <5> QED BY <5>1, <5>2
      <4>4. t.head[c][k] = IF n - 1 = 0 THEN NULL ELSE r[1]
        <5>1. t.head[c][k] = IF m = 1 THEN u.next[p] ELSE u.head[c][k]
          BY <1>8
        <5>2. CASE m = 1
          BY <1>9, <3>2, <4>1, <5>1, <5>2
        <5>3. CASE m # 1
          BY <1>6, <1>9, <3>2, <5>1, <5>3
        <5> QED BY <5>2, <5>3
      <4>5. t.tail[c][k] = IF n - 1 = 0 THEN NULL ELSE r[n - 1]
        <5>1. t.tail[c][k] = IF u.next[p] = NULL THEN prev ELSE u.tail[c][k]
          BY <1>8
        <5>2. CASE m = n
          BY <1>9, <3>2, <4>3, <5>1, <5>2
        <5>3. CASE m # n
          <6>1. n # 0 /\ n # 1 /\ n - 1 \in 1 .. n - 1 /\ r[n - 1] = s[n]
            BY <1>9, <3>2, <5>3
          <6> QED BY <1>6, <1>9, <4>3, <5>1, <5>3, <6>1
        <5> QED BY <5>2, <5>3
      <4>6. ASSUME NEW i \in 1 .. n - 1
            PROVE  t.next[r[i]] = IF i = n - 1 THEN NULL ELSE r[i + 1]
        <5>1. CASE i + 1 = m
          <6>1. /\ m # 1 /\ i = m - 1 /\ i \in 1 .. n /\ r[i] = s[i] /\ prev = s[i]
            BY <1>9, <3>2, <5>1
          <6>2. t.next[r[i]] = u.next[p]
            <7>1. s[i] \in Procs /\ s[i] # p
              BY <1>9, <6>1
            <7> QED BY <1>8, <6>1, <7>1
          <6>3. CASE i = n - 1
            BY <1>9, <4>1, <5>1, <6>2, <6>3
          <6>4. CASE i # n - 1
            <7>1. i + 1 \in 1 .. n - 1 /\ r[i + 1] = s[m + 1] /\ m # n
              BY <1>9, <3>2, <5>1, <6>4
            <7> QED BY <4>1, <6>2, <6>4, <7>1
          <6> QED BY <6>3, <6>4
        <5>2. CASE i + 1 < m
          <6>1. /\ i \in 1 .. n /\ r[i] = s[i] /\ i + 1 \in 1 .. n - 1 /\ r[i + 1] = s[i + 1]
                /\ i # n - 1 /\ i # n
            BY <1>9, <3>2, <5>2
          <6>2. s[i] # p /\ s[i] # prev /\ s[i] \in Procs
            BY <1>6, <1>7, <1>9, <5>2, <6>1
          <6>3. t.next[s[i]] = u.next[s[i]]
            <7> QED BY <1>8, <6>2
          <6> QED BY <1>6, <6>1, <6>3
        <5>3. CASE i + 1 > m
          <6>1. i + 1 \in 1 .. n /\ r[i] = s[i + 1] /\ i + 1 # m
            BY <1>9, <3>2, <5>3
          <6>2. s[i + 1] # p /\ s[i + 1] # prev /\ s[i + 1] \in Procs
            <7>1. s[i + 1] # p /\ s[i + 1] \in Procs
              BY <1>6, <1>7, <6>1
            <7>2. CASE m = 1
              BY <1>9, <7>1, <7>2
            <7>3. CASE m # 1
              <8>1. m - 1 \in 1 .. n /\ m - 1 # i + 1
                BY <1>9, <5>3, <7>3
              <8>2. prev = s[m - 1] /\ s[m - 1] # s[i + 1]
                BY <1>6, <1>9, <6>1, <7>3, <8>1
              <8> QED BY <7>1, <8>2
            <7> QED BY <7>1, <7>2, <7>3
          <6>3. t.next[s[i + 1]] = u.next[s[i + 1]]
            <7> QED BY <1>8, <6>2
          <6>4. u.next[s[i + 1]] = IF i + 1 = n THEN NULL ELSE s[i + 2]
            <7>1. (i + 1) + 1 = i + 2
              OBVIOUS
            <7> QED BY <1>6, <6>1, <7>1
          <6>5. CASE i = n - 1
            BY <1>9, <6>1, <6>3, <6>4, <6>5
          <6>6. CASE i # n - 1
            <7>1. i + 1 \in 1 .. n - 1 /\ r[i + 1] = s[i + 2] /\ i + 1 # n
              BY <1>9, <3>2, <5>3, <6>6
            <7> QED BY <6>1, <6>3, <6>4, <6>6, <7>1
          <6> QED BY <6>5, <6>6
        <5> QED BY <1>9, <5>1, <5>2, <5>3
      <4>7. \A i, j \in 1 .. n - 1 : r[i] = r[j] => i = j
        <5> SUFFICES ASSUME NEW i \in 1 .. n - 1, NEW j \in 1 .. n - 1, r[i] = r[j]
                     PROVE  i = j
          OBVIOUS
        <5> DEFINE a == IF i < m THEN i ELSE i + 1
                   b == IF j < m THEN j ELSE j + 1
        <5>1. a \in 1 .. n /\ b \in 1 .. n /\ r[i] = s[a] /\ r[j] = s[b]
          BY <1>9, <3>2
        <5>2. a = b
          <6> HIDE DEF a, b
          <6>1. s[a] = s[b]
            BY <5>1
          <6> QED BY <1>6, <5>1, <6>1, ZenonT(60)
        <5> QED BY <1>9, <5>2
      <4> QED BY <4>4, <4>5, <4>6, <4>7 DEF IsList
    <3> QED BY <2>2, <3>1, <3>4, <3>5, <3>6 DEF HoldsList
  <2> QED BY <2>1, <2>2
<1>12. t \in Queues /\ t.fault = "none"
  BY <1>2, <1>8
<1>13. ListsHold(t, v)
  BY <1>10, <1>11, <1>12 DEF ListsHold
<1> QED BY <1>13 DEF t, v

\* Of the lists of a CPU that are not empty, one is looked at first.
LEMMA BestListExists ==
  ASSUME NEW u, NEW c, NonEmpty(u, c) # {}
  PROVE  /\ BestList(u, c) \in NonEmpty(u, c)
         /\ \A l \in NonEmpty(u, c) : Rank(BestList(u, c)) <= Rank(l)
<1> DEFINE S == {Rank(k) + 1 : k \in NonEmpty(u, c)}
<1>1. \A k \in NonEmpty(u, c) : Rank(k) \in Int /\ Rank(k) + 1 \in Nat
  BY PrioSizesAssumption DEF NonEmpty, Rank, Prios
<1>2. S \in SUBSET Nat /\ S # {}
  BY <1>1
<1>3. PICK x \in S : \A y \in S : x <= y
  <2> HIDE DEF S
  <2> QED BY <1>2, FirstIsMember
<1>4. PICK k \in NonEmpty(u, c) : x = Rank(k) + 1
  BY <1>3
<1>5. \A l \in NonEmpty(u, c) : Rank(k) <= Rank(l)
  BY <1>1, <1>3, <1>4
<1> QED BY <1>5 DEF BestList

LEMMA QueuesEqual ==
  ASSUME NEW u \in Queues, NEW v \in Queues,
         u.head = v.head, u.tail = v.tail, u.next = v.next, u.count = v.count, u.fault = v.fault
  PROVE  u = v
BY DEF Queues

\* rq_select() removes the process it returns, the first one of the list looked at first.
LEMMA SelectRemoves ==
  ASSUME NEW u, NEW w \in [Procs -> AllPlaces], ListsHold(u, w), NEW c \in CPUs,
         Selected(u, c) # NULL
  PROVE  \E k \in Prios :
           /\ Selected(u, c) \in Procs /\ w[Selected(u, c)] = <<c, k>>
           /\ rq_select(u, c) = rq_remove(u, c, Selected(u, c), k)
           /\ \A x \in Procs, l \in Prios : w[x] = <<c, l>> => Rank(k) <= Rank(l)
<1> DEFINE k == BestList(u, c)
           p == u.head[c][k]
<1>1. NonEmpty(u, c) # {} /\ Selected(u, c) = p
  BY DEF Selected
<1>2. /\ k \in NonEmpty(u, c) /\ k \in Prios /\ p # NULL
      /\ \A l \in NonEmpty(u, c) : Rank(k) <= Rank(l)
  BY <1>1, BestListExists DEF NonEmpty
<1> HIDE DEF k
<1>3. p \in Listed(w, c, k)
  BY <1>2, ListFacts
<1>4. p \in Procs /\ w[p] = <<c, k>>
  BY <1>3 DEF Listed
<1>5. ASSUME NEW x \in Procs, NEW l \in Prios, w[x] = <<c, l>>
      PROVE  Rank(k) <= Rank(l)
  <2>1. x \in Listed(w, c, l) /\ Listed(w, c, l) \subseteq Procs
    BY <1>5 DEF Listed
  <2>2. u.head[c][l] \in Procs
    BY <2>1, ListFacts
  <2>3. l \in NonEmpty(u, c)
    BY <2>2, Basics DEF NonEmpty
  <2> QED BY <1>2, <2>3
<1>6. rq_select(u, c) = rq_remove(u, c, p, k)
  <2>1. u \in Queues
    BY DEF ListsHold
  <2>2. /\ u.head \in [CPUs -> [Prios -> Procs \cup {NULL}]]
        /\ u.tail \in [CPUs -> [Prios -> Procs \cup {NULL}]]
        /\ u.next \in [Procs -> Procs \cup {NULL}]
        /\ u.count \in [CPUs -> Int]
    BY <2>1 DEF Queues
  <2>3. PICK n \in 0 .. NPROC : \E s \in [1 .. n -> Procs] :
             /\ n = Cardinality(Listed(w, c, k)) /\ IsList(u, c, k, n, s)
             /\ \A i \in 1 .. n : s[i] \in Listed(w, c, k)
             /\ \A x \in Listed(w, c, k) : \E i \in 1 .. n : s[i] = x
    BY <1>2, ListOf
  <2>4. PICK s \in [1 .. n -> Procs] :
             /\ n = Cardinality(Listed(w, c, k)) /\ IsList(u, c, k, n, s)
             /\ \A i \in 1 .. n : s[i] \in Listed(w, c, k)
             /\ \A x \in Listed(w, c, k) : \E i \in 1 .. n : s[i] = x
    BY <2>3
  <2>5. NPROC \in Nat /\ n # 0 /\ 1 \in 1 .. n /\ p = s[1]
    <3>1. NPROC \in Nat
      BY PrioSizesAssumption
    <3>2. n # 0
      BY <1>3, <2>4, <3>1
    <3> QED BY <2>4, <3>1, <3>2 DEF IsList
  <2> DEFINE r == rq_remove(u, c, p, k)
  <2> PICK m \in 1 .. n : m = 1 /\ p = s[m]
    BY <2>5
  <2>6. /\ r \in Queues /\ r.fault = u.fault
        /\ \A d \in CPUs : r.count[d] = IF d = c THEN u.count[c] - 1 ELSE u.count[d]
        /\ \A d \in CPUs, l \in Prios :
             /\ r.head[d][l] = IF d = c /\ l = k /\ m = 1 THEN u.next[p] ELSE u.head[d][l]
             /\ r.tail[d][l] = IF d = c /\ l = k /\ u.next[p] = NULL THEN Before(s, m)
                               ELSE u.tail[d][l]
        /\ \A x \in Procs : r.next[x] = IF x = p THEN NULL
                                        ELSE IF x = Before(s, m) THEN u.next[p] ELSE u.next[x]
    BY <1>2, <2>1, <2>4, RemovedFields, SMTT(30)
  <2> HIDE DEF r
  <2> DEFINE last == IF u.next[p] = NULL THEN NULL ELSE u.tail[c][k]
             h == [u.head EXCEPT ![c] = [u.head[c] EXCEPT ![k] = u.next[p]]]
             t == [u.tail EXCEPT ![c] = [u.tail[c] EXCEPT ![k] = last]]
             link == [u.next EXCEPT ![p] = NULL]
             cnt == [u.count EXCEPT ![c] = u.count[c] - 1]
             v == [u EXCEPT !.head = h, !.tail = t, !.next = link, !.count = cnt]
  <2>7. rq_select(u, c) = v
    <3>1. rq_select(u, c) =
            [u EXCEPT !.head[c][k] = u.next[p],
                      !.tail[c][k] = IF u.next[p] = NULL THEN NULL ELSE @,
                      !.next[p] = NULL,
                      !.count[c] = @ - 1]
      BY <1>1, <1>2 DEF rq_select, k
    <3>2. rq_select(u, c) =
            [u EXCEPT !.head[c][k] = u.next[p], !.tail[c][k] = last, !.next[p] = NULL,
                      !.count[c] = u.count[c] - 1]
      BY <2>1, <2>2, <3>1, <1>2 DEF Queues
    <3> HIDE DEF last, p
    <3> QED BY <1>2, <2>1, <3>2 DEF Queues
  <2>8. /\ h \in [CPUs -> [Prios -> Procs \cup {NULL}]]
        /\ t \in [CPUs -> [Prios -> Procs \cup {NULL}]]
        /\ link \in [Procs -> Procs \cup {NULL}]
        /\ cnt \in [CPUs -> Int]
    <3>1. u.next[p] \in Procs \cup {NULL} /\ last \in Procs \cup {NULL}
      BY <1>2, <1>4, <2>2
    <3>2. u.head[c] \in [Prios -> Procs \cup {NULL}] /\ u.tail[c] \in [Prios -> Procs \cup {NULL}]
      BY <2>2
    <3>3. p \in Procs /\ u.count[c] - 1 \in Int
      BY <1>4, <2>2
    <3> HIDE DEF last, p
    <3>4. /\ [u.head[c] EXCEPT ![k] = u.next[p]] \in [Prios -> Procs \cup {NULL}]
          /\ [u.tail[c] EXCEPT ![k] = last] \in [Prios -> Procs \cup {NULL}]
      BY <3>1, <3>2
    <3>5. h \in [CPUs -> [Prios -> Procs \cup {NULL}]]
      BY <2>2, <3>4
    <3>6. t \in [CPUs -> [Prios -> Procs \cup {NULL}]]
      BY <2>2, <3>4
    <3>7. link \in [Procs -> Procs \cup {NULL}] /\ cnt \in [CPUs -> Int]
      BY <2>2, <3>3
    <3> QED BY <3>5, <3>6, <3>7
  <2> HIDE DEF h, t, link, cnt
  <2>9. /\ v \in Queues
        /\ v.head = h /\ v.tail = t /\ v.next = link /\ v.count = cnt /\ v.fault = u.fault
    BY <2>1, <2>8 DEF Queues
  <2> HIDE DEF v
  <2>10. Before(s, m) = NULL /\ NULL \notin Procs
    BY Basics DEF Before
  <2>11. r.head = h /\ r.tail = t
    <3>1. /\ r.head \in [CPUs -> [Prios -> Procs \cup {NULL}]]
          /\ r.tail \in [CPUs -> [Prios -> Procs \cup {NULL}]]
      BY <2>6 DEF Queues
    <3>2. ASSUME NEW d \in CPUs, NEW l \in Prios
          PROVE  r.head[d][l] = h[d][l] /\ r.tail[d][l] = t[d][l]
      <4>1. /\ h[d] = IF d = c THEN [u.head[c] EXCEPT ![k] = u.next[p]] ELSE u.head[d]
            /\ t[d] = IF d = c THEN [u.tail[c] EXCEPT ![k] = last] ELSE u.tail[d]
        BY <2>2 DEF h, t
      <4> HIDE DEF p
      <4> QED BY <1>2, <2>2, <2>6, <2>10, <4>1
    <3>3. ASSUME NEW d \in CPUs PROVE r.head[d] = h[d] /\ r.tail[d] = t[d]
      BY <2>8, <3>1, <3>2
    <3> QED BY <2>8, <3>1, <3>3
  <2>12. r.next = link
    <3>1. r.next \in [Procs -> Procs \cup {NULL}]
      BY <2>6 DEF Queues
    <3>2. \A x \in Procs : r.next[x] = link[x]
      BY <2>2, <2>6, <2>10 DEF link
    <3> QED BY <2>8, <3>1, <3>2
  <2>13. r.count = cnt
    <3>1. r.count \in [CPUs -> Int]
      BY <2>6 DEF Queues
    <3>2. \A d \in CPUs : r.count[d] = cnt[d]
      BY <2>2, <2>6 DEF cnt
    <3> QED BY <2>8, <3>1, <3>2
  <2>14. r = v
    BY <2>6, <2>9, <2>11, <2>12, <2>13, QueuesEqual
  <2> QED BY <2>7, <2>14 DEF r
<1> QED BY <1>1, <1>2, <1>4, <1>5, <1>6

\* A process that changes its priority moves from one list of its CPU to another.
LEMMA MoveKeepsLists ==
  ASSUME NEW u, NEW w \in [Procs -> AllPlaces], ListsHold(u, w),
         NEW p \in Procs, NEW c \in CPUs, NEW j \in Prios, w[p] = <<c, j>>, NEW k \in Prios
  PROVE  ListsHold(rq_add(rq_remove(u, c, p, j), c, p, k), [w EXCEPT ![p] = <<c, k>>])
<1> DEFINE v == Without(w, p)
<1>1. ListsHold(rq_remove(u, c, p, j), v)
  BY RemoveKeepsLists
<1>2. v \in [Procs -> AllPlaces] /\ v[p] = Nowhere
  BY DEF Without, AllPlaces
<1>3. [v EXCEPT ![p] = <<c, k>>] = [w EXCEPT ![p] = <<c, k>>]
  BY DEF Without
<1> HIDE DEF v
<1>4. ListsHold(rq_add(rq_remove(u, c, p, j), c, p, k), [v EXCEPT ![p] = <<c, k>>])
  BY <1>1, <1>2, AddKeepsLists
<1> QED BY <1>3, <1>4

-------------------------------------------------------------------------------
(* The scans of the process table: wakeup1() and update_priorities(). *)

\* The table that a scan works on: the lists hold what states and priorities say.
TableGood(t) ==
  /\ t \in [state : [Procs -> ProcStates], priority : [Procs -> Prios], q : Queues]
  /\ \A p \in Procs : t.state[p] \notin {"UNUSED", "EMBRYO"} => cpu[p] \in CPUs
  /\ ListsHold(t.q, Places(t.state, t.priority))

WakeVisit(s, p, ch) == IF s.state[p] = "SLEEPING" /\ chan[p] = ch THEN Awaken(s, p) ELSE s

\* The tables between two visits exist: wakeup1() visits the slots one after the other.
LEMMA WakeScan ==
  ASSUME NEW t, NEW ch
  PROVE  \E f : /\ f = [i \in 0 .. NPROC |-> IF i = 0 THEN t ELSE WakeVisit(f[i - 1], i, ch)]
                /\ wakeup1(t, ch) = f[NPROC]
<1> DEFINE Upto(f, n) == f = [i \in 0 .. n |-> IF i = 0 THEN t ELSE WakeVisit(f[i - 1], i, ch)]
           Bad == {n \in 0 .. NPROC : ~ \E f : Upto(f, n)}
<1>1. NPROC \in Nat
  BY PrioSizesAssumption
<1>2. Bad = {}
  <2> SUFFICES ASSUME Bad # {} PROVE FALSE
    OBVIOUS
  <2>1. PICK m \in Bad : \A i \in Bad : m <= i
    <3>1. Bad \in SUBSET Nat
      BY <1>1
    <3> HIDE DEF Bad
    <3> QED BY <3>1, FirstIsMember
  <2>2. CASE m = 0
    <3> DEFINE f == [i \in 0 .. 0 |-> t]
    <3>1. Upto(f, 0)
      OBVIOUS
    <3> QED BY <2>1, <2>2, <3>1
  <2>3. CASE m # 0
    <3>1. m - 1 \in 0 .. NPROC /\ m - 1 \notin Bad /\ m \in Nat
      BY <1>1, <2>1, <2>3
    <3>2. PICK g : Upto(g, m - 1)
      BY <3>1
    <3> DEFINE f == [i \in 0 .. m |-> IF i = m THEN WakeVisit(g[m - 1], m, ch) ELSE g[i]]
               h == [i \in 0 .. m |-> IF i = 0 THEN t ELSE WakeVisit(f[i - 1], i, ch)]
    <3>3. ASSUME NEW i \in 0 .. m PROVE f[i] = h[i]
      <4>1. CASE i = 0
        BY <2>3, <3>1, <3>2, <4>1
      <4>2. CASE i = m
        BY <2>3, <3>1, <4>2
      <4>3. CASE i # 0 /\ i # m
        <5>1. i \in 0 .. m - 1 /\ f[i] = g[i] /\ i - 1 \in 0 .. m /\ f[i - 1] = g[i - 1]
          BY <3>1, <4>3
        <5>2. g[i] = WakeVisit(g[i - 1], i, ch)
          BY <3>2, <4>3, <5>1
        <5>3. h[i] = WakeVisit(f[i - 1], i, ch)
          BY <4>3
        <5> HIDE DEF f, h
        <5> QED BY <5>1, <5>2, <5>3
      <4> QED BY <4>1, <4>2, <4>3
    <3>4. f = h
      BY <3>3
    <3>5. Upto(f, m)
      BY <3>4
    <3> QED BY <2>1, <3>5
  <2> QED BY <2>2, <2>3
<1>3. wakeup1(t, ch) = (CHOOSE f : Upto(f, NPROC))[NPROC]
  BY DEF wakeup1, Scan, WakeVisit
<1>4. \E f : Upto(f, NPROC)
  <2>1. NPROC \in 0 .. NPROC
    BY <1>1
  <2> QED BY <1>2, <2>1
<1> DEFINE f == CHOOSE f : Upto(f, NPROC)
<1>5. Upto(f, NPROC)
  <2> HIDE DEF Upto
  <2> QED BY <1>4
<1> QED BY <1>3, <1>5

\* An entry of a table is where the process belongs.
LEMMA PlaceFacts ==
  ASSUME NEW t, TableGood(t)
  PROVE  LET w == Places(t.state, t.priority) IN
         /\ w \in [Procs -> AllPlaces]
         /\ \A p \in Procs : w[p] = IF t.state[p] = "RUNNABLE" THEN <<cpu[p], t.priority[p]>>
                                    ELSE Nowhere
<1>1. /\ t.state \in [Procs -> ProcStates] /\ t.priority \in [Procs -> Prios]
      /\ \A p \in Procs : t.state[p] \notin {"UNUSED", "EMBRYO"} => cpu[p] \in CPUs
  BY DEF TableGood
<1>2. \A p \in Procs : t.state[p] = "RUNNABLE" => <<cpu[p], t.priority[p]>> \in CPUs \X Prios
  BY <1>1
<1> QED BY <1>2 DEF Places, AllPlaces

\* A sleeper becomes RUNNABLE with the priority it has, and is queued there.
LEMMA SleeperQueued ==
  ASSUME NEW t, TableGood(t), NEW p \in Procs, t.state[p] = "SLEEPING"
  PROVE  TableGood([state    |-> [t.state EXCEPT ![p] = "RUNNABLE"],
                    priority |-> t.priority,
                    q        |-> rq_add(t.q, cpu[p], p, t.priority[p])])
<1> DEFINE w == Places(t.state, t.priority)
           st == [t.state EXCEPT ![p] = "RUNNABLE"]
           u == rq_add(t.q, cpu[p], p, t.priority[p])
           r == [state |-> st, priority |-> t.priority, q |-> u]
<1>1. /\ t.state \in [Procs -> ProcStates] /\ t.priority \in [Procs -> Prios]
      /\ \A x \in Procs : t.state[x] \notin {"UNUSED", "EMBRYO"} => cpu[x] \in CPUs
      /\ ListsHold(t.q, w)
  BY DEF TableGood
<1>2. /\ w \in [Procs -> AllPlaces] /\ w[p] = Nowhere
      /\ cpu[p] \in CPUs /\ t.priority[p] \in Prios
  BY <1>1, PlaceFacts
<1>3. [w EXCEPT ![p] = <<cpu[p], t.priority[p]>>] = Places(st, t.priority)
  BY <1>1 DEF Places
<1> HIDE DEF w
<1>4. ListsHold(u, [w EXCEPT ![p] = <<cpu[p], t.priority[p]>>])
  BY <1>1, <1>2, AddKeepsLists
<1>5. st \in [Procs -> ProcStates]
      /\ \A x \in Procs : st[x] \notin {"UNUSED", "EMBRYO"} => cpu[x] \in CPUs
  BY <1>1 DEF ProcStates
<1>6. u \in Queues
  BY <1>4 DEF ListsHold
<1> HIDE DEF st, u
<1>7. r \in [state : [Procs -> ProcStates], priority : [Procs -> Prios], q : Queues]
  BY <1>1, <1>5, <1>6
<1> QED BY <1>3, <1>4, <1>5, <1>7 DEF TableGood, st, u

\* Whoever is not lifted is only woken.
LEMMA AwakenKeeps ==
  ASSUME NEW t, TableGood(t), NEW p \in Procs, t.state[p] = "SLEEPING",
         t.priority[p] = 0 \/ t.priority[p] = SHORT
  PROVE  /\ TableGood(Awaken(t, p))
         /\ Awaken(t, p).state = [t.state EXCEPT ![p] = "RUNNABLE"]
         /\ Awaken(t, p).priority = t.priority
<1>1. t.priority \in [Procs -> Prios]
  BY DEF TableGood
<1>2. Awaken(t, p) = [state    |-> [t.state EXCEPT ![p] = "RUNNABLE"],
                      priority |-> [t.priority EXCEPT ![p] = t.priority[p]],
                      q        |-> rq_add(t.q, cpu[p], p, t.priority[p])]
  BY DEF Awaken
<1>3. [t.priority EXCEPT ![p] = t.priority[p]] = t.priority
  BY <1>1
<1> QED BY <1>2, <1>3, SleeperQueued

LEMMA RouseKeeps ==
  ASSUME NEW t, TableGood(t), NEW p \in Procs
  PROVE  /\ TableGood(Rouse(t, p))
         /\ Rouse(t, p).priority = t.priority
         /\ \A x \in Procs : Rouse(t, p).state[x] =
              IF x = p /\ t.state[p] = "SLEEPING" THEN "RUNNABLE" ELSE t.state[x]
<1>1. t \in [state : [Procs -> ProcStates], priority : [Procs -> Prios], q : Queues]
  BY DEF TableGood
<1>2. CASE t.state[p] = "SLEEPING"
  <2>1. Rouse(t, p) = [state    |-> [t.state EXCEPT ![p] = "RUNNABLE"],
                       priority |-> t.priority,
                       q        |-> rq_add(t.q, cpu[p], p, t.priority[p])]
    BY <1>1, <1>2 DEF Rouse
  <2> QED BY <1>1, <1>2, <2>1, SleeperQueued
<1>3. CASE t.state[p] # "SLEEPING"
  BY <1>3 DEF Rouse
<1> QED BY <1>2, <1>3

LEMMA RequeueKeeps ==
  ASSUME NEW t, TableGood(t), NEW p \in Procs, NEW k \in Prios
  PROVE  /\ TableGood(Requeue(t, p, k))
         /\ Requeue(t, p, k).state = t.state
         /\ Requeue(t, p, k).priority = [t.priority EXCEPT ![p] = k]
<1> DEFINE w == Places(t.state, t.priority)
           pr == [t.priority EXCEPT ![p] = k]
           u == IF t.state[p] = "RUNNABLE"
                THEN rq_add(rq_remove(t.q, cpu[p], p, t.priority[p]), cpu[p], p, k) ELSE t.q
           r == [state |-> t.state, priority |-> pr, q |-> u]
<1>1. /\ t \in [state : [Procs -> ProcStates], priority : [Procs -> Prios], q : Queues]
      /\ t.state \in [Procs -> ProcStates] /\ t.priority \in [Procs -> Prios]
      /\ \A x \in Procs : t.state[x] \notin {"UNUSED", "EMBRYO"} => cpu[x] \in CPUs
      /\ ListsHold(t.q, w) /\ t.q \in Queues
  BY DEF TableGood
<1>2. Requeue(t, p, k) = r
  <2>1. CASE t.state[p] = "RUNNABLE"
    <3>1. Requeue(t, p, k) =
            [t EXCEPT !.priority[p] = k,
                      !.q = rq_add(rq_remove(t.q, cpu[p], p, t.priority[p]), cpu[p], p, k)]
      BY <1>1, <2>1 DEF Requeue
    <3> QED BY <1>1, <2>1, <3>1
  <2>2. CASE t.state[p] # "RUNNABLE"
    <3>1. Requeue(t, p, k) = [t EXCEPT !.priority[p] = k, !.q = t.q]
      BY <1>1, <2>2 DEF Requeue
    <3> QED BY <1>1, <2>2, <3>1
  <2> QED BY <2>1, <2>2
<1>3. ListsHold(u, Places(t.state, pr))
  <2>1. CASE t.state[p] = "RUNNABLE"
    <3>1. /\ w \in [Procs -> AllPlaces] /\ w[p] = <<cpu[p], t.priority[p]>>
          /\ cpu[p] \in CPUs /\ t.priority[p] \in Prios
      BY <1>1, <2>1, PlaceFacts
    <3>2. [w EXCEPT ![p] = <<cpu[p], k>>] = Places(t.state, pr)
      BY <1>1, <2>1 DEF Places
    <3> HIDE DEF w
    <3>3. ListsHold(rq_add(rq_remove(t.q, cpu[p], p, t.priority[p]), cpu[p], p, k),
                    [w EXCEPT ![p] = <<cpu[p], k>>])
      BY <1>1, <3>1, MoveKeepsLists
    <3> QED BY <2>1, <3>2, <3>3
  <2>2. CASE t.state[p] # "RUNNABLE"
    <3>1. Places(t.state, pr) = w
      BY <1>1, <2>2 DEF Places
    <3> QED BY <1>1, <2>2, <3>1
  <2> QED BY <2>1, <2>2
<1>4. u \in Queues /\ pr \in [Procs -> Prios]
  BY <1>1, <1>3 DEF ListsHold
<1> HIDE DEF u, pr
<1>5. r \in [state : [Procs -> ProcStates], priority : [Procs -> Prios], q : Queues]
  BY <1>1, <1>4
<1> QED BY <1>1, <1>2, <1>3, <1>5 DEF TableGood, pr

WakesOn(t, x, ch) == t.state[x] = "SLEEPING" /\ chan[x] = ch
LiftedTo(k) == IF k > 0 /\ k # SHORT THEN 0 ELSE k

\* The states and priorities after the slots up to i have been visited.
WokenUpTo(s, t, i, ch) ==
  /\ s.state \in [Procs -> ProcStates] /\ s.priority \in [Procs -> Prios]
  /\ \A x \in Procs :
       /\ s.state[x] = IF x <= i /\ WakesOn(t, x, ch) THEN "RUNNABLE" ELSE t.state[x]
       /\ s.priority[x] = IF x <= i /\ WakesOn(t, x, ch) THEN LiftedTo(t.priority[x])
                          ELSE t.priority[x]

\* One visit of wakeup1().
LEMMA WakeVisitMoves ==
  ASSUME NEW t, NEW ch, NEW s, NEW i \in Procs, WokenUpTo(s, t, i - 1, ch)
  PROVE  WokenUpTo(WakeVisit(s, i, ch), t, i, ch)
<1> DEFINE v == WakeVisit(s, i, ch)
<1>1. \A x \in Procs : x <= i <=> x <= i - 1 \/ x = i
  BY Basics
<1>2. ~ (i <= i - 1)
  BY Basics
<1>3. CASE WakesOn(t, i, ch)
  <2>1. v = Awaken(s, i)
    BY <1>2, <1>3 DEF WakeVisit, WokenUpTo, WakesOn
  <2>2. s.priority[i] \in Prios /\ LiftedTo(s.priority[i]) \in Prios
    BY Basics DEF WokenUpTo, LiftedTo
  <2>3. /\ v.state = [s.state EXCEPT ![i] = "RUNNABLE"]
        /\ v.priority = [s.priority EXCEPT ![i] = LiftedTo(s.priority[i])]
    BY <2>1 DEF Awaken, LiftedTo
  <2> HIDE DEF v
  <2>4. v.state \in [Procs -> ProcStates] /\ v.priority \in [Procs -> Prios]
    BY <2>2, <2>3 DEF WokenUpTo, ProcStates
  <2>5. \A x \in Procs : /\ v.state[x] = IF x = i THEN "RUNNABLE" ELSE s.state[x]
                         /\ v.priority[x] = IF x = i THEN LiftedTo(s.priority[x]) ELSE s.priority[x]
    BY <2>3 DEF WokenUpTo
  <2>6. s.priority[i] = t.priority[i]
    BY <1>2 DEF WokenUpTo
  <2> QED BY <1>1, <1>2, <1>3, <2>4, <2>5, <2>6 DEF WokenUpTo, v
<1>4. CASE ~ WakesOn(t, i, ch)
  <2>1. v = s
    BY <1>2, <1>4 DEF WakeVisit, WokenUpTo, WakesOn
  <2> HIDE DEF v
  <2> QED BY <1>1, <1>4, <2>1 DEF WokenUpTo, v
<1> QED BY <1>3, <1>4

\* What wakeup1() makes of states and priorities: a sleeper with a priority of a list other
\* than the first and the short-lived one is lifted.
LEMMA WakeEffect ==
  ASSUME NEW t, NEW ch, t.state \in [Procs -> ProcStates], t.priority \in [Procs -> Prios]
  PROVE  WokenUpTo(wakeup1(t, ch), t, NPROC, ch)
<1>1. PICK f : /\ f = [i \in 0 .. NPROC |-> IF i = 0 THEN t ELSE WakeVisit(f[i - 1], i, ch)]
               /\ wakeup1(t, ch) = f[NPROC]
  BY WakeScan
<1> DEFINE Bad == {i \in 0 .. NPROC : ~ WokenUpTo(f[i], t, i, ch)}
<1>2. NPROC \in Nat
  BY PrioSizesAssumption
<1>3. Bad = {}
  <2> SUFFICES ASSUME Bad # {} PROVE FALSE
    OBVIOUS
  <2>1. PICK m \in Bad : \A i \in Bad : m <= i
    <3>1. Bad \in SUBSET Nat
      BY <1>2
    <3> HIDE DEF Bad
    <3> QED BY <3>1, FirstIsMember
  <2>2. CASE m = 0
    <3>1. f[0] = t
      BY <1>1, <1>2
    <3>2. \A x \in Procs : ~ (x <= 0)
      BY DEF Procs
    <3> HIDE DEF Bad
    <3>3. WokenUpTo(t, t, 0, ch)
      BY <3>2 DEF WokenUpTo
    <3> QED BY <2>1, <2>2, <3>1, <3>3 DEF Bad
  <2>3. CASE m # 0
    <3>1. /\ m - 1 \in 0 .. NPROC /\ m - 1 \notin Bad /\ m \in Procs
      BY <1>2, <2>1, <2>3 DEF Procs
    <3>2. WokenUpTo(f[m - 1], t, m - 1, ch)
      BY <3>1
    <3>3. f[m] = WakeVisit(f[m - 1], m, ch)
      BY <1>1, <2>1, <2>3
    <3> QED BY <2>1, <3>1, <3>2, <3>3, WakeVisitMoves
  <2> QED BY <2>2, <2>3
<1>4. WokenUpTo(f[NPROC], t, NPROC, ch)
  <2>1. NPROC \in 0 .. NPROC
    BY <1>2
  <2> QED BY <1>3, <2>1
<1> QED BY <1>1, <1>4

\* Where nobody is lifted, wakeup1() keeps the lists right and the priorities as they are.
LEMMA WakeKeeps ==
  ASSUME NEW t, TableGood(t), NEW ch,
         \A x \in Procs : WakesOn(t, x, ch) => LiftedTo(t.priority[x]) = t.priority[x]
  PROVE  /\ TableGood(wakeup1(t, ch))
         /\ wakeup1(t, ch).priority = t.priority
         /\ \A x \in Procs : wakeup1(t, ch).state[x] =
              IF WakesOn(t, x, ch) THEN "RUNNABLE" ELSE t.state[x]
<1>1. PICK f : /\ f = [i \in 0 .. NPROC |-> IF i = 0 THEN t ELSE WakeVisit(f[i - 1], i, ch)]
               /\ wakeup1(t, ch) = f[NPROC]
  BY WakeScan
<1> DEFINE Fine(s, i) == TableGood(s) /\ WokenUpTo(s, t, i, ch)
           Bad == {i \in 0 .. NPROC : ~ Fine(f[i], i)}
<1>2. NPROC \in Nat
  BY PrioSizesAssumption
<1>3. t.state \in [Procs -> ProcStates] /\ t.priority \in [Procs -> Prios]
  BY DEF TableGood
<1>4. Bad = {}
  <2> SUFFICES ASSUME Bad # {} PROVE FALSE
    OBVIOUS
  <2>1. PICK m \in Bad : \A i \in Bad : m <= i
    <3>1. Bad \in SUBSET Nat
      BY <1>2
    <3> HIDE DEF Bad
    <3> QED BY <3>1, FirstIsMember
  <2>2. CASE m = 0
    <3>1. f[0] = t
      BY <1>1, <1>2
    <3>2. \A x \in Procs : ~ (x <= 0)
      BY DEF Procs
    <3>3. WokenUpTo(f[0], t, 0, ch)
      BY <1>3, <3>1, <3>2 DEF WokenUpTo
    <3> QED BY <2>1, <2>2, <3>1, <3>3
  <2>3. CASE m # 0
    <3>1. /\ m - 1 \in 0 .. NPROC /\ m - 1 \notin Bad /\ m \in Procs
      BY <1>2, <2>1, <2>3 DEF Procs
    <3> DEFINE s == f[m - 1]
    <3>2. TableGood(s) /\ WokenUpTo(s, t, m - 1, ch)
      BY <3>1
    <3>3. f[m] = WakeVisit(s, m, ch)
      BY <1>1, <2>1, <2>3
    <3> HIDE DEF s
    <3>4. WokenUpTo(f[m], t, m, ch)
      BY <3>1, <3>2, <3>3, WakeVisitMoves
    <3>5. TableGood(f[m])
      <4>1. CASE s.state[m] = "SLEEPING" /\ chan[m] = ch
        <5>1. ~ (m <= m - 1)
          BY <3>1, Basics
        <5>2. WakesOn(t, m, ch) /\ s.priority[m] = t.priority[m] /\ t.priority[m] \in Nat
          BY <1>3, <3>1, <3>2, <4>1, <5>1 DEF WokenUpTo, WakesOn, Prios
        <5>3. s.priority[m] = 0 \/ s.priority[m] = SHORT
          BY <3>1, <5>2 DEF LiftedTo
        <5>4. f[m] = Awaken(s, m)
          BY <3>3, <4>1 DEF WakeVisit
        <5>5. TableGood(Awaken(s, m))
          BY <3>1, <3>2, <4>1, <5>3, AwakenKeeps
        <5> QED BY <5>4, <5>5
      <4>2. CASE ~ (s.state[m] = "SLEEPING" /\ chan[m] = ch)
        BY <3>2, <3>3, <4>2 DEF WakeVisit
      <4> QED BY <4>1, <4>2
    <3> QED BY <2>1, <3>4, <3>5
  <2> QED BY <2>2, <2>3
<1>5. TableGood(wakeup1(t, ch)) /\ WokenUpTo(wakeup1(t, ch), t, NPROC, ch)
  <2>1. NPROC \in 0 .. NPROC
    BY <1>2
  <2>2. Fine(f[NPROC], NPROC)
    BY <1>4, <2>1
  <2> QED BY <1>1, <2>2
<1>6. \A x \in Procs : x <= NPROC
  BY DEF Procs
<1> DEFINE r == wakeup1(t, ch)
<1> HIDE DEF r
<1>7. \A x \in Procs : r.priority[x] = t.priority[x]
  BY <1>5 DEF WokenUpTo, r
<1>8. r.priority = t.priority
  BY <1>3, <1>5, <1>7 DEF WokenUpTo, r
<1>9. \A x \in Procs : r.state[x] = IF WakesOn(t, x, ch) THEN "RUNNABLE" ELSE t.state[x]
  BY <1>5, <1>6 DEF WokenUpTo, r
<1> QED BY <1>5, <1>8, <1>9 DEF r

\* The tables between two visits of update_priorities() exist, too.
LEMMA UpdateScan ==
  ASSUME NEW t
  PROVE  \E f : /\ f = [i \in 0 .. NPROC |-> IF i = 0 THEN t ELSE UpdatePriority(f[i - 1], i)]
                /\ Scan(UpdatePriority, t) = f[NPROC]
<1> DEFINE Upto(f, n) == f = [i \in 0 .. n |-> IF i = 0 THEN t ELSE UpdatePriority(f[i - 1], i)]
           Bad == {n \in 0 .. NPROC : ~ \E f : Upto(f, n)}
<1>1. NPROC \in Nat
  BY PrioSizesAssumption
<1>2. Bad = {}
  <2> SUFFICES ASSUME Bad # {} PROVE FALSE
    OBVIOUS
  <2>1. PICK m \in Bad : \A i \in Bad : m <= i
    <3>1. Bad \in SUBSET Nat
      BY <1>1
    <3> HIDE DEF Bad
    <3> QED BY <3>1, FirstIsMember
  <2>2. CASE m = 0
    <3> DEFINE f == [i \in 0 .. 0 |-> t]
    <3>1. Upto(f, 0)
      OBVIOUS
    <3> QED BY <2>1, <2>2, <3>1
  <2>3. CASE m # 0
    <3>1. m - 1 \in 0 .. NPROC /\ m - 1 \notin Bad /\ m \in Nat
      BY <1>1, <2>1, <2>3
    <3>2. PICK g : Upto(g, m - 1)
      BY <3>1
    <3> DEFINE f == [i \in 0 .. m |-> IF i = m THEN UpdatePriority(g[m - 1], m) ELSE g[i]]
               h == [i \in 0 .. m |-> IF i = 0 THEN t ELSE UpdatePriority(f[i - 1], i)]
    <3>3. ASSUME NEW i \in 0 .. m PROVE f[i] = h[i]
      <4>1. CASE i = 0
        BY <2>3, <3>1, <3>2, <4>1
      <4>2. CASE i = m
        BY <2>3, <3>1, <4>2
      <4>3. CASE i # 0 /\ i # m
        <5>1. i \in 0 .. m - 1 /\ f[i] = g[i] /\ i - 1 \in 0 .. m /\ f[i - 1] = g[i - 1]
          BY <3>1, <4>3
        <5>2. g[i] = UpdatePriority(g[i - 1], i)
          BY <3>2, <4>3, <5>1
        <5>3. h[i] = UpdatePriority(f[i - 1], i)
          BY <4>3
        <5> HIDE DEF f, h
        <5> QED BY <5>1, <5>2, <5>3
      <4> QED BY <4>1, <4>2, <4>3
    <3>4. f = h
      BY <3>3
    <3>5. Upto(f, m)
      BY <3>4
    <3> QED BY <2>1, <3>5
  <2> QED BY <2>2, <2>3
<1>3. Scan(UpdatePriority, t) = (CHOOSE f : Upto(f, NPROC))[NPROC]
  BY DEF Scan
<1>4. \E f : Upto(f, NPROC)
  <2>1. NPROC \in 0 .. NPROC
    BY <1>1
  <2> QED BY <1>2, <2>1
<1> DEFINE f == CHOOSE f : Upto(f, NPROC)
<1>5. Upto(f, NPROC)
  <2> HIDE DEF Upto
  <2> QED BY <1>4
<1> QED BY <1>3, <1>5

\* One visit of update_priorities(): a sleeper that is too old wakes, nobody else changes state.
LEMMA UpdateVisitKeeps ==
  ASSUME NEW t, TableGood(t), NEW p \in Procs
  PROVE  /\ TableGood(UpdatePriority(t, p))
         /\ \A x \in Procs : UpdatePriority(t, p).state[x] =
              IF x = p /\ TooOld(p) /\ t.state[p] = "SLEEPING" THEN "RUNNABLE" ELSE t.state[x]
<1>1. CASE TooOld(p)
  BY <1>1, RouseKeeps DEF UpdatePriority
<1>2. CASE ~ TooOld(p)
  <2> DEFINE reset == IF Waits(p) /\ pid[p] > HIGH_PID /\ t.priority[p] # SHORT
                      THEN Requeue(t, p, SHORT) ELSE t
  <2>1. TableGood(reset) /\ reset.state = t.state
    BY Basics, RequeueKeeps
  <2>2. UpdatePriority(t, p) =
          IF Ages(p) /\ pid[p] <= HIGH_PID /\ reset.priority[p] > 0
          THEN Requeue(reset, p, reset.priority[p] - 1) ELSE reset
    BY <1>2 DEF UpdatePriority
  <2> HIDE DEF reset
  <2>3. CASE Ages(p) /\ pid[p] <= HIGH_PID /\ reset.priority[p] > 0
    <3>1. reset.priority[p] - 1 \in Prios
      <4>1. reset.priority[p] \in Prios
        BY <2>1 DEF TableGood
      <4> QED BY <2>3, <4>1, PrioSizesAssumption DEF Prios
    <3>2. /\ TableGood(Requeue(reset, p, reset.priority[p] - 1))
          /\ Requeue(reset, p, reset.priority[p] - 1).state = reset.state
      BY <2>1, <3>1, RequeueKeeps
    <3> QED BY <1>2, <2>1, <2>2, <2>3, <3>2
  <2>4. CASE ~ (Ages(p) /\ pid[p] <= HIGH_PID /\ reset.priority[p] > 0)
    BY <1>2, <2>1, <2>2, <2>4
  <2> QED BY <2>3, <2>4
<1> QED BY <1>1, <1>2

\* update_priorities() keeps the lists right, though it moves processes while it scans.
LEMMA UpdateKeeps ==
  ASSUME NEW t, TableGood(t)
  PROVE  LET r == Scan(UpdatePriority, t) IN
         /\ TableGood(r)
         /\ \A x \in Procs : r.state[x] =
              IF TooOld(x) /\ t.state[x] = "SLEEPING" THEN "RUNNABLE" ELSE t.state[x]
<1>1. PICK f : /\ f = [i \in 0 .. NPROC |-> IF i = 0 THEN t ELSE UpdatePriority(f[i - 1], i)]
               /\ Scan(UpdatePriority, t) = f[NPROC]
  BY UpdateScan
<1> DEFINE Fine(s, i) ==
             /\ TableGood(s)
             /\ \A x \in Procs :
                  s.state[x] = IF x <= i /\ TooOld(x) /\ t.state[x] = "SLEEPING" THEN "RUNNABLE"
                               ELSE t.state[x]
           Bad == {i \in 0 .. NPROC : ~ Fine(f[i], i)}
<1>2. NPROC \in Nat
  BY PrioSizesAssumption
<1>3. Bad = {}
  <2> SUFFICES ASSUME Bad # {} PROVE FALSE
    OBVIOUS
  <2>1. PICK m \in Bad : \A i \in Bad : m <= i
    <3>1. Bad \in SUBSET Nat
      BY <1>2
    <3> HIDE DEF Bad
    <3> QED BY <3>1, FirstIsMember
  <2>2. CASE m = 0
    <3>1. f[0] = t
      BY <1>1, <1>2
    <3>2. \A x \in Procs : ~ (x <= 0)
      BY DEF Procs
    <3>3. Fine(t, 0)
      BY <3>2
    <3> HIDE DEF Fine
    <3> QED BY <2>1, <2>2, <3>1, <3>3
  <2>3. CASE m # 0
    <3>1. m - 1 \in 0 .. NPROC /\ m - 1 \notin Bad /\ m \in Procs
      BY <1>2, <2>1, <2>3 DEF Procs
    <3> DEFINE s == f[m - 1]
    <3>2. Fine(s, m - 1)
      <4> HIDE DEF Fine
      <4> QED BY <3>1
    <3>3. f[m] = UpdatePriority(s, m)
      BY <1>1, <2>1, <2>3
    <3>4. \A x \in Procs : x <= m <=> x <= m - 1 \/ x = m
      BY <3>1, Basics
    <3>5. ~ (m <= m - 1)
      BY <3>1, Basics
    <3> HIDE DEF s
    <3>6. /\ TableGood(UpdatePriority(s, m))
          /\ \A x \in Procs : UpdatePriority(s, m).state[x] =
               IF x = m /\ TooOld(m) /\ s.state[m] = "SLEEPING" THEN "RUNNABLE" ELSE s.state[x]
      BY <3>1, <3>2, UpdateVisitKeeps
    <3>7. Fine(UpdatePriority(s, m), m)
      BY <3>1, <3>2, <3>4, <3>5, <3>6
    <3> HIDE DEF Fine
    <3> QED BY <2>1, <3>3, <3>7
  <2> QED BY <2>2, <2>3
<1> DEFINE r == Scan(UpdatePriority, t)
<1>4. Fine(r, NPROC)
  <2>1. NPROC \in 0 .. NPROC
    BY <1>2
  <2> HIDE DEF Fine
  <2> QED BY <1>1, <1>3, <2>1
<1>5. \A x \in Procs : x <= NPROC
  BY DEF Procs
<1> HIDE DEF r
<1>6. TableGood(r)
  BY <1>4
<1>7. \A x \in Procs : r.state[x] =
        IF TooOld(x) /\ t.state[x] = "SLEEPING" THEN "RUNNABLE" ELSE t.state[x]
  BY <1>4, <1>5
<1> QED BY <1>6, <1>7 DEF r

-------------------------------------------------------------------------------
(* Facts that several actions need. *)

\* A scan of the table that finds a slot returns one of those it looks for.
LEMMA ScanFinds ==
  ASSUME NEW S \in SUBSET Procs, S # {}
  PROVE  Min(S) \in S /\ Min(S) \in Procs
<1>1. S \in SUBSET Nat
  BY Basics
<1> QED BY <1>1, FirstIsMember

\* The process table of the kernel is one that scans keep right.
LEMMA TableIsGood ==
  ASSUME IInv
  PROVE  /\ TableGood(Table)
         /\ Table.state = state /\ Table.priority = priority /\ Table.q = q
<1>1. /\ state \in [Procs -> ProcStates] /\ priority \in [Procs -> Prios] /\ q \in Queues
      /\ IsAssigned /\ ListsHold(q, Places(state, priority))
  BY DEF IInv, TypeOK
<1>2. Table.state = state /\ Table.priority = priority /\ Table.q = q
  BY DEF Table
<1>3. Table \in [state : [Procs -> ProcStates], priority : [Procs -> Prios], q : Queues]
  BY <1>1 DEF Table
<1> QED BY <1>1, <1>2, <1>3 DEF TableGood, IsAssigned

\* What the table, the lists and the CPU numbers owe each other.
ListsCorrect ==
  /\ state \in [Procs -> ProcStates] /\ priority \in [Procs -> Prios] /\ q \in Queues
  /\ IsAssigned
  /\ ListsHold(q, Places(state, priority))

\* A scan leaves its table behind.
LEMMA Installed ==
  ASSUME NEW t, TableGood(t), Install(t), cpu' = cpu
  PROVE  ListsCorrect'
<1>1. state' = t.state /\ priority' = t.priority /\ q' = t.q
  BY DEF Install
<1>2. /\ t.state \in [Procs -> ProcStates] /\ t.priority \in [Procs -> Prios] /\ t.q \in Queues
      /\ \A p \in Procs : t.state[p] \notin {"UNUSED", "EMBRYO"} => cpu[p] \in CPUs
      /\ ListsHold(t.q, Places(t.state, t.priority))
  BY DEF TableGood
<1>3. Places(state, priority)' = Places(t.state, t.priority)
  BY <1>1 DEF Places
<1>4. ListsHold(q', Places(state, priority)')
  BY <1>1, <1>2, <1>3
<1>5. IsAssigned'
  BY <1>1, <1>2 DEF IsAssigned
<1> QED BY <1>1, <1>2, <1>4, <1>5 DEF ListsCorrect

\* Who does not become or stop being RUNNABLE stays where he is.
LEMMA ListsUntouched ==
  ASSUME IInv, q' = q, priority' = priority, state' \in [Procs -> ProcStates],
         \A p \in Procs : state'[p] = "RUNNABLE" <=> state[p] = "RUNNABLE",
         \A p \in Procs : state'[p] \notin {"UNUSED", "EMBRYO"} => cpu'[p] \in CPUs,
         \A p \in Procs : state[p] = "RUNNABLE" => cpu'[p] = cpu[p]
  PROVE  ListsCorrect'
<1>1. priority \in [Procs -> Prios] /\ q \in Queues /\ ListsHold(q, Places(state, priority))
  BY DEF IInv, TypeOK
<1>2. Places(state, priority)' = Places(state, priority)
  BY DEF Places
<1>3. ListsHold(q', Places(state, priority)')
  BY <1>1, <1>2
<1>4. IsAssigned'
  BY DEF IsAssigned
<1> QED BY <1>1, <1>3, <1>4 DEF ListsCorrect

\* The current process of a CPU is RUNNING there and nowhere else, and on no list.
LEMMA CurrentProcess ==
  ASSUME IInv, NEW c \in CPUs, spc[c] = "busy"
  PROVE  /\ proc[c] \in Procs /\ proc[c] # NULL
         /\ state[proc[c]] = "RUNNING" /\ cpu[proc[c]] = c
         /\ \A d \in CPUs : proc[d] = proc[c] => d = c
<1>1. proc \in [CPUs -> Procs \cup {NULL}] /\ proc[c] # NULL
  <2>1. proc \in [CPUs -> Procs \cup {NULL}]
    BY DEF IInv, TypeOK
  <2>2. proc[c] # NULL
    BY DEF IInv, RunsOnce
  <2> QED BY <2>1, <2>2
<1> QED BY <1>1 DEF IInv, RunsOnce

\* A ZOMBIE that wait() finds is a child of the process that waits.
LEMMA ReapedIsChild ==
  ASSUME NEW p, Zombies(p) # {}
  PROVE  /\ Min(Zombies(p)) \in Procs
         /\ state[Min(Zombies(p))] = "ZOMBIE"
         /\ parent[Min(Zombies(p))] = p
<1>1. Zombies(p) \in SUBSET Procs
  BY DEF Zombies, Children
<1>2. Min(Zombies(p)) \in Zombies(p)
  BY <1>1, ScanFinds
<1> QED BY <1>2 DEF Zombies, Children

-------------------------------------------------------------------------------
(* What keeps each conjunct of the invariant. *)

\* Nobody changes CPUs; ptable_lock is released or stays with a process inside wait().
LEMMA CpusKept ==
  ASSUME IInv, UNCHANGED <<proc, spc>>,
         \A p \in Procs : state'[p] = "RUNNING" <=> state[p] = "RUNNING",
         \A p \in Procs : state[p] = "RUNNING" => cpu'[p] = cpu[p],
         \/ waiter' = NoCpu
         \/ /\ waiter' = waiter
            /\ \A p \in Procs : kpc[p] = "wait" => kpc'[p] = "wait"
  PROVE  RunsOnce'
<1>1. \A c \in CPUs : proc[c] # NULL => proc[c] \in Procs /\ state[proc[c]] = "RUNNING"
  <2>1. proc \in [CPUs -> Procs \cup {NULL}]
    BY DEF IInv, TypeOK
  <2> QED BY <2>1 DEF IInv, RunsOnce
<1>2. \A c \in CPUs : proc'[c] # NULL => cpu'[proc'[c]] = c
  BY <1>1 DEF IInv, RunsOnce
<1>3. \A c \in CPUs : waiter' = c => At(c, "wait")'
  <2>1. \A c \in CPUs : c # NoCpu
    BY Basics
  <2>2. \A c \in CPUs : waiter = c => proc[c] \in Procs /\ At(c, "wait")
    BY CurrentProcess DEF IInv, RunsOnce, At
  <2> QED BY <2>1, <2>2 DEF At
<1> QED BY <1>2, <1>3 DEF IInv, RunsOnce

\* The current process leaves its CPU.
LEMMA CpuLeft ==
  ASSUME IInv, NEW c \in CPUs, spc[c] = "busy", SwitchToScheduler(c), cpu' = cpu,
         \A p \in Procs : state'[p] = "RUNNING" <=> state[p] = "RUNNING" /\ p # proc[c]
  PROVE  RunsOnce'
<1>1. /\ waiter' = NoCpu
      /\ \A d \in CPUs : /\ proc'[d] = IF d = c THEN NULL ELSE proc[d]
                         /\ spc'[d] = IF d = c THEN "top" ELSE spc[d]
  BY DEF SwitchToScheduler, IInv, TypeOK
<1>2. /\ proc[c] \in Procs
      /\ \A d \in CPUs : proc[d] = proc[c] => d = c
  BY CurrentProcess
<1>3. ASSUME NEW p \in Procs PROVE state'[p] = "RUNNING" <=> \E d \in CPUs : proc'[d] = p
  <2>1. CASE p = proc[c]
    BY <1>1, <1>2, <2>1, Basics
  <2>2. CASE p # proc[c]
    <3>1. \A d \in CPUs : proc'[d] = p <=> proc[d] = p
      BY <1>1, <2>2, Basics
    <3> QED BY <2>2, <3>1 DEF IInv, RunsOnce
  <2> QED BY <2>1, <2>2
<1>4. \A d \in CPUs : waiter' = d => At(d, "wait")'
  BY <1>1, Basics
<1> QED BY <1>1, <1>3, <1>4 DEF IInv, RunsOnce

LEMMA ForkKept ==
  ASSUME IInv,
         \A p \in Procs : kpc'[p] \in {"forkcopy", "forkadd"} =>
            /\ kpc'[p] = kpc[p] /\ child'[p] = child[p]
            /\ state'[child[p]] = "EMBRYO"
            /\ parent'[child[p]] = parent[child[p]],
         \A p \in Procs : state'[p] = "UNUSED" => parent'[p] = NULL
  PROVE  ForkOwnsChild'
BY DEF IInv, ForkOwnsChild

LEMMA WaitersKept ==
  ASSUME IInv,
         \A p \in Procs : state'[p] = "SLEEPING" /\ kpc'[p] = "wait" =>
            /\ state[p] = "SLEEPING" /\ kpc[p] = "wait" /\ chan'[p] = chan[p]
            /\ \A r \in Procs : parent'[r] = p <=> parent[r] = p,
         \A p \in Procs : state'[p] = "ZOMBIE" => state[p] = "ZOMBIE"
  PROVE  WaitersAreTold'
<1> SUFFICES ASSUME NEW p \in Procs, state'[p] = "SLEEPING", kpc'[p] = "wait"
             PROVE  chan'[p] = p /\ Children(p)' # {} /\ Zombies(p)' = {}
  BY DEF WaitersAreTold
<1>1. chan[p] = p /\ Children(p) # {} /\ Zombies(p) = {}
  BY DEF IInv, WaitersAreTold
<1>2. Children(p)' = Children(p)
  BY DEF Children
<1>3. Zombies(p)' \subseteq Zombies(p)
  BY <1>2 DEF Zombies, Children
<1> QED BY <1>1, <1>2, <1>3

LEMMA InitKept ==
  ASSUME IInv, parent' = parent, state'[InitProc] \in {"RUNNABLE", "RUNNING", "SLEEPING"}
  PROVE  InitIsAlive'
BY Basics DEF IInv, InitIsAlive, Live

-------------------------------------------------------------------------------
(* One lemma per action, or for several that do the same to the invariant. *)

\* userinit() has put the first process on the short-lived list of CPU 0.
LEMMA InitInv == Init => IInv
<1> SUFFICES ASSUME Init PROVE IInv
  OBVIOUS
<1>1. ListsHold(q, Places(state, priority))
  <2> DEFINE w == [p \in Procs |-> Nowhere]
  <2>1. w \in [Procs -> AllPlaces]
    BY DEF AllPlaces
  <2>2. /\ \A c \in CPUs : Counted(w, c) = {}
        /\ \A c \in CPUs, k \in Prios : Listed(w, c, k) = {}
    BY Basics DEF Counted, Listed, Nowhere
  <2>3. rq_init \in Queues /\ rq_init.fault = "none"
    BY DEF rq_init, Queues, QueueFaults
  <2>4. /\ \A c \in CPUs : rq_init.count[c] = 0
        /\ \A c \in CPUs, k \in Prios : rq_init.head[c][k] = NULL /\ rq_init.tail[c][k] = NULL
    BY DEF rq_init
  <2>5. Cardinality({}) = 0
    BY FS_EmptySet
  <2> HIDE DEF w
  <2>6. ASSUME NEW c \in CPUs, NEW k \in Prios PROVE HoldsList(rq_init, w, c, k)
    <3>1. 0 \in 0 .. NPROC /\ 1 .. 0 = {}
      BY PrioSizesAssumption
    <3> DEFINE s == [i \in 1 .. 0 |-> 0]
    <3>2. s \in [1 .. 0 -> Listed(w, c, k)]
      BY <3>1
    <3>3. IsList(rq_init, c, k, 0, s)
      BY <2>4, <3>1 DEF IsList
    <3>4. 0 = Cardinality(Listed(w, c, k)) /\ \A p \in Listed(w, c, k) : \E i \in 1 .. 0 : s[i] = p
      BY <2>2, <2>5
    <3> HIDE DEF s
    <3> QED BY <3>1, <3>2, <3>3, <3>4 DEF HoldsList
  <2>7. ListsHold(rq_init, w)
    BY <2>2, <2>3, <2>4, <2>5, <2>6 DEF ListsHold
  <2>8. w[InitProc] = Nowhere
    BY Basics DEF w
  <2>9. ListsHold(rq_add(rq_init, 0, InitProc, SHORT), [w EXCEPT ![InitProc] = <<0, SHORT>>])
    BY <2>1, <2>7, <2>8, Basics, AddKeepsLists
  <2>10. Places(state, priority) = [w EXCEPT ![InitProc] = <<0, SHORT>>]
    BY DEF Init, Places, w
  <2> QED BY <2>9, <2>10 DEF Init
<1>2. TypeOK
  <2>1. /\ state \in [Procs -> ProcStates] /\ pid \in [Procs -> Nat]
        /\ parent \in [Procs -> Procs \cup {NULL}] /\ killed \in [Procs -> BOOLEAN]
        /\ chan \in [Procs -> {NULL} \cup Procs \cup Chans]
        /\ priority \in [Procs -> Prios] /\ old \in [Procs -> BOOLEAN]
    BY Basics DEF Init, ProcStates
  <2>2. /\ wait_ticks \in [Procs -> 0 .. AGE - 1] /\ cpu \in [Procs -> CPUs \cup {NoCpu}]
        /\ nextpid \in Nat
    BY Basics, PrioSchedAssumption DEF Init
  <2>3. /\ kpc \in [Procs -> KernelPoints] /\ child \in [Procs -> Procs \cup {NULL}]
        /\ proc \in [CPUs -> Procs \cup {NULL}] /\ spc \in [CPUs -> SchedPoints]
        /\ waiter \in CPUs \cup {NoCpu} /\ panicked \in Panics
    BY DEF Init, KernelPoints, SchedPoints, Panics
  <2>4. q \in Queues
    BY <1>1 DEF ListsHold
  <2> QED BY <2>1, <2>2, <2>3, <2>4 DEF TypeOK
<1>3. RunsOnce /\ IsAssigned
  BY Basics DEF Init, RunsOnce, IsAssigned
<1>4. DeadStayDead /\ ForkOwnsChild /\ WaitersAreTold
  BY DEF Init, DeadStayDead, ForkOwnsChild, WaitersAreTold
<1>5. InitIsAlive
  BY Basics DEF Init, InitIsAlive, Live
<1> QED BY <1>1, <1>2, <1>3, <1>4, <1>5 DEF IInv

\* The current process only moves on in the kernel, and gives ptable_lock back if it has it.
LEMMA MovePreserves ==
  ASSUME IInv, NEW c \in CPUs, spc[c] = "busy",
         NEW x \in {"user", "sys", "exit"}, Goto(proc[c], x),
         waiter' = NoCpu \/ (waiter' = waiter /\ kpc[proc[c]] # "wait"),
         killed' \in [Procs -> BOOLEAN],
         UNCHANGED <<state, pid, parent, chan, priority, wait_ticks, cpu, old, child, nextpid,
                     q, proc, spc, panicked>>
  PROVE  IInv'
<1> DEFINE p == proc[c]
<1>1. p \in Procs /\ state[p] = "RUNNING"
  BY CurrentProcess
<1>2. \A r \in Procs : kpc'[r] = IF r = p THEN x ELSE kpc[r]
  BY <1>1 DEF Goto, IInv, TypeOK
<1>3. TypeOK'
  <2>1. kpc' \in [Procs -> KernelPoints] /\ waiter' \in CPUs \cup {NoCpu}
    BY <1>1 DEF Goto, IInv, TypeOK, KernelPoints
  <2> QED BY <2>1 DEF IInv, TypeOK
<1> HIDE DEF p
<1>4. ListsCorrect'
  <2>1. state \in [Procs -> ProcStates] /\ IsAssigned
    BY DEF IInv, TypeOK
  <2> QED BY <2>1, ListsUntouched DEF IsAssigned
<1>5. RunsOnce'
  BY <1>2, CpusKept DEF p
<1>6. DeadStayDead'
  BY <1>2 DEF IInv, DeadStayDead
<1>7. ForkOwnsChild'
  BY <1>2, ForkKept DEF IInv, ForkOwnsChild
<1>8. WaitersAreTold'
  BY <1>2, WaitersKept
<1>9. InitIsAlive'
  BY InitKept DEF IInv, InitIsAlive, Live
<1> QED BY <1>3, <1>4, <1>5, <1>6, <1>7, <1>8, <1>9 DEF IInv, ListsCorrect

LEMMA MoveStep ==
  ASSUME IInv, NEW c \in CPUs, Trap(c) \/ sysReturns(c) \/ sys_exit(c) \/ waitFails(c)
  PROVE  IInv'
<1> USE DEF procVars
<1>1. CASE Trap(c)
  <2>1. spc[c] = "busy" /\ kpc[proc[c]] # "wait"
    BY <1>1 DEF Trap, At
  <2>2. proc[c] \in Procs
    BY <2>1, CurrentProcess
  <2>3. PICK x \in {"exit", "sys"} : Goto(proc[c], x)
    BY <1>1 DEF Trap
  <2>4. killed' \in [Procs -> BOOLEAN]
    BY <1>1, <2>2 DEF Trap, IInv, TypeOK
  <2> QED BY <1>1, <2>1, <2>3, <2>4, MovePreserves DEF Trap
<1>2. CASE sysReturns(c) \/ sys_exit(c)
  <2>1. spc[c] = "busy" /\ kpc[proc[c]] # "wait" /\ killed' \in [Procs -> BOOLEAN]
    BY <1>2 DEF sysReturns, sys_exit, At, IInv, TypeOK
  <2> QED BY <1>2, <2>1, MovePreserves DEF sysReturns, sys_exit
<1>3. CASE waitFails(c)
  <2>1. spc[c] = "busy" /\ killed' \in [Procs -> BOOLEAN]
    BY <1>3 DEF waitFails, InWait, At, IInv, TypeOK
  <2> QED BY <1>3, <2>1, MovePreserves DEF waitFails
<1> QED BY <1>1, <1>2, <1>3

LEMMA growOldStep == ASSUME IInv, NEW p \in Procs, growOld(p) PROVE IInv'
<1>1. /\ old' = [old EXCEPT ![p] = TRUE]
      /\ UNCHANGED <<state, pid, parent, killed, chan, priority, wait_ticks, cpu, kpc, child,
                     nextpid, q, proc, spc, waiter, panicked>>
  BY DEF growOld
<1>2. TypeOK'
  BY <1>1 DEF IInv, TypeOK
<1>3. ListsCorrect'
  <2>1. state \in [Procs -> ProcStates] /\ IsAssigned
    BY DEF IInv, TypeOK
  <2> QED BY <1>1, <2>1, ListsUntouched DEF IsAssigned
<1>4. RunsOnce'
  BY <1>1, CpusKept
<1>7. DeadStayDead' /\ ForkOwnsChild'
  BY <1>1 DEF IInv, DeadStayDead, ForkOwnsChild
<1>5. WaitersAreTold'
  BY <1>1, WaitersKept
<1>6. InitIsAlive'
  BY <1>1, InitKept DEF IInv, InitIsAlive, Live
<1> QED BY <1>2, <1>3, <1>4, <1>5, <1>6, <1>7 DEF IInv, ListsCorrect

\* init cannot exit: the kernel stops there.
LEMMA initExitsStep == ASSUME IInv, NEW c \in CPUs, initExits(c) PROVE IInv'
<1>1. /\ panicked' = "init exiting"
      /\ UNCHANGED <<state, pid, parent, killed, chan, priority, wait_ticks, cpu, old, kpc, child,
                     nextpid, q, proc, spc, waiter>>
  BY DEF initExits, procVars
<1>2. TypeOK'
  BY <1>1 DEF IInv, TypeOK, Panics
<1>3. ListsCorrect'
  <2>1. state \in [Procs -> ProcStates] /\ IsAssigned
    BY DEF IInv, TypeOK
  <2> QED BY <1>1, <2>1, ListsUntouched DEF IsAssigned
<1>4. RunsOnce'
  BY <1>1, CpusKept
<1>7. DeadStayDead' /\ ForkOwnsChild'
  BY <1>1 DEF IInv, DeadStayDead, ForkOwnsChild
<1>5. WaitersAreTold'
  BY <1>1, WaitersKept
<1>6. InitIsAlive'
  BY <1>1, InitKept DEF IInv, InitIsAlive, Live
<1> QED BY <1>2, <1>3, <1>4, <1>5, <1>6, <1>7 DEF IInv, ListsCorrect

\* Who was on no list goes to the end of the one where he belongs.
LEMMA ProcessQueued ==
  ASSUME IInv, NEW p \in Procs, state[p] # "RUNNABLE", NEW c \in CPUs,
         state' = [state EXCEPT ![p] = "RUNNABLE"], cpu' = [cpu EXCEPT ![p] = c],
         priority' = priority, q' = rq_add(q, c, p, priority[p])
  PROVE  ListsCorrect'
<1> DEFINE w == Places(state, priority)
<1>1. /\ state \in [Procs -> ProcStates] /\ priority \in [Procs -> Prios]
      /\ cpu \in [Procs -> CPUs \cup {NoCpu}] /\ ListsHold(q, w)
      /\ priority[p] \in Prios
  BY DEF IInv, TypeOK
<1>2. w \in [Procs -> AllPlaces] /\ w[p] = Nowhere
  BY TableIsGood, PlaceFacts
<1>3. Places(state, priority)' = [w EXCEPT ![p] = <<c, priority[p]>>]
  BY <1>1 DEF Places
<1> HIDE DEF w
<1>4. ListsHold(rq_add(q, c, p, priority[p]), [w EXCEPT ![p] = <<c, priority[p]>>])
  BY <1>1, <1>2, AddKeepsLists
<1>5. ListsHold(q', Places(state, priority)')
  BY <1>3, <1>4
<1>6. q' \in Queues
  BY <1>5 DEF ListsHold
<1>7. state' \in [Procs -> ProcStates]
  BY <1>1 DEF ProcStates
<1>8. IsAssigned'
  BY <1>1 DEF IInv, IsAssigned
<1> QED BY <1>1, <1>5, <1>6, <1>7, <1>8 DEF ListsCorrect

\* rq_remove() finds nobody who is not RUNNABLE.
LEMMA NothingRemoved ==
  ASSUME IInv, NEW p \in Procs, state[p] # "RUNNABLE", NEW c \in CPUs, NEW k \in Prios
  PROVE  rq_remove(q, c, p, k) = q
<1> DEFINE w == Places(state, priority)
<1>1. ListsHold(q, w)
  BY DEF IInv
<1>2. w[p] = Nowhere
  BY TableIsGood, PlaceFacts
<1> HIDE DEF w
<1>3. p \notin Listed(w, c, k)
  BY <1>2, Basics DEF Listed, Nowhere
<1> QED BY <1>1, <1>3, RemoveAbsent

\* The current process goes to sleep or back among the RUNNABLE.
LEMMA LeavePreserves ==
  ASSUME IInv, NEW c \in CPUs, spc[c] = "busy", SwitchToScheduler(c),
         NEW to \in {"RUNNABLE", "SLEEPING"}, state' = [state EXCEPT ![proc[c]] = to],
         NEW x \in KernelPoints, Goto(proc[c], x),
         x \in {"forkcopy", "forkadd", "zombie"} => x = kpc[proc[c]],
         chan' \in [Procs -> {NULL} \cup Procs \cup Chans],
         \A r \in Procs \ {proc[c]} : chan'[r] = chan[r],
         to = "SLEEPING" /\ x = "wait" =>
           chan'[proc[c]] = proc[c] /\ Children(proc[c]) # {} /\ Zombies(proc[c]) = {},
         ListsCorrect',
         UNCHANGED <<pid, parent, killed, priority, wait_ticks, cpu, old, child, nextpid, panicked>>
  PROVE  IInv'
<1> DEFINE p == proc[c]
<1>1. p \in Procs /\ state[p] = "RUNNING"
  BY CurrentProcess
<1>2. \A r \in Procs : /\ kpc'[r] = IF r = p THEN x ELSE kpc[r]
                       /\ state'[r] = IF r = p THEN to ELSE state[r]
  BY <1>1 DEF Goto, IInv, TypeOK
<1>3. TypeOK'
  <2>1. kpc' \in [Procs -> KernelPoints] /\ state' \in [Procs -> ProcStates] /\ q' \in Queues
    BY <1>1 DEF Goto, IInv, TypeOK, ListsCorrect
  <2>2. /\ proc' \in [CPUs -> Procs \cup {NULL}] /\ spc' \in [CPUs -> SchedPoints]
        /\ waiter' \in CPUs \cup {NoCpu}
    BY DEF SwitchToScheduler, IInv, TypeOK, SchedPoints
  <2> QED BY <2>1, <2>2 DEF IInv, TypeOK
<1>4. RunsOnce'
  BY <1>2, CpuLeft
<1> HIDE DEF p
<1>5. DeadStayDead'
  BY <1>1, <1>2 DEF IInv, DeadStayDead, p
<1>6. ForkOwnsChild'
  <2>1. \A r \in Procs : kpc[r] \in {"forkcopy", "forkadd"} =>
          child[r] # p /\ child[r] \in Procs /\ state[child[r]] = "EMBRYO"
    BY <1>1 DEF IInv, ForkOwnsChild
  <2>2. \A r \in Procs : kpc'[r] \in {"forkcopy", "forkadd"} => kpc'[r] = kpc[r]
    BY <1>2 DEF p
  <2>3. \A r \in Procs : kpc'[r] \in {"forkcopy", "forkadd"} => state'[child[r]] = "EMBRYO"
    BY <1>2, <2>1, <2>2
  <2>4. \A r \in Procs : state'[r] = "UNUSED" => parent'[r] = NULL
    BY <1>2 DEF IInv, ForkOwnsChild
  <2> QED BY <2>2, <2>3, <2>4, ForkKept
<1>7. WaitersAreTold'
  <2> SUFFICES ASSUME NEW r \in Procs, state'[r] = "SLEEPING", kpc'[r] = "wait"
               PROVE  chan'[r] = r /\ Children(r)' # {} /\ Zombies(r)' = {}
    BY DEF WaitersAreTold
  <2>1. Zombies(r)' = Zombies(r) /\ Children(r)' = Children(r)
    BY <1>1, <1>2 DEF Zombies, Children
  <2>2. CASE r = p
    BY <1>2, <2>1, <2>2 DEF p
  <2>3. CASE r # p
    BY <1>2, <2>1, <2>3 DEF IInv, WaitersAreTold, p
  <2> QED BY <2>2, <2>3
<1>8. InitIsAlive'
  <2>1. state[InitProc] \in {"RUNNABLE", "RUNNING", "SLEEPING"}
    BY DEF IInv, InitIsAlive, Live
  <2> QED BY <1>2, <2>1, Basics, InitKept
<1> QED BY <1>3, <1>4, <1>5, <1>6, <1>7, <1>8 DEF IInv, ListsCorrect

\* A process that goes to sleep is on no list that rq_remove() could change.
LEMMA SleepPreserves ==
  ASSUME IInv, NEW c \in CPUs, spc[c] = "busy", NEW ch \in Procs \cup Chans,
         NEW x \in {"wait", "slept"}, SleepOn(c, ch, x),
         x = "wait" => ch = proc[c] /\ Children(ch) # {} /\ Zombies(ch) = {}
  PROVE  IInv'
<1> DEFINE p == proc[c]
<1>1. /\ p \in Procs /\ state[p] = "RUNNING" /\ cpu[p] = c
  BY CurrentProcess
<1>2. Valid(p) /\ priority[p] \in Prios
  BY <1>1 DEF Valid, IInv, TypeOK
<1>3. /\ chan' = [chan EXCEPT ![p] = ch] /\ state' = [state EXCEPT ![p] = "SLEEPING"]
      /\ q' = rq_remove(q, c, p, priority[p]) /\ SwitchToScheduler(c) /\ Goto(p, x)
      /\ UNCHANGED <<pid, parent, killed, priority, wait_ticks, cpu, old, child, nextpid, panicked>>
  BY <1>1, <1>2 DEF SleepOn
<1>4. q' = q
  BY <1>1, <1>2, <1>3, NothingRemoved
<1>5. /\ chan' \in [Procs -> {NULL} \cup Procs \cup Chans] /\ chan'[p] = ch
      /\ \A r \in Procs \ {p} : chan'[r] = chan[r]
  BY <1>1, <1>3 DEF IInv, TypeOK
<1>6. ListsCorrect'
  <2>1. state' \in [Procs -> ProcStates]
    BY <1>1, <1>3 DEF IInv, TypeOK, ProcStates
  <2>2. \A r \in Procs : state'[r] = "RUNNABLE" <=> state[r] = "RUNNABLE"
    BY <1>1, <1>3 DEF IInv, TypeOK
  <2>3. \A r \in Procs : state'[r] \notin {"UNUSED", "EMBRYO"} => cpu'[r] \in CPUs
    BY <1>1, <1>3 DEF IInv, IsAssigned, TypeOK
  <2> QED BY <1>3, <1>4, <2>1, <2>2, <2>3, ListsUntouched
<1> HIDE DEF p
<1> QED BY <1>3, <1>5, <1>6, LeavePreserves DEF KernelPoints, p

LEMMA LeaveStep ==
  ASSUME IInv, NEW c \in CPUs, yield(c) \/ waitSleeps(c) \/ \E ch \in Chans : sleep(c, ch)
  PROVE  IInv'
<1> DEFINE p == proc[c]
<1>1. CASE yield(c)
  <2>1. spc[c] = "busy"
    BY <1>1 DEF yield
  <2>2. p \in Procs /\ state[p] = "RUNNING" /\ cpu[p] = c
    BY <2>1, CurrentProcess
  <2>3. /\ SwitchToScheduler(c)
        /\ state' = [state EXCEPT ![p] = "RUNNABLE"] /\ kpc' = kpc
        /\ q' = rq_add(q, c, p, priority[p])
        /\ UNCHANGED <<pid, parent, killed, chan, priority, wait_ticks, cpu, old, child, nextpid,
                       panicked>>
    BY <1>1, <2>2 DEF yield, Valid, procVars
  <2>4. Goto(p, kpc[p]) /\ kpc[p] \in KernelPoints
    BY <2>2, <2>3 DEF Goto, IInv, TypeOK
  <2>5. chan' \in [Procs -> {NULL} \cup Procs \cup Chans]
    BY <2>3 DEF IInv, TypeOK
  <2>6. cpu' = [cpu EXCEPT ![p] = c]
    BY <2>2, <2>3 DEF IInv, TypeOK
  <2>7. ListsCorrect'
    BY <2>2, <2>3, <2>6, ProcessQueued
  <2> QED BY <2>1, <2>3, <2>4, <2>5, <2>7, LeavePreserves
<1>2. CASE waitSleeps(c)
  <2>1. /\ spc[c] = "busy" /\ Zombies(p) = {} /\ Children(p) # {} /\ SleepOn(c, p, "wait")
    BY <1>2 DEF waitSleeps, InWait, At
  <2>2. p \in Procs
    BY <2>1, CurrentProcess
  <2> QED BY <2>1, <2>2, SleepPreserves
<1>3. ASSUME NEW ch \in Chans, sleep(c, ch) PROVE IInv'
  <2>1. /\ spc[c] = "busy" /\ SleepOn(c, ch, "slept")
    BY <1>3 DEF sleep, At
  <2> QED BY <2>1, SleepPreserves
<1> QED BY <1>1, <1>2, <1>3

\* fork() claims a free slot, which nobody runs, forks or waits for and no list holds.
LEMMA allocprocStep == ASSUME IInv, NEW c \in CPUs, allocproc(c) PROVE IInv'
<1> DEFINE p == proc[c]
           free == {r \in Procs : state[r] = "UNUSED"}
           np == Min(free)
<1>1. /\ spc[c] = "busy" /\ kpc[p] = "sys" /\ waiter = NoCpu /\ free # {}
      /\ state' = [state EXCEPT ![np] = "EMBRYO"]
      /\ pid' = [pid EXCEPT ![np] = nextpid]
      /\ priority' = [priority EXCEPT ![np] = SHORT]
      /\ wait_ticks' = [wait_ticks EXCEPT ![np] = 0]
      /\ q' = [q EXCEPT !.next[np] = NULL]
      /\ old' = [old EXCEPT ![np] = FALSE]
      /\ cpu' = [cpu EXCEPT ![np] = NoCpu]
      /\ nextpid' = nextpid + 1
      /\ child' = [child EXCEPT ![p] = np]
      /\ kpc' = [kpc EXCEPT ![p] = "forkcopy", ![np] = "user"]
      /\ UNCHANGED <<parent, killed, chan, proc, spc, waiter, panicked>>
  BY DEF allocproc, At, LockFree
<1>2. np \in Procs /\ state[np] = "UNUSED"
  BY <1>1, ScanFinds, SMTT(30)
<1>3. p \in Procs /\ state[p] = "RUNNING"
  BY <1>1, CurrentProcess
<1> HIDE DEF np, p
<1>4. p # np /\ UNCHANGED <<chan, panicked>>
  BY <1>1, <1>2, <1>3
<1>5. ListsCorrect'
  <2> DEFINE w == Places(state, priority)
             n == [q.next EXCEPT ![np] = NULL]
  <2>1. ListsHold(q, w) /\ q \in Queues
    BY DEF IInv, TypeOK
  <2>2. /\ w \in [Procs -> AllPlaces] /\ w[np] = Nowhere
    BY <1>2, TableIsGood, PlaceFacts
  <2>3. Places(state, priority)' = w
    BY <1>1, <1>2 DEF Places, IInv, TypeOK
  <2> HIDE DEF w
  <2>4. q' = [q EXCEPT !.next = n]
    BY <1>1, <2>1 DEF Queues
  <2>5. n \in [Procs -> Procs \cup {NULL}] /\ \A x \in Procs : x # np => n[x] = q.next[x]
    BY <2>1 DEF Queues
  <2> HIDE DEF n
  <2>6. /\ q' \in Queues /\ q'.next = n
        /\ q'.head = q.head /\ q'.tail = q.tail /\ q'.count = q.count /\ q'.fault = q.fault
    BY <2>1, <2>4, <2>5 DEF Queues
  <2> DEFINE t == q'
  <2>7. t \in Queues /\ t.next = n
        /\ t.head = q.head /\ t.tail = q.tail /\ t.count = q.count /\ t.fault = q.fault
    BY <2>6
  <2> HIDE DEF t
  <2>8. ASSUME NEW d \in CPUs, NEW l \in Prios PROVE HoldsList(t, w, d, l)
    <3>1. np \notin Listed(w, d, l)
      BY <2>2, Basics DEF Listed, Nowhere
    <3>2. \A x \in Listed(w, d, l) : t.next[x] = q.next[x]
      BY <2>5, <2>7, <3>1 DEF Listed
    <3> QED BY <2>1, <2>7, <3>2, ListKept
  <2>9. ListsHold(t, w)
    BY <2>1, <2>7, <2>8 DEF ListsHold
  <2>10. ListsHold(q', Places(state, priority)')
    BY <2>3, <2>9 DEF t
  <2>11. state' \in [Procs -> ProcStates] /\ priority' \in [Procs -> Prios]
    BY <1>1, Basics DEF IInv, TypeOK, ProcStates
  <2>12. IsAssigned'
    BY <1>1 DEF IInv, TypeOK, IsAssigned
  <2> QED BY <2>6, <2>10, <2>11, <2>12 DEF ListsCorrect
<1>6. TypeOK'
  <2>1. /\ pid' \in [Procs -> Nat] /\ wait_ticks' \in [Procs -> 0 .. AGE - 1]
        /\ old' \in [Procs -> BOOLEAN]
    <3>1. 0 \in 0 .. AGE - 1 /\ nextpid \in Nat
      BY PrioSchedAssumption DEF IInv, TypeOK
    <3> QED BY <1>1, <3>1 DEF IInv, TypeOK
  <2>2. child' \in [Procs -> Procs \cup {NULL}] /\ cpu' \in [Procs -> CPUs \cup {NoCpu}]
    BY <1>1, <1>2 DEF IInv, TypeOK
  <2>3. kpc' \in [Procs -> KernelPoints]
    BY <1>1 DEF IInv, TypeOK, KernelPoints
  <2>4. nextpid' \in Nat
    <3>1. nextpid \in Nat /\ nextpid' = nextpid + 1
      BY <1>1 DEF IInv, TypeOK
    <3> QED BY <3>1
  <2> QED BY <1>1, <1>5, <2>1, <2>2, <2>3, <2>4 DEF IInv, TypeOK, ListsCorrect
<1>7. \A r \in Procs :
        /\ state'[r] = IF r = np THEN "EMBRYO" ELSE state[r]
        /\ child'[r] = IF r = p THEN np ELSE child[r]
        /\ cpu'[r] = IF r = np THEN NoCpu ELSE cpu[r]
        /\ kpc'[r] = IF r = np THEN "user" ELSE IF r = p THEN "forkcopy" ELSE kpc[r]
  BY <1>1, <1>2, <1>3 DEF IInv, TypeOK
<1>8. RunsOnce'
  BY <1>1, <1>2, <1>7, CpusKept
<1>9. DeadStayDead'
  BY <1>4, <1>7 DEF IInv, DeadStayDead
<1>10. ForkOwnsChild'
  <2>1. \A r \in Procs : kpc[r] \in {"forkcopy", "forkadd"} =>
          child[r] \in Procs /\ child[r] # np /\ r # p
    BY <1>1, <1>2 DEF IInv, ForkOwnsChild, p
  <2>2. \A r \in Procs : kpc'[r] \in {"forkcopy", "forkadd"} => r = p \/ (r # np /\ kpc'[r] = kpc[r])
    BY <1>7
  <2>3. parent' = parent /\ parent[np] = NULL
    BY <1>1, <1>2 DEF IInv, ForkOwnsChild
  <2>4. \A r \in Procs : kpc'[r] \in {"forkcopy", "forkadd"} =>
          /\ child'[r] \in Procs /\ state'[child'[r]] = "EMBRYO"
          /\ parent'[child'[r]] = IF kpc'[r] = "forkcopy" THEN NULL ELSE r
    BY <1>2, <1>4, <1>7, <2>1, <2>2, <2>3 DEF IInv, ForkOwnsChild
  <2>5. \A r, y \in Procs :
          kpc'[r] \in {"forkcopy", "forkadd"} /\ kpc'[y] \in {"forkcopy", "forkadd"}
          /\ child'[r] = child'[y] => r = y
    BY <1>7, <2>1, <2>2 DEF IInv, ForkOwnsChild
  <2>6. \A r \in Procs : state'[r] = "UNUSED" => parent'[r] = NULL
    BY <1>7, <2>3 DEF IInv, ForkOwnsChild
  <2> QED BY <2>4, <2>5, <2>6 DEF ForkOwnsChild
<1>11. WaitersAreTold'
  <2>1. \A r \in Procs : state'[r] = "SLEEPING" /\ kpc'[r] = "wait" =>
          state[r] = "SLEEPING" /\ kpc[r] = "wait"
    BY <1>7
  <2>2. \A r \in Procs : state'[r] = "ZOMBIE" => state[r] = "ZOMBIE"
    BY <1>7
  <2> QED BY <1>1, <2>1, <2>2, WaitersKept
<1>12. InitIsAlive'
  <2>1. state[InitProc] \in {"RUNNABLE", "RUNNING", "SLEEPING"}
    BY DEF IInv, InitIsAlive, Live
  <2> QED BY <1>1, <1>2, <1>7, <2>1, Basics, InitKept
<1> QED BY <1>5, <1>6, <1>8, <1>9, <1>10, <1>11, <1>12 DEF IInv, ListsCorrect

\* The slot that fork() has claimed is the caller's own.
LEMMA OwnChild ==
  ASSUME IInv, NEW p \in Procs, kpc[p] \in {"forkcopy", "forkadd"}
  PROVE  /\ child[p] \in Procs /\ state[child[p]] = "EMBRYO"
         /\ parent[child[p]] = IF kpc[p] = "forkcopy" THEN NULL ELSE p
         /\ \A r \in Procs \ {p} : kpc[r] \in {"forkcopy", "forkadd"} =>
              child[r] \in Procs /\ child[r] # child[p]
BY DEF IInv, ForkOwnsChild

\* The slot goes back.
LEMMA forkFailsStep == ASSUME IInv, NEW c \in CPUs, forkFails(c) PROVE IInv'
<1> DEFINE p == proc[c]
           np == child[p]
<1>1. /\ spc[c] = "busy" /\ kpc[p] = "forkcopy" /\ waiter = NoCpu
      /\ state' = [state EXCEPT ![np] = "UNUSED"]
      /\ child' = [child EXCEPT ![p] = NULL] /\ Goto(p, "user")
      /\ UNCHANGED <<pid, parent, killed, chan, priority, wait_ticks, cpu, old, nextpid, q, proc,
                     spc, waiter, panicked>>
  BY DEF forkFails, At, LockFree, procVars
<1>2. p \in Procs
  BY <1>1, CurrentProcess
<1>3. /\ np \in Procs /\ state[np] = "EMBRYO" /\ parent[np] = NULL
      /\ \A r \in Procs \ {p} : kpc[r] \in {"forkcopy", "forkadd"} =>
           child[r] \in Procs /\ child[r] # np
  BY <1>1, <1>2, OwnChild
<1> HIDE DEF np, p
<1>4. TypeOK'
  BY <1>1, <1>2, <1>3 DEF IInv, TypeOK, Goto, ProcStates, KernelPoints
<1>5. \A r \in Procs : /\ state'[r] = IF r = np THEN "UNUSED" ELSE state[r]
                       /\ child'[r] = IF r = p THEN NULL ELSE child[r]
                       /\ kpc'[r] = IF r = p THEN "user" ELSE kpc[r]
  BY <1>1, <1>2, <1>3 DEF IInv, TypeOK, Goto
<1>6. ListsCorrect'
  <2>1. state' \in [Procs -> ProcStates]
    BY <1>4 DEF TypeOK
  <2>2. \A r \in Procs : state'[r] = "RUNNABLE" <=> state[r] = "RUNNABLE"
    BY <1>3, <1>5
  <2>3. \A r \in Procs : state'[r] \notin {"UNUSED", "EMBRYO"} => cpu'[r] \in CPUs
    BY <1>1, <1>5 DEF IInv, IsAssigned
  <2> QED BY <1>1, <2>1, <2>2, <2>3, ListsUntouched
<1>7. RunsOnce'
  BY <1>1, <1>3, <1>5, CpusKept
<1>8. DeadStayDead'
  BY <1>1, <1>3, <1>5 DEF IInv, DeadStayDead
<1>9. ForkOwnsChild'
  <2>1. \A r \in Procs : kpc'[r] \in {"forkcopy", "forkadd"} =>
          /\ kpc'[r] = kpc[r] /\ child'[r] = child[r]
          /\ state'[child[r]] = "EMBRYO" /\ parent'[child[r]] = parent[child[r]]
    BY <1>1, <1>3, <1>5 DEF IInv, ForkOwnsChild
  <2>2. \A r \in Procs : state'[r] = "UNUSED" => parent'[r] = NULL
    BY <1>1, <1>3, <1>5 DEF IInv, ForkOwnsChild
  <2> QED BY <2>1, <2>2, ForkKept
<1>10. WaitersAreTold'
  BY <1>1, <1>5, WaitersKept
<1>11. InitIsAlive'
  BY <1>1, <1>3, <1>5, Basics, InitKept DEF IInv, InitIsAlive, Live
<1> QED BY <1>4, <1>6, <1>7, <1>8, <1>9, <1>10, <1>11 DEF IInv, ListsCorrect

\* The caller becomes the parent, without ptable_lock, of a slot that only it looks at.
LEMMA forkCopiesStep == ASSUME IInv, NEW c \in CPUs, forkCopies(c) PROVE IInv'
<1> DEFINE p == proc[c]
           np == child[p]
<1>1. /\ spc[c] = "busy" /\ kpc[p] = "forkcopy"
      /\ parent' = [parent EXCEPT ![np] = p] /\ Goto(p, "forkadd")
      /\ UNCHANGED <<state, pid, killed, chan, priority, wait_ticks, cpu, old, child, nextpid, q,
                     proc, spc, waiter, panicked>>
  BY DEF forkCopies, At
<1>2. p \in Procs /\ state[p] = "RUNNING"
  BY <1>1, CurrentProcess
<1>3. /\ np \in Procs /\ state[np] = "EMBRYO" /\ parent[np] = NULL
      /\ \A r \in Procs \ {p} : kpc[r] \in {"forkcopy", "forkadd"} =>
           child[r] \in Procs /\ child[r] # np
  BY <1>1, <1>2, OwnChild
<1> HIDE DEF np, p
<1>4. TypeOK'
  BY <1>1, <1>2, <1>3 DEF IInv, TypeOK, Goto, KernelPoints
<1>5. \A r \in Procs : /\ parent'[r] = IF r = np THEN p ELSE parent[r]
                       /\ kpc'[r] = IF r = p THEN "forkadd" ELSE kpc[r]
  BY <1>1, <1>2, <1>3 DEF IInv, TypeOK, Goto
<1>6. ListsCorrect'
  <2>1. state \in [Procs -> ProcStates] /\ IsAssigned
    BY DEF IInv, TypeOK
  <2> QED BY <1>1, <2>1, ListsUntouched DEF IsAssigned
<1>7. RunsOnce'
  BY <1>1, <1>5, CpusKept
<1>8. DeadStayDead'
  BY <1>1, <1>5 DEF IInv, DeadStayDead
<1>9. ForkOwnsChild'
  <2>1. \A r \in Procs : kpc'[r] \in {"forkcopy", "forkadd"} =>
          /\ child'[r] \in Procs /\ state'[child'[r]] = "EMBRYO"
          /\ parent'[child'[r]] = IF kpc'[r] = "forkcopy" THEN NULL ELSE r
    <3> TAKE r \in Procs
    <3> HAVE kpc'[r] \in {"forkcopy", "forkadd"}
    <3>1. CASE r = p
      BY <1>1, <1>3, <1>5, <3>1 DEF np
    <3>2. CASE r # p
      BY <1>1, <1>3, <1>5, <3>2 DEF IInv, ForkOwnsChild
    <3> QED BY <3>1, <3>2
  <2>2. child' = child /\ \A r \in Procs : kpc'[r] \in {"forkcopy", "forkadd"} <=>
                                           kpc[r] \in {"forkcopy", "forkadd"}
    BY <1>1, <1>5
  <2>3. \A r \in Procs : state'[r] = "UNUSED" => parent'[r] = NULL
    BY <1>1, <1>3, <1>5 DEF IInv, ForkOwnsChild
  <2> QED BY <2>1, <2>2, <2>3 DEF IInv, ForkOwnsChild
<1>10. WaitersAreTold'
  BY <1>1, <1>2, <1>3, <1>5, Basics, WaitersKept
<1>11. InitIsAlive'
  <2>1. np # InitProc /\ np # p /\ state' = state
    BY <1>1, <1>2, <1>3 DEF IInv, InitIsAlive, Live
  <2> QED BY <1>5, <2>1, Basics DEF IInv, InitIsAlive, Live
<1> QED BY <1>4, <1>6, <1>7, <1>8, <1>9, <1>10, <1>11 DEF IInv, ListsCorrect

\* The new process gets a CPU and goes to the end of its short-lived list.
LEMMA forkAddsStep == ASSUME IInv, NEW c \in CPUs, forkAdds(c) PROVE IInv'
<1> DEFINE p == proc[c]
           np == child[p]
<1>1. /\ spc[c] = "busy" /\ kpc[p] = "forkadd" /\ waiter = NoCpu
      /\ state' = [state EXCEPT ![np] = "RUNNABLE"]
      /\ cpu' = [cpu EXCEPT ![np] = LeastLoadedCpu]
      /\ q' = rq_add(q, LeastLoadedCpu, np, priority[np])
      /\ child' = [child EXCEPT ![p] = NULL] /\ Goto(p, "user")
      /\ UNCHANGED <<pid, parent, killed, chan, priority, wait_ticks, old, nextpid, proc, spc,
                     waiter, panicked>>
  BY DEF forkAdds, At, LockFree
<1>2. p \in Procs
  BY <1>1, CurrentProcess
<1>3. /\ np \in Procs /\ state[np] = "EMBRYO"
      /\ \A r \in Procs \ {p} : kpc[r] \in {"forkcopy", "forkadd"} =>
           child[r] \in Procs /\ child[r] # np
  BY <1>1, <1>2, OwnChild
<1> HIDE DEF np, p
<1>4. LeastLoadedCpu \in CPUs
  <2>1. LeastLoaded \in SUBSET Nat /\ LeastLoaded \in SUBSET CPUs
    BY PrioSizesAssumption DEF LeastLoaded, CPUs
  <2> QED BY <2>1, Basics, FirstIsMember DEF LeastLoadedCpu
<1>5. ListsCorrect'
  <2>1. priority' = priority
    BY <1>1
  <2> QED BY <1>1, <1>3, <1>4, <2>1, ProcessQueued
<1>6. TypeOK'
  <2>1. kpc' \in [Procs -> KernelPoints] /\ child' \in [Procs -> Procs \cup {NULL}]
        /\ cpu' \in [Procs -> CPUs \cup {NoCpu}]
    BY <1>1, <1>4 DEF IInv, TypeOK, Goto, KernelPoints
  <2> QED BY <1>1, <1>5, <2>1 DEF IInv, TypeOK, ListsCorrect
<1>7. \A r \in Procs : /\ state'[r] = IF r = np THEN "RUNNABLE" ELSE state[r]
                       /\ cpu'[r] = IF r = np THEN LeastLoadedCpu ELSE cpu[r]
                       /\ child'[r] = IF r = p THEN NULL ELSE child[r]
                       /\ kpc'[r] = IF r = p THEN "user" ELSE kpc[r]
  BY <1>1, <1>2, <1>3 DEF IInv, TypeOK, Goto
<1>8. RunsOnce'
  BY <1>1, <1>3, <1>7, CpusKept
<1>9. DeadStayDead'
  BY <1>1, <1>3, <1>7 DEF IInv, DeadStayDead
<1>10. ForkOwnsChild'
  <2>1. \A r \in Procs : kpc'[r] \in {"forkcopy", "forkadd"} =>
          /\ kpc'[r] = kpc[r] /\ child'[r] = child[r]
          /\ state'[child[r]] = "EMBRYO" /\ parent'[child[r]] = parent[child[r]]
    BY <1>1, <1>3, <1>7 DEF IInv, ForkOwnsChild
  <2>2. \A r \in Procs : state'[r] = "UNUSED" => parent'[r] = NULL
    BY <1>1, <1>7 DEF IInv, ForkOwnsChild
  <2> QED BY <2>1, <2>2, ForkKept
<1>11. WaitersAreTold'
  BY <1>1, <1>7, WaitersKept
<1>12. InitIsAlive'
  BY <1>1, <1>3, <1>7, Basics, InitKept DEF IInv, InitIsAlive, Live
<1> QED BY <1>5, <1>6, <1>8, <1>9, <1>10, <1>11, <1>12 DEF IInv, ListsCorrect

\* Sleepers become RUNNABLE, whoever wakes them, and are queued; the waker may return from its
\* system call.
LEMMA WakePreserves ==
  ASSUME IInv, NEW S \in SUBSET Procs, \A r \in S : state[r] = "SLEEPING",
         \A r \in Procs : state'[r] = IF r \in S THEN "RUNNABLE" ELSE state[r],
         TypeOK', ListsCorrect', RunsOnce',
         \A r \in Procs : kpc'[r] = kpc[r] \/ kpc'[r] = "user",
         UNCHANGED <<parent, chan, child, panicked>>
  PROVE  IInv'
<1>1. DeadStayDead'
  BY DEF IInv, DeadStayDead
<1>2. ForkOwnsChild'
  <2>1. \A r \in Procs : kpc'[r] \in {"forkcopy", "forkadd"} =>
          /\ kpc'[r] = kpc[r] /\ child[r] \in Procs
          /\ state'[child[r]] = "EMBRYO"
    BY DEF IInv, ForkOwnsChild
  <2>2. \A r \in Procs : state'[r] = "UNUSED" => parent'[r] = NULL
    BY DEF IInv, ForkOwnsChild
  <2> QED BY <2>1, <2>2, ForkKept
<1>3. WaitersAreTold'
  BY WaitersKept
<1>4. InitIsAlive'
  <2>1. state[InitProc] \in {"RUNNABLE", "RUNNING", "SLEEPING"}
    BY DEF IInv, InitIsAlive, Live
  <2> QED BY <2>1, Basics, InitKept
<1> QED BY <1>1, <1>2, <1>3, <1>4 DEF IInv, ListsCorrect

\* What the scans of an interrupt or a system call leave of the types.
LEMMA TypesKept ==
  ASSUME IInv, ListsCorrect',
         \/ kpc' = kpc
         \/ \E p \in Procs, x \in KernelPoints : Goto(p, x),
         killed' \in [Procs -> BOOLEAN], wait_ticks' \in [Procs -> 0 .. AGE - 1],
         spc' \in [CPUs -> SchedPoints],
         UNCHANGED <<pid, parent, chan, cpu, old, child, nextpid, proc, waiter, panicked>>
  PROVE  TypeOK'
<1>1. kpc' \in [Procs -> KernelPoints]
  BY DEF IInv, TypeOK, Goto
<1> QED BY <1>1 DEF IInv, TypeOK, ListsCorrect

\* wakeup() that lifts nobody.
LEMMA NobodyLifted ==
  ASSUME IInv, NEW ch, wakeup(ch), ~ WakeupLifts
  PROVE  \A x \in Procs : WakesOn(Table, x, ch) => LiftedTo(priority[x]) = priority[x]
<1>1. state \in [Procs -> ProcStates] /\ priority \in [Procs -> Prios]
  BY DEF IInv, TypeOK
<1>2. Table.state = state /\ Table.priority = priority
  BY TableIsGood
<1>3. state' = wakeup1(Table, ch).state /\ priority' = wakeup1(Table, ch).priority
  BY DEF wakeup, Install
<1>4. WokenUpTo(wakeup1(Table, ch), Table, NPROC, ch)
  BY <1>1, <1>2, WakeEffect
<1> SUFFICES ASSUME NEW x \in Procs, WakesOn(Table, x, ch)
             PROVE  LiftedTo(priority[x]) = priority[x]
  OBVIOUS
<1>5. x <= NPROC
  BY DEF Procs
<1>6. state'[x] = "RUNNABLE" /\ priority'[x] = LiftedTo(priority[x])
  BY <1>2, <1>3, <1>4, <1>5 DEF WokenUpTo
<1>7. state[x] = "SLEEPING"
  BY <1>2 DEF WakesOn
<1> QED BY <1>6, <1>7 DEF WakeupLifts

\* The states after a wakeup() that lifts nobody.
LEMMA WokenStates ==
  ASSUME IInv, NEW ch, wakeup(ch), ~ WakeupLifts
  PROVE  /\ TableGood(wakeup1(Table, ch))
         /\ state' = [r \in Procs |-> IF Sleeping(r, ch) THEN "RUNNABLE" ELSE state[r]]
<1>1. TableGood(Table) /\ Table.state = state /\ Table.priority = priority
  BY TableIsGood
<1>2. \A x \in Procs : WakesOn(Table, x, ch) => LiftedTo(Table.priority[x]) = Table.priority[x]
  BY <1>1, NobodyLifted
<1>3. /\ TableGood(wakeup1(Table, ch))
      /\ \A x \in Procs : wakeup1(Table, ch).state[x] =
           IF WakesOn(Table, x, ch) THEN "RUNNABLE" ELSE Table.state[x]
  BY <1>1, <1>2, WakeKeeps
<1>4. state' = wakeup1(Table, ch).state
  BY DEF wakeup, Install
<1>5. wakeup1(Table, ch).state \in [Procs -> ProcStates]
  BY <1>3 DEF TableGood
<1>6. \A x \in Procs : WakesOn(Table, x, ch) <=> Sleeping(x, ch)
  BY <1>1 DEF WakesOn, Sleeping
<1>7. \A x \in Procs : state'[x] = IF Sleeping(x, ch) THEN "RUNNABLE" ELSE state[x]
  BY <1>1, <1>3, <1>4, <1>6
<1> QED BY <1>3, <1>4, <1>5, <1>7

LEMMA wakeupStep == ASSUME IInv, NEW ch, wakeup(ch), ~ WakeupLifts PROVE IInv'
<1> DEFINE S == {r \in Procs : Sleeping(r, ch)}
<1>1. /\ Install(wakeup1(Table, ch))
      /\ UNCHANGED <<pid, parent, killed, chan, wait_ticks, cpu, old, kpc, child, nextpid, proc,
                     spc, waiter, panicked>>
  BY DEF wakeup, procVars
<1>2. /\ TableGood(wakeup1(Table, ch))
      /\ \A r \in Procs : state'[r] = IF r \in S THEN "RUNNABLE" ELSE state[r]
  BY WokenStates
<1>3. \A r \in S : state[r] = "SLEEPING"
  BY DEF Sleeping
<1> HIDE DEF S
<1>4. ListsCorrect'
  BY <1>1, <1>2, Installed
<1>5. TypeOK'
  <2>1. /\ killed' \in [Procs -> BOOLEAN] /\ wait_ticks' \in [Procs -> 0 .. AGE - 1]
        /\ spc' \in [CPUs -> SchedPoints]
    BY <1>1 DEF IInv, TypeOK
  <2> QED BY <1>1, <1>4, <2>1, TypesKept
<1>6. RunsOnce'
  <2>1. \A r \in Procs : state'[r] = "RUNNING" <=> state[r] = "RUNNING"
    BY <1>2, <1>3
  <2> QED BY <1>1, <2>1, CpusKept
<1>7. S \in SUBSET Procs
  BY DEF S
<1> QED BY <1>1, <1>2, <1>3, <1>4, <1>5, <1>6, <1>7, WakePreserves

\* The victim of kill(): a sleeper wakes and is queued.
LEMMA KillTable ==
  ASSUME IInv, NEW n, {r \in Procs : pid[r] = n} # {}
  PROVE  LET v == Min({r \in Procs : pid[r] = n}) IN
         /\ v \in Procs /\ TableGood(Rouse(Table, v))
         /\ \A r \in Procs : Rouse(Table, v).state[r] =
              IF r = v /\ state[v] = "SLEEPING" THEN "RUNNABLE" ELSE state[r]
<1> DEFINE v == Min({r \in Procs : pid[r] = n})
<1>1. v \in Procs
  BY ScanFinds
<1> HIDE DEF v
<1>2. TableGood(Table) /\ Table.state = state
  BY TableIsGood
<1>3. /\ TableGood(Rouse(Table, v))
      /\ \A r \in Procs : Rouse(Table, v).state[r] =
           IF r = v /\ Table.state[v] = "SLEEPING" THEN "RUNNABLE" ELSE Table.state[r]
  BY <1>1, <1>2, RouseKeeps
<1> QED BY <1>1, <1>2, <1>3 DEF v

LEMMA killStep == ASSUME IInv, NEW c \in CPUs, NEW n, kill(c, n) PROVE IInv'
<1> DEFINE p == proc[c]
           found == {r \in Procs : pid[r] = n}
           v == Min(found)
           S == {r \in {v} : state[r] = "SLEEPING"}
<1>1. /\ spc[c] = "busy" /\ waiter = NoCpu /\ found # {} /\ Goto(p, "user")
      /\ killed' = [killed EXCEPT ![v] = TRUE]
      /\ Install(Rouse(Table, v))
      /\ UNCHANGED <<pid, parent, chan, wait_ticks, cpu, old, child, nextpid, proc, spc, waiter,
                     panicked>>
  BY DEF kill, At, LockFree
<1>2. /\ v \in Procs /\ TableGood(Rouse(Table, v))
      /\ \A r \in Procs : Rouse(Table, v).state[r] =
           IF r = v /\ state[v] = "SLEEPING" THEN "RUNNABLE" ELSE state[r]
  BY <1>1, KillTable
<1>3. p \in Procs
  BY <1>1, CurrentProcess
<1> HIDE DEF v
<1>4. \A r \in Procs : /\ state'[r] = IF r \in S THEN "RUNNABLE" ELSE state[r]
                       /\ kpc'[r] = IF r = p THEN "user" ELSE kpc[r]
  BY <1>1, <1>2, <1>3 DEF Goto, Install, IInv, TypeOK
<1>5. ListsCorrect'
  BY <1>1, <1>2, Installed
<1>6. TypeOK'
  <2>1. /\ killed' \in [Procs -> BOOLEAN] /\ wait_ticks' \in [Procs -> 0 .. AGE - 1]
        /\ spc' \in [CPUs -> SchedPoints]
    BY <1>1 DEF IInv, TypeOK
  <2>2. "user" \in KernelPoints
    BY DEF KernelPoints
  <2> QED BY <1>1, <1>3, <1>5, <2>1, <2>2, TypesKept
<1>7. RunsOnce'
  <2>1. \A r \in Procs : state'[r] = "RUNNING" <=> state[r] = "RUNNING"
    BY <1>4
  <2> QED BY <1>1, <2>1, CpusKept
<1>8. S \in SUBSET Procs /\ \A r \in S : state[r] = "SLEEPING"
  BY <1>2
<1> HIDE DEF S
<1> QED BY <1>1, <1>4, <1>5, <1>6, <1>7, <1>8, WakePreserves

LEMMA setpriorityStep ==
  ASSUME IInv, NEW c \in CPUs, NEW n, NEW k \in PriorityArgs, sys_setpriority(c, n, k)
  PROVE  IInv'
<1> DEFINE p == proc[c]
           found == {r \in Procs : pid[r] = n}
           v == Min(found)
<1>1. /\ spc[c] = "busy" /\ waiter = NoCpu /\ found # {} /\ Goto(p, "user")
      /\ Install(Requeue(Table, v, k))
      /\ UNCHANGED <<pid, parent, killed, chan, wait_ticks, cpu, old, child, nextpid, proc, spc,
                     waiter, panicked>>
  BY DEF sys_setpriority, At, LockFree, procVars
<1>2. v \in Procs /\ k \in Prios
  BY <1>1, ScanFinds, PrioSchedAssumption
<1> HIDE DEF v
<1>3. TableGood(Requeue(Table, v, k)) /\ Requeue(Table, v, k).state = state
  BY <1>2, TableIsGood, RequeueKeeps
<1>4. p \in Procs
  BY <1>1, CurrentProcess
<1>5. state' = state /\ \A r \in Procs : kpc'[r] = IF r = p THEN "user" ELSE kpc[r]
  BY <1>1, <1>3, <1>4 DEF Goto, Install, IInv, TypeOK
<1>6. ListsCorrect'
  BY <1>1, <1>3, Installed
<1>7. TypeOK'
  <2>1. /\ killed' \in [Procs -> BOOLEAN] /\ wait_ticks' \in [Procs -> 0 .. AGE - 1]
        /\ spc' \in [CPUs -> SchedPoints] /\ "user" \in KernelPoints
    BY <1>1 DEF IInv, TypeOK, KernelPoints
  <2> QED BY <1>1, <1>4, <1>6, <2>1, TypesKept
<1>8. RunsOnce'
  BY <1>1, <1>5, CpusKept
<1> DEFINE S == {}
<1>9. S \in SUBSET Procs /\ \A r \in S : state[r] = "SLEEPING"
  OBVIOUS
<1>10. \A r \in Procs : state'[r] = IF r \in S THEN "RUNNABLE" ELSE state[r]
  BY <1>5
<1> HIDE DEF S
<1> QED BY <1>1, <1>5, <1>6, <1>7, <1>8, <1>9, <1>10, WakePreserves

\* The scheduler ages the processes and wakes those that it kills.
LEMMA updateStep == ASSUME IInv, NEW c \in CPUs, update_priorities(c) PROVE IInv'
<1> DEFINE S == {r \in Procs : TooOld(r) /\ state[r] = "SLEEPING"}
           t == Scan(UpdatePriority, Table)
<1>1. /\ spc[c] = "top" /\ waiter = NoCpu
      /\ Install(t)
      /\ killed' = [p \in Procs |-> killed[p] \/ TooOld(p)]
      /\ wait_ticks' = [p \in Procs |-> IF ~Waits(p) THEN wait_ticks[p]
                                        ELSE IF Ages(p) THEN 0 ELSE wait_ticks[p] + 1]
      /\ spc' = [spc EXCEPT ![c] = "select"]
      /\ UNCHANGED <<pid, parent, chan, cpu, old, kpc, child, nextpid, proc, waiter, panicked>>
  BY DEF update_priorities, LockFree
<1>2. TableGood(Table) /\ Table.state = state
  BY TableIsGood
<1>3. /\ TableGood(t)
      /\ \A r \in Procs : t.state[r] =
           IF TooOld(r) /\ Table.state[r] = "SLEEPING" THEN "RUNNABLE" ELSE Table.state[r]
  BY <1>2, UpdateKeeps
<1> HIDE DEF t
<1>4. \A r \in Procs : state'[r] = IF r \in S THEN "RUNNABLE" ELSE state[r]
  BY <1>1, <1>2, <1>3 DEF Install
<1>5. ListsCorrect'
  BY <1>1, <1>3, Installed
<1>6. TypeOK'
  <2>1. killed' \in [Procs -> BOOLEAN]
    BY <1>1 DEF TooOld, Live, IInv, TypeOK
  <2>2. wait_ticks' \in [Procs -> 0 .. AGE - 1]
    <3>1. ASSUME NEW p \in Procs
          PROVE  (IF ~Waits(p) THEN wait_ticks[p]
                  ELSE IF Ages(p) THEN 0 ELSE wait_ticks[p] + 1) \in 0 .. AGE - 1
      <4>1. wait_ticks[p] \in 0 .. AGE - 1 /\ AGE \in Nat \ {0}
        BY PrioSchedAssumption DEF IInv, TypeOK
      <4>2. Waits(p) /\ ~ Ages(p) => wait_ticks[p] + 1 < AGE
        BY <4>1 DEF Ages
      <4> QED BY <4>1, <4>2
    <3> QED BY <1>1, <3>1
  <2>3. spc' \in [CPUs -> SchedPoints]
    BY <1>1 DEF IInv, TypeOK, SchedPoints
  <2> QED BY <1>1, <1>5, <2>1, <2>2, <2>3, TypesKept
<1>7. RunsOnce'
  <2>1. \A r \in Procs : state'[r] = "RUNNING" <=> state[r] = "RUNNING"
    BY <1>4
  <2>2. \A d \in CPUs : spc'[d] = IF d = c THEN "select" ELSE spc[d]
    BY <1>1 DEF IInv, TypeOK
  <2>3. \A d \in CPUs : waiter' = d => At(d, "wait")'
    BY <1>1, Basics
  <2>4. proc' = proc /\ cpu' = cpu
    BY <1>1
  <2> QED BY <1>1, <2>1, <2>2, <2>3, <2>4 DEF IInv, RunsOnce
<1>8. S \in SUBSET Procs /\ \A r \in S : state[r] = "SLEEPING"
  OBVIOUS
<1> HIDE DEF S
<1> QED BY <1>1, <1>4, <1>5, <1>6, <1>7, <1>8, WakePreserves

LEMMA idleStep == ASSUME IInv, NEW c \in CPUs, idle(c) PROVE IInv'
<1>1. /\ spc[c] = "select" /\ spc' = [spc EXCEPT ![c] = "top"] /\ waiter = NoCpu
      /\ UNCHANGED <<state, pid, parent, killed, chan, priority, wait_ticks, cpu, old, kpc, child,
                     nextpid, q, proc, waiter, panicked>>
  BY DEF idle, LockFree, procVars
<1>2. TypeOK'
  <2>1. spc' \in [CPUs -> SchedPoints]
    BY <1>1 DEF IInv, TypeOK, SchedPoints
  <2> QED BY <1>1, <2>1 DEF IInv, TypeOK
<1>3. ListsCorrect'
  <2>1. state \in [Procs -> ProcStates] /\ IsAssigned
    BY DEF IInv, TypeOK
  <2> QED BY <1>1, <2>1, ListsUntouched DEF IsAssigned
<1>4. RunsOnce'
  <2>1. \A d \in CPUs : spc'[d] = IF d = c THEN "top" ELSE spc[d]
    BY <1>1 DEF IInv, TypeOK
  <2>2. \A d \in CPUs : waiter' = d => At(d, "wait")'
    BY <1>1, Basics
  <2> QED BY <1>1, <2>1, <2>2 DEF IInv, RunsOnce
<1>5. DeadStayDead' /\ ForkOwnsChild'
  BY <1>1 DEF IInv, DeadStayDead, ForkOwnsChild
<1>6. WaitersAreTold'
  BY <1>1, WaitersKept
<1>7. InitIsAlive'
  BY <1>1, InitKept DEF IInv, InitIsAlive, Live
<1> QED BY <1>2, <1>3, <1>4, <1>5, <1>6, <1>7 DEF IInv, ListsCorrect

\* The dead child is in nobody's way any more, and on no list.
LEMMA waitReapsStep == ASSUME IInv, NEW c \in CPUs, waitReaps(c) PROVE IInv'
<1> DEFINE p == proc[c]
           z == Min(Zombies(p))
<1>1. spc[c] = "busy" /\ Zombies(p) # {}
  BY DEF waitReaps, InWait, At
<1>2. p \in Procs /\ state[p] = "RUNNING"
  BY <1>1, CurrentProcess
<1>3. z \in Procs /\ state[z] = "ZOMBIE" /\ parent[z] = p
  BY <1>1, ReapedIsChild
<1>4. Valid(z) /\ cpu[z] \in CPUs /\ priority[z] \in Prios
  BY <1>3 DEF Valid, IInv, IsAssigned, TypeOK
<1>5. rq_remove(q, cpu[z], z, priority[z]) = q
  BY <1>3, <1>4, NothingRemoved
<1>6. /\ state' = [state EXCEPT ![z] = "UNUSED"] /\ Goto(p, "user") /\ waiter' = NoCpu
      /\ pid' = [pid EXCEPT ![z] = 0] /\ parent' = [parent EXCEPT ![z] = NULL]
      /\ killed' = [killed EXCEPT ![z] = FALSE] /\ q' = q
      /\ UNCHANGED <<chan, priority, wait_ticks, cpu, old, child, nextpid, proc, spc, panicked>>
  BY <1>4, <1>5 DEF waitReaps
<1> HIDE DEF z, p
<1>7. TypeOK'
  <2>1. /\ state' \in [Procs -> ProcStates] /\ kpc' \in [Procs -> KernelPoints]
        /\ pid' \in [Procs -> Nat] /\ parent' \in [Procs -> Procs \cup {NULL}]
        /\ killed' \in [Procs -> BOOLEAN]
    BY <1>6 DEF IInv, TypeOK, Goto, ProcStates, KernelPoints
  <2> QED BY <1>6, <2>1 DEF IInv, TypeOK
<1>8. \A r \in Procs : /\ state'[r] = IF r = z THEN "UNUSED" ELSE state[r]
                       /\ parent'[r] = IF r = z THEN NULL ELSE parent[r]
                       /\ kpc'[r] = IF r = p THEN "user" ELSE kpc[r]
  BY <1>2, <1>3, <1>6 DEF IInv, TypeOK, Goto
<1>9. ListsCorrect'
  <2>1. state' \in [Procs -> ProcStates]
    BY <1>7 DEF TypeOK
  <2>2. \A r \in Procs : state'[r] = "RUNNABLE" <=> state[r] = "RUNNABLE"
    BY <1>3, <1>8
  <2>3. \A r \in Procs : state'[r] \notin {"UNUSED", "EMBRYO"} => cpu'[r] \in CPUs
    BY <1>6, <1>8 DEF IInv, IsAssigned
  <2> QED BY <1>6, <2>1, <2>2, <2>3, ListsUntouched
<1>10. RunsOnce'
  <2>1. \A r \in Procs : state'[r] = "RUNNING" <=> state[r] = "RUNNING"
    BY <1>3, <1>8
  <2> QED BY <1>6, <2>1, CpusKept
<1>11. DeadStayDead'
  BY <1>6, <1>8 DEF IInv, DeadStayDead
<1>12. ForkOwnsChild'
  <2>1. \A r \in Procs : kpc'[r] \in {"forkcopy", "forkadd"} =>
          /\ kpc'[r] = kpc[r] /\ child[r] \in Procs
          /\ state'[child[r]] = "EMBRYO" /\ parent'[child[r]] = parent[child[r]]
    BY <1>3, <1>8 DEF IInv, ForkOwnsChild
  <2>2. \A r \in Procs : state'[r] = "UNUSED" => parent'[r] = NULL
    BY <1>8 DEF IInv, ForkOwnsChild
  <2> QED BY <1>6, <2>1, <2>2, ForkKept
<1>13. WaitersAreTold'
  <2>1. \A r \in Procs : state'[r] = "SLEEPING" /\ kpc'[r] = "wait" =>
          state[r] = "SLEEPING" /\ kpc[r] = "wait" /\ r # p
    BY <1>8
  <2>2. \A r, x \in Procs : r # p => (parent'[x] = r <=> parent[x] = r)
    BY <1>3, <1>8, Basics
  <2>3. \A r \in Procs : state'[r] = "ZOMBIE" => state[r] = "ZOMBIE"
    BY <1>8
  <2> QED BY <1>6, <2>1, <2>2, <2>3, WaitersKept
<1>14. InitIsAlive'
  <2>1. Live(InitProc) /\ z # InitProc
    BY <1>3 DEF IInv, InitIsAlive, Live
  <2>2. Live(InitProc)'
    BY <1>8, <2>1, Basics DEF Live
  <2> QED BY <1>8, <2>2, Basics DEF IInv, InitIsAlive
<1> QED BY <1>7, <1>9, <1>10, <1>11, <1>12, <1>13, <1>14 DEF IInv, ListsCorrect

\* Those whom the exit of p wakes: the parent, and init if it inherits a ZOMBIE.
ToldOfExit(p) ==
  {r \in Procs : /\ state[r] = "SLEEPING"
                 /\ chan[r] = parent[p] \/ (Zombies(p) # {} /\ chan[r] = InitProc)}

\* exit() that lifts nobody: its two wakeups come to one, and the lists stay right.
LEMMA ExitTable ==
  ASSUME IInv, NEW c \in CPUs, exit(c), ~ WakeupLifts
  PROVE  LET p == proc[c]
             t == ExitWakes(p)
         IN  /\ TableGood(t) /\ t.priority = priority
             /\ \A r \in Procs : t.state[r] = IF r \in ToldOfExit(p) THEN "RUNNABLE" ELSE state[r]
<1> DEFINE p == proc[c]
           t == ExitWakes(p)
           woken == wakeup1(Table, parent[p])
           both == wakeup1(woken, InitProc)
<1>1. /\ TableGood(Table) /\ Table.state = state /\ Table.priority = priority
      /\ state \in [Procs -> ProcStates] /\ priority \in [Procs -> Prios]
  BY TableIsGood DEF IInv, TypeOK
<1>2. spc[c] = "busy"
  BY DEF exit, At
<1>3. p \in Procs /\ state[p] = "RUNNING"
  BY <1>2, CurrentProcess
<1>4. \A x \in Procs : x <= NPROC
  BY DEF Procs
<1>5. /\ woken.state \in [Procs -> ProcStates] /\ woken.priority \in [Procs -> Prios]
      /\ \A x \in Procs :
           /\ woken.state[x] = IF WakesOn(Table, x, parent[p]) THEN "RUNNABLE" ELSE state[x]
           /\ woken.priority[x] = IF WakesOn(Table, x, parent[p]) THEN LiftedTo(priority[x])
                                  ELSE priority[x]
  <2>1. WokenUpTo(woken, Table, NPROC, parent[p])
    BY <1>1, WakeEffect
  <2> HIDE DEF woken
  <2> QED BY <1>1, <1>4, <2>1 DEF WokenUpTo
<1> HIDE DEF woken
<1>6. /\ both.state \in [Procs -> ProcStates]
      /\ \A x \in Procs :
           /\ both.state[x] = IF WakesOn(woken, x, InitProc) THEN "RUNNABLE" ELSE woken.state[x]
           /\ both.priority[x] = IF WakesOn(woken, x, InitProc) THEN LiftedTo(woken.priority[x])
                                 ELSE woken.priority[x]
  <2>1. WokenUpTo(both, woken, NPROC, InitProc)
    BY <1>5, WakeEffect
  <2> HIDE DEF both
  <2> QED BY <1>4, <2>1 DEF WokenUpTo
<1> HIDE DEF both
<1>7. state' = [t.state EXCEPT ![p] = "ZOMBIE"] /\ priority' = t.priority
  BY DEF exit, Install
<1>8. t = IF Zombies(p) # {} THEN both ELSE woken
  BY DEF ExitWakes, both, woken
<1> HIDE DEF t
<1>9. \A x \in Procs : state[x] = "SLEEPING" /\ state'[x] = "RUNNABLE" => priority'[x] = priority[x]
  BY DEF WakeupLifts
<1>10. ASSUME NEW x \in Procs, WakesOn(Table, x, parent[p])
       PROVE  LiftedTo(priority[x]) = priority[x]
  <2>1. state[x] = "SLEEPING" /\ x # p /\ woken.state[x] = "RUNNABLE"
        /\ woken.priority[x] = LiftedTo(priority[x])
    BY <1>1, <1>3, <1>5, <1>10 DEF WakesOn
  <2>2. t.state[x] = "RUNNABLE" /\ t.priority[x] = LiftedTo(priority[x])
    BY <1>6, <1>8, <2>1 DEF WakesOn
  <2>3. t.state \in [Procs -> ProcStates]
    BY <1>5, <1>6, <1>8
  <2>4. state'[x] = t.state[x]
    BY <1>7, <2>1, <2>3
  <2> QED BY <1>7, <1>9, <2>1, <2>2, <2>4
<1>11. /\ TableGood(woken) /\ woken.priority = priority
  <2>1. \A x \in Procs : WakesOn(Table, x, parent[p]) => LiftedTo(Table.priority[x]) = Table.priority[x]
    BY <1>1, <1>10
  <2> QED BY <1>1, <2>1, WakeKeeps DEF woken
<1>12. CASE Zombies(p) = {}
  <2>1. t = woken
    BY <1>8, <1>12
  <2>2. \A r \in Procs : WakesOn(Table, r, parent[p]) <=> r \in ToldOfExit(p)
    BY <1>1, <1>12 DEF WakesOn, ToldOfExit
  <2> QED BY <1>5, <1>11, <2>1, <2>2 DEF t
<1>13. CASE Zombies(p) # {}
  <2>1. t = both
    BY <1>8, <1>13
  <2>2. ASSUME NEW x \in Procs, WakesOn(woken, x, InitProc)
        PROVE  LiftedTo(woken.priority[x]) = woken.priority[x]
    <3>1. state[x] = "SLEEPING" /\ x # p
      BY <1>3, <1>5, <2>2 DEF WakesOn
    <3>2. t.state[x] = "RUNNABLE" /\ t.priority[x] = LiftedTo(woken.priority[x])
      BY <1>6, <2>1, <2>2
    <3>3. state'[x] = "RUNNABLE"
      BY <1>6, <1>7, <2>1, <3>1, <3>2
    <3> QED BY <1>7, <1>9, <1>11, <3>1, <3>2, <3>3
  <2>3. TableGood(both) /\ both.priority = woken.priority
    BY <1>11, <2>2, WakeKeeps DEF both
  <2>4. \A r \in Procs : both.state[r] = IF r \in ToldOfExit(p) THEN "RUNNABLE" ELSE state[r]
    BY <1>1, <1>5, <1>6, <1>13 DEF WakesOn, ToldOfExit
  <2> QED BY <1>11, <2>1, <2>3, <2>4 DEF t
<1> QED BY <1>12, <1>13

\* The life of p ends: parent and init are told, its children are init's.
LEMMA exitStep == ASSUME IInv, NEW c \in CPUs, exit(c), ~ WakeupLifts PROVE IInv'
<1> DEFINE p == proc[c]
           t == ExitWakes(p)
           S == ToldOfExit(p)
<1>1. spc[c] = "busy" /\ kpc[p] = "exit" /\ p # InitProc
  BY DEF exit, At
<1>2. p \in Procs /\ p # NULL /\ state[p] = "RUNNING" /\ cpu[p] = c
  BY <1>1, CurrentProcess
<1>3. S \in SUBSET Procs /\ \A r \in S : state[r] = "SLEEPING"
  BY DEF ToldOfExit
<1>4. /\ TableGood(t) /\ t.priority = priority
      /\ \A r \in Procs : t.state[r] = IF r \in S THEN "RUNNABLE" ELSE state[r]
  BY ExitTable
<1> HIDE DEF t
<1>5. /\ t.state \in [Procs -> ProcStates] /\ t.priority \in [Procs -> Prios] /\ t.q \in Queues
      /\ \A r \in Procs : t.state[r] \notin {"UNUSED", "EMBRYO"} => cpu[r] \in CPUs
      /\ ListsHold(t.q, Places(t.state, t.priority))
  BY <1>4 DEF TableGood
<1>6. rq_remove(t.q, cpu[p], p, t.priority[p]) = t.q
  <2> DEFINE w == Places(t.state, t.priority)
  <2>1. w[p] = Nowhere
    BY <1>2, <1>3, <1>4, PlaceFacts
  <2>2. cpu[p] \in CPUs /\ t.priority[p] \in Prios
    BY <1>2, <1>5
  <2> HIDE DEF w
  <2>3. p \notin Listed(w, cpu[p], t.priority[p])
    BY <2>1, <2>2, Basics DEF Listed, Nowhere
  <2> QED BY <1>5, <2>2, <2>3, RemoveAbsent DEF w
<1>7. Valid(p)
  BY <1>2 DEF Valid
<1>8. /\ state' = [t.state EXCEPT ![p] = "ZOMBIE"] /\ priority' = t.priority /\ q' = t.q
      /\ parent' = [r \in Procs |-> IF parent[r] = p THEN InitProc ELSE parent[r]]
      /\ SwitchToScheduler(c) /\ Goto(p, "zombie")
      /\ UNCHANGED <<pid, killed, chan, wait_ticks, cpu, old, child, nextpid, panicked>>
  BY <1>6, <1>7 DEF exit, Install, t
<1> HIDE DEF S
<1>9. \A r \in Procs :
        /\ state'[r] = IF r = p THEN "ZOMBIE" ELSE IF r \in S THEN "RUNNABLE" ELSE state[r]
        /\ parent'[r] = IF parent[r] = p THEN InitProc ELSE parent[r]
        /\ kpc'[r] = IF r = p THEN "zombie" ELSE kpc[r]
  <2>1. \A r \in Procs : kpc'[r] = IF r = p THEN "zombie" ELSE kpc[r]
    BY <1>2, <1>8 DEF IInv, TypeOK, Goto
  <2>2. \A r \in Procs : state'[r] = IF r = p THEN "ZOMBIE" ELSE t.state[r]
    BY <1>5, <1>8
  <2> QED BY <1>4, <1>8, <2>1, <2>2
<1>10. ListsCorrect'
  <2>1. state' \in [Procs -> ProcStates]
    BY <1>5, <1>8 DEF ProcStates
  <2>2. Places(state, priority)' = Places(t.state, t.priority)
    <3>1. t.state[p] # "RUNNABLE" /\ cpu' = cpu
      BY <1>2, <1>3, <1>4, <1>8
    <3> QED BY <1>5, <1>8, <3>1 DEF Places
  <2>3. ListsHold(q', Places(state, priority)')
    BY <1>5, <1>8, <2>2
  <2>4. IsAssigned'
    BY <1>2, <1>5, <1>8 DEF IsAssigned
  <2> QED BY <1>5, <1>8, <2>1, <2>3, <2>4 DEF ListsCorrect
<1>11. TypeOK'
  <2>1. parent' \in [Procs -> Procs \cup {NULL}]
    BY <1>8, Basics DEF IInv, TypeOK
  <2>2. kpc' \in [Procs -> KernelPoints]
    BY <1>8 DEF Goto, IInv, TypeOK, KernelPoints
  <2>3. /\ proc' \in [CPUs -> Procs \cup {NULL}] /\ spc' \in [CPUs -> SchedPoints]
        /\ waiter' \in CPUs \cup {NoCpu}
    BY <1>8 DEF SwitchToScheduler, IInv, TypeOK, SchedPoints
  <2> QED BY <1>8, <1>10, <2>1, <2>2, <2>3 DEF IInv, TypeOK, ListsCorrect
<1>12. RunsOnce'
  <2>1. \A r \in Procs : state'[r] = "RUNNING" <=> state[r] = "RUNNING" /\ r # p
    BY <1>3, <1>9
  <2> QED BY <1>1, <1>8, <2>1, CpuLeft
<1> HIDE DEF p
<1>13. DeadStayDead'
  BY <1>3, <1>8, <1>9 DEF IInv, DeadStayDead
<1>14. ForkOwnsChild'
  <2>1. \A r \in Procs : kpc'[r] \in {"forkcopy", "forkadd"} =>
          /\ r # p /\ kpc'[r] = kpc[r] /\ child[r] \in Procs
          /\ state[child[r]] = "EMBRYO" /\ parent[child[r]] \in {NULL, r}
    BY <1>9 DEF IInv, ForkOwnsChild
  <2>2. \A r \in Procs : kpc'[r] \in {"forkcopy", "forkadd"} =>
          state'[child[r]] = "EMBRYO" /\ parent'[child[r]] = parent[child[r]]
    BY <1>2, <1>3, <1>9, <2>1
  <2>3. \A r \in Procs : state'[r] = "UNUSED" => parent'[r] = NULL
    BY <1>2, <1>9 DEF IInv, ForkOwnsChild
  <2> QED BY <1>8, <2>1, <2>2, <2>3, ForkKept
<1>15. WaitersAreTold'
  <2> SUFFICES ASSUME NEW w \in Procs, state'[w] = "SLEEPING", kpc'[w] = "wait"
               PROVE  chan'[w] = w /\ Children(w)' # {} /\ Zombies(w)' = {}
    BY DEF WaitersAreTold
  <2>1. w # p /\ w \notin S /\ state[w] = "SLEEPING" /\ kpc[w] = "wait"
    BY <1>9
  <2>2. chan[w] = w /\ Children(w) # {} /\ Zombies(w) = {}
    BY <2>1 DEF IInv, WaitersAreTold
  <2>3. parent[p] # w /\ (w = InitProc => Zombies(p) = {})
    BY <2>1, <2>2 DEF ToldOfExit, S
  <2>4. ASSUME NEW z \in Procs, parent'[z] = w, state'[z] = "ZOMBIE" PROVE FALSE
    <3>1. CASE z = p
      BY <1>2, <1>9, <2>3, <2>4, <3>1 DEF IInv, InitIsAlive
    <3>2. CASE z # p /\ parent[z] = p
      BY <1>3, <1>9, <2>3, <2>4, <3>2 DEF Zombies, Children
    <3>3. CASE z # p /\ parent[z] # p
      BY <1>3, <1>9, <2>2, <2>4, <3>3 DEF Zombies, Children
    <3> QED BY <3>1, <3>2, <3>3
  <2>5. Children(w)' # {}
    <3>1. PICK r \in Procs : parent[r] = w
      BY <2>2 DEF Children
    <3>2. parent'[r] = w
      BY <1>9, <2>1, <3>1
    <3> QED BY <3>2 DEF Children
  <2> QED BY <1>8, <2>2, <2>4, <2>5 DEF Zombies, Children
<1>16. InitIsAlive'
  <2>1. Live(InitProc) /\ parent[InitProc] = NULL /\ \A r \in Procs : parent[r] # r
    BY DEF IInv, InitIsAlive
  <2>2. Live(InitProc)'
    BY <1>1, <1>9, <2>1, Basics DEF Live, p
  <2>3. parent'[InitProc] = NULL
    BY <1>2, <1>9, <2>1, Basics
  <2>4. \A r \in Procs : parent'[r] # r
    BY <1>2, <1>9, <2>1, Basics
  <2> QED BY <2>2, <2>3, <2>4 DEF InitIsAlive
<1> QED BY <1>10, <1>11, <1>12, <1>13, <1>14, <1>15, <1>16 DEF IInv, ListsCorrect

\* rq_select() returns a RUNNABLE process of its CPU before which nobody ranks, and takes
\* it from its list.
LEMMA SelectedFits ==
  ASSUME IInv, NEW c \in CPUs, Selected(q, c) # NULL
  PROVE  LET p == Selected(q, c) IN
         /\ p \in Procs /\ state[p] = "RUNNABLE" /\ cpu[p] = c
         /\ ListsHold(rq_select(q, c), Without(Places(state, priority), p))
         /\ \A r \in Procs : state[r] = "RUNNABLE" /\ cpu[r] = c =>
              Rank(priority[p]) <= Rank(priority[r])
<1> DEFINE w == Places(state, priority)
           p == Selected(q, c)
<1>1. /\ w \in [Procs -> AllPlaces] /\ ListsHold(q, w)
      /\ \A r \in Procs : w[r] = IF state[r] = "RUNNABLE" THEN <<cpu[r], priority[r]>> ELSE Nowhere
  BY TableIsGood, PlaceFacts DEF IInv
<1>2. priority \in [Procs -> Prios]
  BY DEF IInv, TypeOK
<1> HIDE DEF w
<1>3. PICK k \in Prios :
        /\ p \in Procs /\ w[p] = <<c, k>>
        /\ rq_select(q, c) = rq_remove(q, c, p, k)
        /\ \A x \in Procs, l \in Prios : w[x] = <<c, l>> => Rank(k) <= Rank(l)
  BY <1>1, SelectRemoves
<1> HIDE DEF p
<1>4. state[p] = "RUNNABLE" /\ cpu[p] = c /\ priority[p] = k
  BY <1>1, <1>3, Basics DEF Nowhere
<1>5. ListsHold(rq_remove(q, c, p, k), Without(w, p))
  BY <1>1, <1>3, RemoveKeepsLists
<1>6. \A r \in Procs : state[r] = "RUNNABLE" /\ cpu[r] = c => Rank(priority[p]) <= Rank(priority[r])
  BY <1>1, <1>2, <1>3, <1>4
<1> QED BY <1>3, <1>4, <1>5, <1>6 DEF p, w

\* The process that is started was on no CPU, and has not left exit() for good.
LEMMA runStep == ASSUME IInv, panicked = "none", NEW c \in CPUs, run(c) PROVE IInv'
<1> DEFINE p == Selected(q, c)
           x == IF kpc[p] = "slept" THEN "sys" ELSE kpc[p]
<1>1. /\ spc[c] = "select" /\ waiter = NoCpu /\ p # NULL
      /\ q' = rq_select(q, c)
      /\ proc' = [proc EXCEPT ![c] = p] /\ spc' = [spc EXCEPT ![c] = "busy"]
      /\ state' = [state EXCEPT ![p] = "RUNNING"]
      /\ chan' = [chan EXCEPT ![p] = IF kpc[p] \in {"wait", "slept"} THEN NULL ELSE chan[p]]
      /\ kpc' = [kpc EXCEPT ![p] = x]
      /\ waiter' = IF kpc[p] = "wait" THEN c ELSE NoCpu
      /\ panicked' = IF kpc[p] = "zombie" THEN "zombie exit" ELSE panicked
      /\ UNCHANGED <<pid, parent, killed, priority, wait_ticks, cpu, old, child, nextpid>>
  BY DEF run, Goto, LockFree
<1>2. /\ p \in Procs /\ state[p] = "RUNNABLE" /\ cpu[p] = c
      /\ ListsHold(rq_select(q, c), Without(Places(state, priority), p))
  BY <1>1, SelectedFits
<1> HIDE DEF p
<1>3. kpc[p] # "zombie" /\ panicked' = "none"
  BY <1>1, <1>2 DEF IInv, DeadStayDead
<1>4. x \in KernelPoints \ {"zombie"} /\ (x \in {"forkcopy", "forkadd"} => x = kpc[p])
  BY <1>2, <1>3 DEF IInv, TypeOK, KernelPoints
<1>5. ListsCorrect'
  <2>1. state' \in [Procs -> ProcStates] /\ priority' \in [Procs -> Prios]
    BY <1>1 DEF IInv, TypeOK, ProcStates
  <2>2. Places(state, priority)' = Without(Places(state, priority), p)
    BY <1>1, <1>2 DEF Places, Without, IInv, TypeOK
  <2>3. ListsHold(q', Places(state, priority)')
    BY <1>1, <1>2, <2>2
  <2>4. q' \in Queues
    BY <2>3 DEF ListsHold
  <2>5. IsAssigned'
    BY <1>1, <1>2 DEF IInv, TypeOK, IsAssigned
  <2> QED BY <2>1, <2>3, <2>4, <2>5 DEF ListsCorrect
<1> HIDE DEF x
<1>6. TypeOK'
  <2>1. kpc' \in [Procs -> KernelPoints] /\ chan' \in [Procs -> {NULL} \cup Procs \cup Chans]
    BY <1>1, <1>4 DEF IInv, TypeOK
  <2>2. /\ proc' \in [CPUs -> Procs \cup {NULL}] /\ spc' \in [CPUs -> SchedPoints]
        /\ waiter' \in CPUs \cup {NoCpu} /\ panicked' \in Panics
    BY <1>1, <1>2, <1>3 DEF IInv, TypeOK, SchedPoints, Panics
  <2> QED BY <1>1, <1>5, <2>1, <2>2 DEF IInv, TypeOK, ListsCorrect
<1>7. \A r \in Procs : /\ state'[r] = IF r = p THEN "RUNNING" ELSE state[r]
                       /\ kpc'[r] = IF r = p THEN x ELSE kpc[r]
                       /\ r # p => chan'[r] = chan[r]
  BY <1>1 DEF IInv, TypeOK
<1>8. \A d \in CPUs : /\ proc'[d] = IF d = c THEN p ELSE proc[d]
                      /\ spc'[d] = IF d = c THEN "busy" ELSE spc[d]
  BY <1>1 DEF IInv, TypeOK
<1>9. RunsOnce'
  <2>1. /\ p # NULL /\ proc[c] = NULL
        /\ \A d \in CPUs : proc[d] # p
    BY <1>1, <1>2, Basics DEF IInv, RunsOnce
  <2>2. ASSUME NEW r \in Procs PROVE state'[r] = "RUNNING" <=> \E d \in CPUs : proc'[d] = r
    <3>1. CASE r = p
      BY <1>7, <1>8, <3>1
    <3>2. CASE r # p
      <4>1. \A d \in CPUs : proc'[d] = r <=> proc[d] = r
        BY <1>8, <2>1, <3>2, Basics
      <4> QED BY <1>7, <3>2, <4>1 DEF IInv, RunsOnce
    <3> QED BY <3>1, <3>2
  <2>3. \A d \in CPUs : proc'[d] # NULL => cpu'[proc'[d]] = d
    <3>1. cpu' = cpu /\ \A d \in CPUs : proc[d] # NULL => cpu[proc[d]] = d
      BY <1>1 DEF IInv, RunsOnce
    <3> QED BY <1>2, <1>8, <3>1
  <2>4. \A d \in CPUs : spc'[d] = "busy" <=> proc'[d] # NULL
    BY <1>8, <2>1 DEF IInv, RunsOnce
  <2>5. \A d \in CPUs : waiter' = d => At(d, "wait")'
    <3>1. \A d \in CPUs : waiter' = d => d = c /\ kpc[p] = "wait"
      BY <1>1, Basics
    <3>2. kpc[p] = "wait" => spc'[c] = "busy" /\ kpc'[proc'[c]] = "wait"
      BY <1>2, <1>7, <1>8 DEF x
    <3> QED BY <3>1, <3>2 DEF At
  <2> QED BY <2>2, <2>3, <2>4, <2>5 DEF RunsOnce
<1>10. DeadStayDead'
  BY <1>3, <1>4, <1>7 DEF IInv, DeadStayDead
<1>11. ForkOwnsChild'
  <2>1. \A r \in Procs : kpc[r] \in {"forkcopy", "forkadd"} =>
          child[r] \in Procs /\ child[r] # p /\ state[child[r]] = "EMBRYO"
    BY <1>2 DEF IInv, ForkOwnsChild
  <2>2. \A r \in Procs : kpc'[r] \in {"forkcopy", "forkadd"} => kpc'[r] = kpc[r]
    BY <1>4, <1>7
  <2>3. \A r \in Procs : kpc[r] \in {"forkcopy", "forkadd"} => state'[child[r]] = "EMBRYO"
    BY <1>7, <2>1
  <2>4. child' = child /\ parent' = parent
    BY <1>1
  <2>5. \A r \in Procs : state'[r] = "UNUSED" => parent'[r] = NULL
    BY <1>7, <2>4 DEF IInv, ForkOwnsChild
  <2> QED BY <2>2, <2>3, <2>4, <2>5, ForkKept
<1>12. WaitersAreTold'
  <2>1. \A r \in Procs : state'[r] = "SLEEPING" /\ kpc'[r] = "wait" =>
          state[r] = "SLEEPING" /\ kpc[r] = "wait" /\ chan'[r] = chan[r]
    BY <1>7
  <2>2. parent' = parent
    BY <1>1
  <2>3. \A r \in Procs : state'[r] = "ZOMBIE" => state[r] = "ZOMBIE"
    BY <1>7
  <2> QED BY <2>1, <2>2, <2>3, WaitersKept
<1>13. InitIsAlive'
  <2>1. state[InitProc] \in {"RUNNABLE", "RUNNING", "SLEEPING"}
    BY DEF IInv, InitIsAlive, Live
  <2> QED BY <1>1, <1>7, <2>1, Basics, InitKept
<1> QED BY <1>5, <1>6, <1>9, <1>10, <1>11, <1>12, <1>13 DEF IInv, ListsCorrect

-------------------------------------------------------------------------------
(* The theorems on the invariant. *)

LEMMA NextInv == IInv /\ [Next /\ ~ WakeupLifts]_vars => IInv'
<1> SUFFICES ASSUME IInv, [Next /\ ~ WakeupLifts]_vars PROVE IInv'
  OBVIOUS
<1>1. ASSUME panicked = "none", ~ WakeupLifts, NEW c \in CPUs, CpuStep(c) PROVE IInv'
  <2>1. CASE Trap(c) \/ sysReturns(c) \/ sys_exit(c) \/ waitFails(c)
    BY <2>1, MoveStep
  <2>2. CASE yield(c) \/ waitSleeps(c) \/ \E ch \in Chans : sleep(c, ch)
    BY <2>2, LeaveStep
  <2>3. CASE allocproc(c) \/ forkFails(c) \/ forkCopies(c) \/ forkAdds(c)
    BY <2>3, allocprocStep, forkFailsStep, forkCopiesStep, forkAddsStep
  <2>4. CASE \E n \in PidArgs : kill(c, n)
    BY <2>4, killStep
  <2>5. CASE \E n \in PidArgs, k \in PriorityArgs : sys_setpriority(c, n, k)
    BY <2>5, setpriorityStep
  <2>6. CASE exit(c) \/ initExits(c) \/ waitReaps(c)
    BY <1>1, <2>6, exitStep, initExitsStep, waitReapsStep
  <2>7. CASE update_priorities(c) \/ run(c) \/ idle(c)
    BY <1>1, <2>7, updateStep, runStep, idleStep
  <2> QED BY <1>1, <2>1, <2>2, <2>3, <2>4, <2>5, <2>6, <2>7 DEF CpuStep
<1>2. ASSUME NEW ch \in Chans, wakeup(ch), ~ WakeupLifts PROVE IInv'
  BY <1>2, wakeupStep
<1>3. ASSUME NEW p \in Procs, growOld(p) PROVE IInv'
  BY <1>3, growOldStep
<1>4. CASE UNCHANGED vars
  <2>1. UNCHANGED <<state, pid, parent, killed, chan, priority, wait_ticks, cpu, old, kpc, child,
                    nextpid, q, proc, spc, waiter, panicked>>
    BY <1>4 DEF vars, procVars
  <2>2. TypeOK'
    BY <2>1 DEF IInv, TypeOK
  <2>3. ListsCorrect'
    <3>1. state \in [Procs -> ProcStates] /\ IsAssigned
      BY DEF IInv, TypeOK
    <3> QED BY <2>1, <3>1, ListsUntouched DEF IsAssigned
  <2>4. RunsOnce'
    BY <2>1, CpusKept
  <2>5. DeadStayDead' /\ ForkOwnsChild'
    BY <2>1 DEF IInv, DeadStayDead, ForkOwnsChild
  <2>6. WaitersAreTold'
    BY <2>1, WaitersKept
  <2>7. InitIsAlive'
    BY <2>1, InitKept DEF IInv, InitIsAlive, Live
  <2> QED BY <2>2, <2>3, <2>4, <2>5, <2>6, <2>7 DEF IInv, ListsCorrect
<1> QED BY <1>1, <1>2, <1>3, <1>4 DEF Next

\* Until wakeup1() lifts somebody, the inductive invariant holds in every reachable state, on
\* any number of CPUs, for lists of any length.
THEOREM IInvHolds == SpecNoLift => []IInv
<1> QED BY InitInv, NextInv, PTL DEF SpecNoLift

LEMMA QueuesAgree == ASSUME IInv PROVE QueueMatchesState
<1> DEFINE w == Places(state, priority)
<1>1. ListsHold(q, w) /\ \A c \in CPUs : q.count[c] = Cardinality(Counted(w, c))
  BY DEF IInv, ListsHold
<1>2. \A r \in Procs : w[r] = IF state[r] = "RUNNABLE" THEN <<cpu[r], priority[r]>> ELSE Nowhere
  BY TableIsGood, PlaceFacts
<1> HIDE DEF w
<1> SUFFICES ASSUME NEW c \in CPUs
             PROVE  /\ \A k \in Prios :
                         /\ Ends(q, c, k)
                         /\ ListMembers(q, c, k) = Queued(c, k)
                         /\ IF Queued(c, k) = {} THEN q.tail[c][k] = NULL
                            ELSE q.tail[c][k] \in Queued(c, k) /\ q.next[q.tail[c][k]] = NULL
                    /\ q.count[c] = Cardinality({p \in Procs : state[p] = "RUNNABLE" /\ cpu[p] = c})
  BY DEF QueueMatchesState
<1>3. ASSUME NEW k \in Prios
      PROVE  /\ Ends(q, c, k)
             /\ ListMembers(q, c, k) = Queued(c, k)
             /\ IF Queued(c, k) = {} THEN q.tail[c][k] = NULL
                ELSE q.tail[c][k] \in Queued(c, k) /\ q.next[q.tail[c][k]] = NULL
  <2>1. Listed(w, c, k) = Queued(c, k)
    <3>1. ASSUME NEW r \in Procs
          PROVE  w[r] = <<c, k>> <=> state[r] = "RUNNABLE" /\ cpu[r] = c /\ priority[r] = k
      <4>1. CASE state[r] = "RUNNABLE"
        <5>1. w[r] = <<cpu[r], priority[r]>>
          BY <1>2, <4>1
        <5> QED BY <4>1, <5>1
      <4>2. CASE state[r] # "RUNNABLE"
        <5>1. w[r] = Nowhere /\ NoCpu # c
          BY <1>2, <4>2, Basics
        <5> QED BY <4>2, <5>1 DEF Nowhere
      <4> QED BY <4>1, <4>2
    <3> QED BY <3>1 DEF Listed, Queued
  <2>2. /\ Ends(q, c, k)
        /\ ListMembers(q, c, k) = Listed(w, c, k)
        /\ IF Listed(w, c, k) = {} THEN q.head[c][k] = NULL /\ q.tail[c][k] = NULL
           ELSE /\ q.head[c][k] \in Listed(w, c, k)
                /\ q.tail[c][k] \in Listed(w, c, k)
                /\ q.next[q.tail[c][k]] = NULL
    BY <1>1, ListFacts
  <2> QED BY <2>1, <2>2
<1>4. Counted(w, c) = {p \in Procs : state[p] = "RUNNABLE" /\ cpu[p] = c}
  <2>1. ASSUME NEW r \in Procs PROVE w[r][1] = c <=> state[r] = "RUNNABLE" /\ cpu[r] = c
    <3>1. CASE state[r] = "RUNNABLE"
      <4>1. w[r] = <<cpu[r], priority[r]>>
        BY <1>2, <3>1
      <4> QED BY <3>1, <4>1
    <3>2. CASE state[r] # "RUNNABLE"
      <4>1. w[r] = Nowhere /\ NoCpu # c
        BY <1>2, <3>2, Basics
      <4> QED BY <3>2, <4>1 DEF Nowhere
    <3> QED BY <3>1, <3>2
  <2> QED BY <2>1 DEF Counted
<1> QED BY <1>1, <1>3, <1>4

\* Whatever the number of processes, CPUs and priorities: until wakeup1() lifts somebody, every
\* list ends, holds exactly the RUNNABLE processes of its CPU and priority and has its tail at
\* the end, the counts are right, no panic of the scheduler is reached, a RUNNING process is the
\* current one of its CPU, and wait() misses no child.
THEOREM ProcessesCorrect == SpecNoLift => []StaysConsistent
<1>1. IInv => StaysConsistent
  <2> SUFFICES ASSUME IInv PROVE StaysConsistent
    OBVIOUS
  <2>1. TypeOK /\ QueueMatchesState
    BY QueuesAgree DEF IInv
  <2>2. CpuMatchesState
    <3>1. \A c \in CPUs : waiter = c => proc[c] # NULL /\ kpc[proc[c]] = "wait"
      BY CurrentProcess DEF IInv, RunsOnce, At
    <3> QED BY <3>1 DEF IInv, RunsOnce, CpuMatchesState
  <2>3. NoPanic
    BY DEF IInv, DeadStayDead, ListsHold, NoPanic
  <2>4. NoZombieMissed
    BY DEF IInv, WaitersAreTold, NoZombieMissed
  <2> QED BY <2>1, <2>2, <2>3, <2>4 DEF StaysConsistent
<1> QED BY <1>1, IInvHolds, PTL

\* A CPU gets a process only from scheduler(), which took it from rq_select().
LEMMA StepPicksBest ==
  ASSUME IInv, Next, NEW c \in CPUs, proc[c] = NULL, proc'[c] # NULL,
         NEW p \in Procs, state[p] = "RUNNABLE", cpu[p] = c
  PROVE  Rank(priority[proc'[c]]) <= Rank(priority[p])
<1>1. proc \in [CPUs -> Procs \cup {NULL}]
  BY DEF IInv, TypeOK
<1>2. PICK d \in CPUs : run(d)
  <2>1. proc' # proc /\ \A d \in CPUs : ~ SwitchToScheduler(d)
    BY <1>1 DEF SwitchToScheduler
  <2>2. \A d \in CPUs : CpuStep(d) => run(d)
    BY <2>1, ZenonT(60) DEF CpuStep, Trap, sysReturns, yield, allocproc, forkFails, forkCopies, forkAdds,
                sleep, SleepOn, kill, sys_exit, exit, initExits, waitReaps, waitFails, waitSleeps,
                sys_setpriority, update_priorities, idle
  <2>3. /\ \A ch \in Chans : ~ wakeup(ch)
        /\ \A r \in Procs : ~ growOld(r)
    BY <2>1 DEF wakeup, growOld
  <2> QED BY <2>2, <2>3 DEF Next
<1>3. Selected(q, d) # NULL /\ proc' = [proc EXCEPT ![d] = Selected(q, d)]
  BY <1>2 DEF run
<1>4. d = c /\ proc'[c] = Selected(q, c)
  BY <1>1, <1>3
<1> QED BY <1>3, <1>4, SelectedFits

\* Until wakeup1() lifts somebody, scheduler() starts the first in rank of the RUNNABLE processes
\* of its CPU, though priorities change while they wait.
THEOREM PicksBestHolds == SpecNoLift => PicksBest
<1>1. IInv /\ [Next /\ ~ WakeupLifts]_vars =>
        [\A c \in CPUs : proc[c] = NULL /\ proc'[c] # NULL =>
           \A p \in Procs : state[p] = "RUNNABLE" /\ cpu[p] = c =>
             Rank(priority[proc'[c]]) <= Rank(priority[p])]_vars
  BY StepPicksBest
<1> QED BY <1>1, IInvHolds, PTL DEF SpecNoLift, PicksBest

-------------------------------------------------------------------------------
(* The priority kernel implements ProcLifecycle.  Its lists, priorities and ages do not show. *)

LEMMA LifecycleInit == Init => Lifecycle!Init
  BY DEF Init, Lifecycle!Init

\* What the abstract specification sees of a process that leaves its CPU alive.
LEMMA LeaveRefines ==
  ASSUME IInv, NEW c \in CPUs, spc[c] = "busy", NEW to \in {"RUNNABLE", "SLEEPING"},
         state' = [state EXCEPT ![proc[c]] = to],
         SwitchToScheduler(c), parent' = parent
  PROVE  Lifecycle!Next
<1>1. proc[c] \in Procs /\ proc[c] # NULL /\ state[proc[c]] = "RUNNING"
  BY CurrentProcess
<1>2. Lifecycle!Leave(c, to)
  BY <1>1 DEF Lifecycle!Leave, Lifecycle!Move, SwitchToScheduler
<1> QED BY <1>2 DEF Lifecycle!Next

\* What it sees of processes that are woken, by wakeup(), kill() or the scheduler.
LEMMA WakeRefines ==
  ASSUME NEW S \in SUBSET Procs, \A p \in S : state[p] = "SLEEPING",
         state' = [p \in Procs |-> IF p \in S THEN "RUNNABLE" ELSE state[p]],
         UNCHANGED <<parent, proc>>
  PROVE  Lifecycle!Next
<1>1. Lifecycle!Wake(S)
  BY DEF Lifecycle!Wake
<1> QED BY <1>1 DEF Lifecycle!Next

\* What it sees of fork().
LEMMA ForkRefines ==
  ASSUME IInv, NEW c \in CPUs, allocproc(c) \/ forkFails(c) \/ forkCopies(c) \/ forkAdds(c)
  PROVE  Lifecycle!Next
<1>1. CASE allocproc(c)
  <2> DEFINE free == {r \in Procs : state[r] = "UNUSED"}
             np == Min(free)
  <2>1. /\ spc[c] = "busy" /\ free # {} /\ state' = [state EXCEPT ![np] = "EMBRYO"]
        /\ UNCHANGED <<parent, proc>>
    BY <1>1 DEF allocproc, At
  <2>2. np \in Procs /\ state[np] = "UNUSED"
    BY <2>1, ScanFinds
  <2>3. proc[c] # NULL
    BY <2>1, CurrentProcess
  <2> HIDE DEF np
  <2>4. Lifecycle!Claim(c, np)
    BY <2>1, <2>2, <2>3 DEF Lifecycle!Claim, Lifecycle!Move
  <2> QED BY <2>2, <2>4 DEF Lifecycle!Next
<1>2. CASE forkFails(c) \/ forkCopies(c) \/ forkAdds(c)
  <2> DEFINE p == proc[c]
             np == child[p]
  <2>1. spc[c] = "busy" /\ kpc[p] \in {"forkcopy", "forkadd"} /\ proc' = proc
    BY <1>2 DEF forkFails, forkCopies, forkAdds, At
  <2>2. p \in Procs /\ p # NULL
    BY <2>1, CurrentProcess
  <2>3. /\ np \in Procs /\ state[np] = "EMBRYO"
        /\ parent[np] = IF kpc[p] = "forkcopy" THEN NULL ELSE p
    BY <2>1, <2>2, OwnChild
  <2>4. CASE forkFails(c)
    <3>1. /\ kpc[p] = "forkcopy" /\ state' = [state EXCEPT ![np] = "UNUSED"]
          /\ parent' = parent
      BY <2>4 DEF forkFails, At, procVars
    <3> HIDE DEF np
    <3>2. Lifecycle!Abandon(c, np)
      BY <2>1, <2>2, <2>3, <3>1 DEF Lifecycle!Abandon, Lifecycle!Move
    <3> QED BY <2>3, <3>2 DEF Lifecycle!Next
  <2>5. CASE forkCopies(c)
    <3>1. /\ kpc[p] = "forkcopy" /\ parent' = [parent EXCEPT ![np] = p] /\ state' = state
      BY <2>5 DEF forkCopies, At
    <3> HIDE DEF np
    <3>2. Lifecycle!Own(c, np)
      BY <2>1, <2>2, <2>3, <3>1 DEF Lifecycle!Own
    <3> QED BY <2>3, <3>2 DEF Lifecycle!Next
  <2>6. CASE forkAdds(c)
    <3>1. /\ kpc[p] = "forkadd" /\ state' = [state EXCEPT ![np] = "RUNNABLE"]
          /\ parent' = parent
      BY <2>6 DEF forkAdds, At
    <3> HIDE DEF np
    <3>2. Lifecycle!Publish(c, np)
      BY <2>1, <2>2, <2>3, <3>1 DEF Lifecycle!Publish, Lifecycle!Move
    <3> QED BY <2>3, <3>2 DEF Lifecycle!Next
  <2> QED BY <1>2, <2>4, <2>5, <2>6
<1> QED BY <1>1, <1>2

\* exit() wakes, hands over and dies in one critical section.
LEMMA ExitRefines == ASSUME IInv, NEW c \in CPUs, exit(c), ~ WakeupLifts PROVE Lifecycle!Next
<1> DEFINE p == proc[c]
           t == ExitWakes(p)
           S == ToldOfExit(p)
<1>1. /\ spc[c] = "busy" /\ p # InitProc /\ SwitchToScheduler(c)
      /\ state' = [t.state EXCEPT ![p] = "ZOMBIE"]
      /\ parent' = [r \in Procs |-> IF parent[r] = p THEN InitProc ELSE parent[r]]
  BY DEF exit, At, Install
<1>2. p \in Procs /\ p # NULL /\ state[p] = "RUNNING"
  BY <1>1, CurrentProcess
<1>3. S \in SUBSET Procs /\ \A r \in S : state[r] = "SLEEPING"
  BY DEF ToldOfExit
<1>4. /\ TableGood(t)
      /\ \A r \in Procs : t.state[r] = IF r \in S THEN "RUNNABLE" ELSE state[r]
  BY ExitTable
<1> HIDE DEF p, S, t
<1>5. t.state \in [Procs -> ProcStates]
  BY <1>4 DEF TableGood
<1>6. state' = [r \in Procs |-> IF r = p THEN "ZOMBIE"
                                ELSE IF r \in S THEN "RUNNABLE" ELSE state[r]]
  BY <1>1, <1>4, <1>5
<1>7. Lifecycle!Die(c, S)
  BY <1>1, <1>2, <1>3, <1>6 DEF Lifecycle!Die, SwitchToScheduler, p
<1> QED BY <1>3, <1>7 DEF Lifecycle!Next

LEMMA ReapRefines == ASSUME IInv, NEW c \in CPUs, waitReaps(c) PROVE Lifecycle!Next
<1> DEFINE p == proc[c]
           z == Min(Zombies(p))
<1>1. /\ spc[c] = "busy" /\ Zombies(p) # {} /\ state' = [state EXCEPT ![z] = "UNUSED"]
      /\ parent' = [parent EXCEPT ![z] = NULL] /\ proc' = proc
  BY DEF waitReaps, InWait, At
<1>2. p # NULL
  BY <1>1, CurrentProcess
<1>3. z \in Procs /\ state[z] = "ZOMBIE" /\ parent[z] = p
  BY <1>1, ReapedIsChild
<1> HIDE DEF z
<1>4. Lifecycle!Reap(c, z)
  BY <1>1, <1>2, <1>3 DEF Lifecycle!Reap, Lifecycle!Move
<1> QED BY <1>3, <1>4 DEF Lifecycle!Next

LEMMA RunRefines == ASSUME IInv, NEW c \in CPUs, run(c) PROVE Lifecycle!Next
<1> DEFINE p == Selected(q, c)
<1>1. /\ spc[c] = "select" /\ p # NULL /\ proc' = [proc EXCEPT ![c] = p]
      /\ state' = [state EXCEPT ![p] = "RUNNING"] /\ parent' = parent
  BY DEF run
<1>2. p \in Procs /\ state[p] = "RUNNABLE"
  BY <1>1, SelectedFits
<1>3. proc[c] = NULL
  BY <1>1 DEF IInv, RunsOnce
<1> HIDE DEF p
<1>4. Lifecycle!Dispatch(c, p)
  BY <1>1, <1>2, <1>3 DEF Lifecycle!Dispatch, Lifecycle!Move
<1> QED BY <1>2, <1>4 DEF Lifecycle!Next

LEMMA KillRefines == ASSUME IInv, NEW c \in CPUs, NEW n, kill(c, n) PROVE Lifecycle!Next
<1> DEFINE found == {r \in Procs : pid[r] = n}
           v == Min(found)
           S == {r \in {v} : state[r] = "SLEEPING"}
           t == Rouse(Table, v)
<1>1. found # {} /\ UNCHANGED <<parent, proc>> /\ state' = t.state
  BY DEF kill, Install
<1>2. /\ v \in Procs /\ TableGood(t)
      /\ \A r \in Procs : t.state[r] =
           IF r = v /\ state[v] = "SLEEPING" THEN "RUNNABLE" ELSE state[r]
  BY <1>1, KillTable
<1> HIDE DEF v, t
<1>3. S \in SUBSET Procs /\ \A r \in S : state[r] = "SLEEPING"
  BY <1>2
<1>4. t.state \in [Procs -> ProcStates]
  BY <1>2 DEF TableGood
<1>5. state' = [r \in Procs |-> IF r \in S THEN "RUNNABLE" ELSE state[r]]
  BY <1>1, <1>2, <1>4
<1> HIDE DEF S
<1> QED BY <1>1, <1>3, <1>5, WakeRefines

\* The scheduler wakes the sleepers that are too old.
LEMMA UpdateRefines == ASSUME IInv, NEW c \in CPUs, update_priorities(c) PROVE Lifecycle!Next
<1> DEFINE S == {r \in Procs : TooOld(r) /\ state[r] = "SLEEPING"}
           t == Scan(UpdatePriority, Table)
<1>1. state' = t.state /\ UNCHANGED <<parent, proc>>
  BY DEF update_priorities, Install
<1>2. TableGood(Table) /\ Table.state = state
  BY TableIsGood
<1>3. /\ TableGood(t)
      /\ \A r \in Procs : t.state[r] =
           IF TooOld(r) /\ Table.state[r] = "SLEEPING" THEN "RUNNABLE" ELSE Table.state[r]
  BY <1>2, UpdateKeeps
<1> HIDE DEF t
<1>4. t.state \in [Procs -> ProcStates]
  BY <1>3 DEF TableGood
<1>5. \A r \in Procs : t.state[r] = IF r \in S THEN "RUNNABLE" ELSE state[r]
  BY <1>2, <1>3
<1>6. S \in SUBSET Procs /\ \A r \in S : state[r] = "SLEEPING"
  OBVIOUS
<1> HIDE DEF S
<1>7. state' = [r \in Procs |-> IF r \in S THEN "RUNNABLE" ELSE state[r]]
  BY <1>1, <1>4, <1>5
<1> QED BY <1>1, <1>6, <1>7, WakeRefines

LEMMA StepRefines == IInv /\ [Next /\ ~ WakeupLifts]_vars => [Lifecycle!Next]_(Lifecycle!vars)
<1> SUFFICES ASSUME IInv, [Next /\ ~ WakeupLifts]_vars PROVE [Lifecycle!Next]_(Lifecycle!vars)
  OBVIOUS
<1> USE DEF Lifecycle!vars
<1>1. ASSUME UNCHANGED <<state, parent, proc>> PROVE [Lifecycle!Next]_(Lifecycle!vars)
  BY <1>1
<1>2. ASSUME ~ WakeupLifts, NEW c \in CPUs, CpuStep(c)
      PROVE  [Lifecycle!Next]_(Lifecycle!vars)
  <2>1. CASE Trap(c) \/ sysReturns(c) \/ sys_exit(c) \/ waitFails(c) \/ initExits(c) \/ idle(c)
    BY <1>1, <2>1 DEF Trap, sysReturns, sys_exit, waitFails, initExits, idle, procVars
  <2>2. CASE yield(c)
    BY <2>2, LeaveRefines DEF yield, procVars
  <2>3. CASE waitSleeps(c) \/ \E ch \in Chans : sleep(c, ch)
    <3>1. /\ spc[c] = "busy" /\ state' = [state EXCEPT ![proc[c]] = "SLEEPING"]
          /\ SwitchToScheduler(c) /\ parent' = parent
      BY <2>3 DEF waitSleeps, InWait, sleep, SleepOn, At
    <3> QED BY <3>1, LeaveRefines
  <2>4. CASE allocproc(c) \/ forkFails(c) \/ forkCopies(c) \/ forkAdds(c)
    BY <2>4, ForkRefines
  <2>5. CASE \E n \in PidArgs : kill(c, n)
    BY <2>5, KillRefines
  <2>6. CASE exit(c) \/ waitReaps(c) \/ run(c) \/ update_priorities(c)
    BY <1>2, <2>6, ExitRefines, ReapRefines, RunRefines, UpdateRefines
  <2>7. ASSUME NEW n \in PidArgs, NEW k \in PriorityArgs, sys_setpriority(c, n, k)
        PROVE  [Lifecycle!Next]_(Lifecycle!vars)
    <3> DEFINE v == Min({r \in Procs : pid[r] = n})
    <3>1. /\ {r \in Procs : pid[r] = n} # {} /\ UNCHANGED <<parent, proc>>
          /\ state' = Requeue(Table, v, k).state
      BY <2>7 DEF sys_setpriority, Install, procVars
    <3>2. v \in Procs /\ k \in Prios
      BY <3>1, ScanFinds, PrioSchedAssumption
    <3> HIDE DEF v
    <3>3. state' = state
      BY <3>1, <3>2, TableIsGood, RequeueKeeps
    <3> QED BY <1>1, <3>1, <3>3
  <2> QED BY <1>2, <2>1, <2>2, <2>3, <2>4, <2>5, <2>6, <2>7 DEF CpuStep
<1>3. ASSUME ~ WakeupLifts, NEW ch \in Chans, wakeup(ch)
      PROVE  [Lifecycle!Next]_(Lifecycle!vars)
  <2> DEFINE S == {r \in Procs : Sleeping(r, ch)}
  <2>1. state' = [r \in Procs |-> IF r \in S THEN "RUNNABLE" ELSE state[r]]
    BY <1>3, WokenStates
  <2>2. S \in SUBSET Procs /\ \A r \in S : state[r] = "SLEEPING"
    BY DEF Sleeping
  <2>3. UNCHANGED <<parent, proc>>
    BY <1>3 DEF wakeup, procVars
  <2> HIDE DEF S
  <2> QED BY <2>1, <2>2, <2>3, WakeRefines
<1>4. ASSUME NEW p \in Procs, growOld(p) PROVE [Lifecycle!Next]_(Lifecycle!vars)
  BY <1>1, <1>4 DEF growOld
<1>5. CASE UNCHANGED vars
  BY <1>1, <1>5 DEF vars, procVars
<1> QED BY <1>2, <1>3, <1>4, <1>5 DEF Next

\* Every behaviour of the priority kernel is a life of processes, until wakeup1() lifts somebody.
THEOREM LifecycleImplemented == SpecNoLift => RefinesLifecycle
<1>1. Init => Lifecycle!Init
  BY LifecycleInit
<1>2. IInv /\ [Next /\ ~ WakeupLifts]_vars => [Lifecycle!Next]_(Lifecycle!vars)
  BY StepRefines
<1> QED BY <1>1, <1>2, IInvHolds, PTL DEF SpecNoLift, RefinesLifecycle, Lifecycle!Spec
===============================================================================
