----------------------------- MODULE MemoryProofs -----------------------------
(***************************************************************************)
(* Physical pages and address spaces, for every number of processes and    *)
(* pages and every size of a page: IInv is inductive, and                  *)
(* MemoryIsConsistent follows from it, wherever memory runs out.           *)
(***************************************************************************)
EXTENDS Memory, WellFoundedInduction, TLAPS

-------------------------------------------------------------------------------
(* Bytes and pages. *)

\* A scan returns the first page of those that it looks for.
LEMMA FirstIsMember ==
  ASSUME NEW S \in SUBSET Nat, S # {}
  PROVE  Min(S) \in S /\ \A y \in S : Min(S) <= y
<1> DEFINE R == OpToRel(<, Nat)
<1>1. IsWellFoundedOn(R, Nat)
  BY NatLessThanWellFounded, Zenon
<1>2. \A x, y \in Nat : y < x => <<y, x>> \in R
  BY Zenon DEF OpToRel
<1> HIDE DEF R
<1>3. PICK x \in S : \A y \in S : ~ (<<y, x>> \in R)
  BY <1>1, WFMin
<1>4. \A y \in S : ~ (y < x)
  BY <1>2, <1>3, Zenon
<1>5. \E z \in S : \A y \in S : z <= y
  BY <1>4
<1> QED BY <1>5 DEF Min

LEMMA Constants ==
  /\ PGSIZE \in Nat \ {0} /\ NPT * NPTE \in Nat \ {0}
  /\ Size \in Nat /\ Size = (NPT * NPTE) * PGSIZE /\ PGSIZE < Size
  /\ NPTE \in Nat \ {0} /\ NPT \in Nat \ {0} /\ NKPT \in Nat \ {0} /\ WORD \in Nat /\ WORD > 2 * Size
  /\ initproc \in Procs
<1>1. NPT * NPTE \in Nat \ {0}
  BY MemoryAssumption
<1>2. (NPT * NPTE) * PGSIZE \in Nat
  BY <1>1, MemoryAssumption
<1>3. initproc \in Procs
  BY MemoryAssumption DEF initproc, Procs
<1> QED BY <1>1, <1>2, <1>3, MemoryAssumption DEF Size

LEMMA Order ==
  ASSUME NEW j \in Nat, NEW k \in Nat
  PROVE  /\ j * PGSIZE \in Nat
         /\ j * PGSIZE < k * PGSIZE <=> j < k
<1>1. PGSIZE \in Nat \ {0}
  BY Constants
<1>2. j * PGSIZE \in Nat
  BY <1>1
<1>3. ASSUME j < k PROVE j * PGSIZE < k * PGSIZE
  <2>1. PICK d \in Nat : k = j + 1 + d
    <3>1. k - j - 1 \in Nat /\ k = j + 1 + (k - j - 1)
      BY <1>3
    <3> QED BY <3>1
  <2>2. k * PGSIZE = j * PGSIZE + PGSIZE + d * PGSIZE
    BY <1>1, <2>1
  <2>3. d * PGSIZE \in Nat
    BY <1>1
  <2> QED BY <1>1, <1>2, <2>2, <2>3
<1>4. ASSUME k <= j PROVE k * PGSIZE <= j * PGSIZE
  <2>1. PICK d \in Nat : j = k + d
    <3>1. j - k \in Nat /\ j = k + (j - k)
      BY <1>4
    <3> QED BY <3>1
  <2>2. j * PGSIZE = k * PGSIZE + d * PGSIZE
    BY <1>1, <2>1
  <2>3. d * PGSIZE \in Nat /\ k * PGSIZE \in Nat
    BY <1>1
  <2> QED BY <2>2, <2>3
<1>5. k * PGSIZE \in Nat
  BY <1>1
<1> QED BY <1>2, <1>3, <1>4, <1>5

\* PGROUNDUP(n) is the first page that does not begin below n.
LEMMA RoundsUp ==
  ASSUME NEW n \in Nat
  PROVE  /\ PageUp(n) \in Nat
         /\ \A k \in Nat : k < PageUp(n) <=> k * PGSIZE < n
<1>1. PGSIZE \in Nat \ {0}
  BY Constants
<1> DEFINE d == PageUp(n)
<1>2. d \in Nat /\ d * PGSIZE <= n + PGSIZE - 1 /\ n + PGSIZE - 1 < d * PGSIZE + PGSIZE
  BY <1>1 DEF PageUp
<1> HIDE DEF d
<1>3. ASSUME NEW k \in Nat PROVE k < d <=> k * PGSIZE < n
  <2>1. CASE k < d
    <3>1. PICK e \in Nat : d = k + 1 + e
      <4>1. d - k - 1 \in Nat /\ d = k + 1 + (d - k - 1)
        BY <1>2, <2>1
      <4> QED BY <4>1
    <3>2. d * PGSIZE = k * PGSIZE + PGSIZE + e * PGSIZE
      BY <1>1, <3>1
    <3>3. e * PGSIZE \in Nat /\ k * PGSIZE \in Nat
      BY <1>1
    <3> QED BY <1>1, <1>2, <2>1, <3>2, <3>3
  <2>2. CASE d <= k
    <3>1. k * PGSIZE >= d * PGSIZE
      BY <1>2, <2>2, Order
    <3>2. d * PGSIZE >= n /\ d * PGSIZE \in Nat /\ k * PGSIZE \in Nat
      BY <1>1, <1>2, Order
    <3> QED BY <1>2, <2>2, <3>1, <3>2
  <2> QED BY <1>2, <2>1, <2>2
<1> QED BY <1>2, <1>3 DEF d

LEMMA WholePages ==
  ASSUME NEW k \in Nat
  PROVE  Virtual(k * PGSIZE) = k /\ PageUp(k * PGSIZE) = k
<1>1. PGSIZE \in Nat \ {0} /\ k * PGSIZE \in Nat
  BY Constants, Order
<1>2. PageUp(k * PGSIZE) = k
  <2>1. PageUp(k * PGSIZE) \in Nat /\ \A j \in Nat : j < PageUp(k * PGSIZE) <=> j < k
    BY <1>1, RoundsUp, Order
  <2> QED BY <2>1
<1>3. Virtual(k * PGSIZE) = k
  <2> DEFINE d == (k * PGSIZE) \div PGSIZE
  <2>1. d \in Nat /\ d * PGSIZE <= k * PGSIZE /\ k * PGSIZE < d * PGSIZE + PGSIZE
    BY <1>1
  <2> HIDE DEF d
  <2>2. (d + 1) * PGSIZE = d * PGSIZE + PGSIZE
    BY <1>1, <2>1
  <2>3. ~(k < d) /\ ~(d + 1 <= k)
    BY <1>1, <2>1, <2>2, Order
  <2>4. d = k
    BY <2>1, <2>3
  <2> QED BY <2>4 DEF d, Virtual
<1> QED BY <1>2, <1>3

\* Sizes below KERNBASE are of pages that an address space has.
LEMMA PagesFit ==
  ASSUME NEW k \in Nat, NEW n \in 0 .. Size - 1, k * PGSIZE < n
  PROVE  k \in VPages
<1>1. k * PGSIZE < (NPT * NPTE) * PGSIZE
  BY Constants, Order
<1>2. k < NPT * NPTE
  BY <1>1, Constants, Order
<1> QED BY <1>2, Constants DEF VPages

-------------------------------------------------------------------------------
(* Where pages go. *)

Pool == /\ free \subseteq Pages
        /\ own \in [Places -> Pages \cup {None}]
        /\ PagesPartitioned

LEMMA PlaceOf ==
  ASSUME NEW p \in Procs, NEW s \in Slots
  PROVE  <<p, s>> \in Places
BY DEF Places

LEMMA PlacesArePairs ==
  ASSUME NEW h \in Places
  PROVE  \E p \in Procs, s \in Slots : h = <<p, s>>
BY DEF Places

LEMMA NoPage == None \notin Pages
BY DEF None, Pages

\* kalloc()
LEMMA TakeKeeps ==
  ASSUME Pool, NEW p \in Procs, NEW s \in Slots, free # {}, ~Has(p, s), Take(p, s)
  PROVE  /\ Pool'
         /\ \A q \in Procs, t \in Slots : Has(q, t)' <=> Has(q, t) \/ (q = p /\ t = s)
<1> DEFINE h == <<p, s>>
           x == CHOOSE x \in free : TRUE
<1>1. h \in Places /\ own[h] = None
  BY PlaceOf DEF Has
<1>2. x \in free /\ x \in Pages /\ x # None
  BY NoPage DEF Pool
<1>3. own' = [own EXCEPT ![h] = x] /\ free' = free \ {x}
  BY DEF Take
<1> HIDE DEF h, x
<1>4. \A k \in Places : own'[k] = IF k = h THEN x ELSE own[k]
  BY <1>1, <1>3 DEF Pool
<1>5. \A k \in Places : own[k] # x
  <2> SUFFICES ASSUME NEW k \in Places, own[k] = x PROVE FALSE
    OBVIOUS
  <2>1. k \in Held
    BY <1>2 DEF Held
  <2> QED BY <1>2, <2>1 DEF Pool, PagesPartitioned, FreeOrOwned
<1>6. free' \subseteq Pages /\ own' \in [Places -> Pages \cup {None}]
  BY <1>1, <1>2, <1>3 DEF Pool
<1>7. Held' = Held \cup {h}
  BY <1>1, <1>2, <1>4 DEF Held
<1>8. OneOwner'
  BY <1>1, <1>4, <1>5, <1>7 DEF Pool, PagesPartitioned, OneOwner, Held
<1>9. FreeOrOwned'
  <2>1. {own'[k] : k \in Held'} = {own[k] : k \in Held} \cup {x}
    BY <1>1, <1>4, <1>7 DEF Held
  <2>2. free' = Pages \ ({own[k] : k \in Held} \cup {x})
    BY <1>3 DEF Pool, PagesPartitioned, FreeOrOwned
  <2> QED BY <2>1, <2>2 DEF FreeOrOwned
<1>10. ASSUME NEW q \in Procs, NEW t \in Slots
       PROVE  Has(q, t)' <=> Has(q, t) \/ (q = p /\ t = s)
  <2>1. <<q, t>> \in Places /\ (<<q, t>> = h <=> q = p /\ t = s)
    BY PlaceOf DEF h
  <2> QED BY <1>2, <1>4, <2>1 DEF Has
<1> QED BY <1>6, <1>8, <1>9, <1>10 DEF Pool, PagesPartitioned

\* kfree()
LEMMA GiveKeeps ==
  ASSUME Pool, NEW H \in SUBSET Places, Give(H)
  PROVE  /\ Pool'
         /\ \A q \in Procs, t \in Slots : Has(q, t)' <=> Has(q, t) /\ <<q, t>> \notin H
<1>1. \A k \in Places : own'[k] = IF k \in H THEN None ELSE own[k]
  BY DEF Give
<1>2. free' \subseteq Pages /\ own' \in [Places -> Pages \cup {None}]
  BY DEF Pool, Give
<1>3. Held' = Held \ H
  BY <1>1 DEF Held
<1>4. OneOwner'
  BY <1>1, <1>3 DEF Pool, PagesPartitioned, OneOwner, Held
<1>5. FreeOrOwned'
  <2>1. free' = free \cup {own[k] : k \in Held \cap H}
    BY DEF Give, Held
  <2>2. {own'[k] : k \in Held'} = {own[k] : k \in Held \ H}
    BY <1>1, <1>3 DEF Held
  <2>3. ASSUME NEW k \in Held \cap H, NEW j \in Held \ H PROVE own[k] # own[j]
    BY DEF Pool, PagesPartitioned, OneOwner
  <2>4. \A k \in Held : own[k] \in Pages
    BY DEF Held, Pool
  <2>5. free = Pages \ {own[k] : k \in Held}
    BY DEF Pool, PagesPartitioned, FreeOrOwned
  <2>6. free' = Pages \ {own[k] : k \in Held \ H}
    BY <2>1, <2>3, <2>4, <2>5
  <2> QED BY <2>2, <2>6 DEF FreeOrOwned
<1>6. ASSUME NEW q \in Procs, NEW t \in Slots
      PROVE  Has(q, t)' <=> Has(q, t) /\ <<q, t>> \notin H
  BY <1>1, PlaceOf DEF Has
<1> QED BY <1>2, <1>4, <1>5, <1>6 DEF Pool, PagesPartitioned

\* mappages()
LEMMA MoveKeeps ==
  ASSUME Pool, NEW p \in Procs, NEW s \in Slots, NEW t \in Slots, s # t, Has(p, s), ~Has(p, t),
         Move(<<p, s>>, <<p, t>>)
  PROVE  /\ Pool'
         /\ \A q \in Procs, u \in Slots :
              Has(q, u)' <=> (Has(q, u) /\ ~(q = p /\ u = s)) \/ (q = p /\ u = t)
<1> DEFINE h == <<p, s>>
           j == <<p, t>>
<1>1. h \in Places /\ j \in Places /\ h # j /\ own[h] # None /\ own[j] = None
  BY PlaceOf DEF Has
<1>2. own' = [own EXCEPT ![h] = None, ![j] = own[h]] /\ free' = free
  BY DEF Move
<1>3. \A q \in Procs, u \in Slots :
        <<q, u>> \in Places /\ (<<q, u>> = h <=> q = p /\ u = s) /\ (<<q, u>> = j <=> q = p /\ u = t)
  BY PlaceOf
<1> HIDE DEF h, j
<1>4. \A k \in Places : own'[k] = IF k = j THEN own[h] ELSE IF k = h THEN None ELSE own[k]
  BY <1>1, <1>2 DEF Pool
<1>5. own' \in [Places -> Pages \cup {None}]
  BY <1>1, <1>2 DEF Pool
<1>6. Held' = (Held \ {h}) \cup {j} /\ h \in Held
  BY <1>1, <1>4 DEF Held
<1>7. OneOwner'
  BY <1>1, <1>4, <1>6 DEF Pool, PagesPartitioned, OneOwner, Held
<1>8. FreeOrOwned'
  <2>1. {own'[k] : k \in Held'} = {own[k] : k \in Held}
    BY <1>1, <1>4, <1>6 DEF Held
  <2> QED BY <1>2, <2>1 DEF Pool, PagesPartitioned, FreeOrOwned
<1>9. \A q \in Procs, u \in Slots :
        Has(q, u)' <=> (Has(q, u) /\ ~(q = p /\ u = s)) \/ (q = p /\ u = t)
  BY <1>1, <1>3, <1>4 DEF Has
<1> QED BY <1>2, <1>5, <1>7, <1>8, <1>9 DEF Pool, PagesPartitioned

\* The slots of address spaces.
LEMMA SpacesAreSlots ==
  /\ Stack \in Slots /\ Mem \in Slots /\ Stack # Mem
  /\ \A a \in {"vm", "new"} : Spaces(a) \subseteq Slots
  /\ \A a \in {"vm", "new"} : \A s \in Spaces(a) : s # Stack /\ s # Mem
  /\ \A s \in Slots : s = Stack \/ s = Mem \/ s \in Spaces("vm") \/ s \in Spaces("new")
  /\ \A s \in Spaces("vm") : s \notin Spaces("new")
BY DEF Stack, Mem, Slots, Spaces

LEMMA Directory == <<"new", "dir", 0>> \in Spaces("new")
BY DEF Spaces

LEMMA KernelTables ==
  ASSUME NEW i \in 0 .. NKPT - 1
  PROVE  <<"new", "kpt", i>> \in Spaces("new")
BY DEF Spaces

LEMMA UserPages ==
  ASSUME NEW a \in {"vm", "new"}, NEW v \in VPages
  PROVE  /\ Page(a, v) \in Spaces(a)
         /\ Table(a, v) \in Spaces(a)
         /\ \A w \in VPages : Page(a, v) = Page(a, w) => v = w
         /\ \A b \in {"vm", "new"}, w \in VPages : Page(a, v) # Table(b, w)
<1>1. v \in Nat /\ v < NPT * NPTE
  BY Constants DEF VPages
<1>2. v \div NPTE \in 0 .. NPT - 1
  <2>1. NPTE \in Nat \ {0} /\ NPT \in Nat \ {0} /\ NPT * NPTE \in Nat
    BY Constants
  <2> DEFINE d == v \div NPTE
  <2>2. d \in Nat /\ d * NPTE <= v
    BY <1>1, <2>1
  <2> HIDE DEF d
  <2>3. ASSUME NPT <= d PROVE FALSE
    <3>1. PICK e \in Nat : d = NPT + e
      <4>1. d - NPT \in Nat /\ d = NPT + (d - NPT)
        BY <2>1, <2>2, <2>3
      <4> QED BY <4>1
    <3>2. d * NPTE = NPT * NPTE + e * NPTE /\ e * NPTE \in Nat
      BY <2>1, <3>1
    <3> QED BY <1>1, <2>1, <2>2, <3>2
  <2>4. d \in 0 .. NPT - 1
    BY <2>1, <2>2, <2>3
  <2> QED BY <2>4 DEF d
<1> QED BY <1>2 DEF Page, Table, Spaces

LEMMA Paired ==
  ASSUME NEW s \in Spaces("vm")
  PROVE  /\ <<"new", s[2], s[3]>> \in Spaces("new")
         /\ \A t \in Spaces("vm") : s[2] = t[2] /\ s[3] = t[3] => s = t
BY DEF Spaces

LEMMA Onto ==
  ASSUME NEW t \in Spaces("new")
  PROVE  \E s \in Spaces("vm") : t = <<"new", s[2], s[3]>>
<1>1. <<"vm", t[2], t[3]>> \in Spaces("vm") /\ t = <<"new", t[2], t[3]>>
  BY DEF Spaces
<1> QED BY <1>1

\* The new address space takes the place of the one q had.
LEMMA CommitKeeps ==
  ASSUME Pool, NEW p \in Procs, NEW q \in Procs, Commit(p, q)
  PROVE  /\ Pool'
         /\ \A r \in Procs, s \in Slots :
              Has(r, s)' <=> IF r = q /\ s \in Spaces("vm") THEN Has(p, <<"new", s[2], s[3]>>)
                             ELSE Has(r, s) /\ ~(r = p /\ s \in Spaces("new"))
<1> DEFINE V == All(q, "vm")
           N == All(p, "new")
           From(h) == <<p, <<"new", h[2][2], h[2][3]>>>>
<1>1. V \subseteq Places /\ N \subseteq Places /\ V \cap N = {}
  BY SpacesAreSlots DEF All, Places
<1>2. \A h \in V : From(h) \in N
  BY Paired DEF All
<1>3. \A h, k \in V : From(h) = From(k) => h = k
  <2> SUFFICES ASSUME NEW h \in V, NEW k \in V, From(h) = From(k) PROVE h = k
    OBVIOUS
  <2>1. PICK s \in Spaces("vm") : h = <<q, s>>
    BY DEF All
  <2>2. PICK t \in Spaces("vm") : k = <<q, t>>
    BY DEF All
  <2>3. s[2] = t[2] /\ s[3] = t[3]
    BY <2>1, <2>2
  <2> QED BY <2>1, <2>2, <2>3, Paired
<1>4. \A k \in N : \E h \in V : k = From(h)
  <2> SUFFICES ASSUME NEW k \in N PROVE \E h \in V : k = From(h)
    OBVIOUS
  <2>1. PICK t \in Spaces("new") : k = <<p, t>>
    BY DEF All
  <2>2. PICK s \in Spaces("vm") : t = <<"new", s[2], s[3]>>
    BY Onto
  <2>3. <<q, s>> \in V /\ k = From(<<q, s>>)
    BY <2>1, <2>2 DEF All
  <2> QED BY <2>3
<1>5. ASSUME NEW r \in Procs, NEW s \in Slots
      PROVE  /\ <<r, s>> \in V <=> r = q /\ s \in Spaces("vm")
             /\ <<r, s>> \in N <=> r = p /\ s \in Spaces("new")
             /\ From(<<r, s>>) = <<p, <<"new", s[2], s[3]>>>>
  <2>1. \A a : <<r, s>> \in {q} \X Spaces(a) <=> r = q /\ s \in Spaces(a)
    OBVIOUS
  <2>2. \A a : <<r, s>> \in {p} \X Spaces(a) <=> r = p /\ s \in Spaces(a)
    OBVIOUS
  <2>3. From(<<r, s>>) = <<p, <<"new", s[2], s[3]>>>>
    OBVIOUS
  <2> QED BY <2>1, <2>2, <2>3 DEF All
<1>6. /\ \A h \in Places : own'[h] = IF h \in V THEN own[From(h)] ELSE IF h \in N THEN None ELSE own[h]
      /\ own' = [h \in Places |-> IF h \in V THEN own[From(h)] ELSE IF h \in N THEN None ELSE own[h]]
      /\ free' = free \cup ({own[h] : h \in V} \ {None})
  BY DEF Commit
<1> HIDE DEF V, N, From
<1>7. own' \in [Places -> Pages \cup {None}] /\ free' \subseteq Pages
  BY <1>1, <1>2, <1>6 DEF Pool
<1>8. OneOwner'
  BY <1>1, <1>2, <1>3, <1>6 DEF Pool, PagesPartitioned, OneOwner, Held
<1>9. FreeOrOwned'
  <2>1. ASSUME NEW x \in Pages
        PROVE  (\E h \in Held' : own'[h] = x) <=> (\E h \in Held : own[h] = x /\ h \notin V)
    <3>1. ASSUME NEW h \in Places, own'[h] = x PROVE \E k \in Held : own[k] = x /\ k \notin V
      BY <1>1, <1>2, <1>6, <3>1, NoPage DEF Held
    <3>2. ASSUME NEW h \in Places, own[h] = x, h \notin V PROVE \E k \in Held' : own'[k] = x
      <4>1. CASE h \in N
        <5>1. PICK k \in V : h = From(k)
          BY <1>4, <4>1
        <5>2. k \in Places /\ own'[k] = x
          BY <1>1, <1>6, <3>2, <5>1
        <5> QED BY <5>2, NoPage DEF Held
      <4>2. CASE h \notin N
        BY <1>6, <3>2, <4>2, NoPage DEF Held
      <4> QED BY <4>1, <4>2
    <3> QED BY <3>1, <3>2 DEF Held
  <2>2. ASSUME NEW x \in Pages
        PROVE  x \in free' <=> x \in free \/ \E h \in V : own[h] = x
    BY <1>6, NoPage
  <2>3. ASSUME NEW x \in Pages
        PROVE  x \in free <=> ~\E h \in Held : own[h] = x
    BY DEF Pool, PagesPartitioned, FreeOrOwned
  <2>4. \A x \in Pages, h \in V : own[h] = x => h \in Held
    BY <1>1, NoPage DEF Held
  <2>5. \A x \in Pages, h \in Held, k \in Held : own[h] = x /\ own[k] = x => h = k
    BY DEF Pool, PagesPartitioned, OneOwner
  <2>6. ASSUME NEW x \in Pages
        PROVE  x \in free' <=> ~\E h \in Held' : own'[h] = x
    BY <2>1, <2>2, <2>3, <2>4, <2>5
  <2> QED BY <1>7, <2>6 DEF FreeOrOwned
<1>10. ASSUME NEW r \in Procs, NEW s \in Slots
       PROVE  Has(r, s)' <=> IF r = q /\ s \in Spaces("vm") THEN Has(p, <<"new", s[2], s[3]>>)
                             ELSE Has(r, s) /\ ~(r = p /\ s \in Spaces("new"))
  <2>1. <<r, s>> \in Places
    BY PlaceOf
  <2> QED BY <1>5, <1>6, <2>1 DEF Has
<1> QED BY <1>7, <1>8, <1>9, <1>10 DEF Pool, PagesPartitioned

-------------------------------------------------------------------------------
(* What does not concern a process leaves it as it is. *)

Good(p) == /\ SizeMatches(p) /\ JobInProgress(p) /\ NothingSpare(p)
           /\ BuiltSoFar(p) /\ OldSizeKept(p)

SameHas(p) == \A s \in Slots : Has(p, s)' <=> Has(p, s)

LEMMA SpacesOf ==
  /\ \A v \in VPages : Page("vm", v) \in Slots /\ Page("new", v) \in Slots
  /\ Spaces("vm") \subseteq Slots /\ Spaces("new") \subseteq Slots
  /\ Stack \in Slots /\ Mem \in Slots
BY SpacesAreSlots, UserPages

LEMMA SameSpaces ==
  ASSUME NEW p \in Procs, SameHas(p), NEW n, NEW a \in {"vm", "new"}
  PROVE  Mapped(p, a, n)' <=> Mapped(p, a, n)
BY SpacesOf DEF SameHas, Mapped

LEMMA SameEmpty ==
  ASSUME NEW p \in Procs, SameHas(p), NEW a \in {"vm", "new"}
  PROVE  Empty(p, a)' <=> Empty(p, a)
BY SpacesOf DEF SameHas, Empty

LEMMA SameProcess ==
  ASSUME NEW p \in Procs, Good(p), SameHas(p),
         state'[p] = state[p], pc'[p] = pc[p], job'[p] = job[p], sz'[p] = sz[p]
  PROVE  Good(p)'
<1>1. Has(p, Mem)' <=> Has(p, Mem)
  BY SpacesOf DEF SameHas
<1>2. Has(p, Stack)' <=> Has(p, Stack)
  BY SpacesOf DEF SameHas
<1>3. /\ Empty(p, "vm")' <=> Empty(p, "vm")
      /\ Empty(p, "new")' <=> Empty(p, "new")
  BY SameEmpty
<1>4. \A n : /\ Mapped(p, "vm", n)' <=> Mapped(p, "vm", n)
             /\ Mapped(p, "new", n)' <=> Mapped(p, "new", n)
  BY SameSpaces
<1>5. SizeMatches(p)'
  BY <1>4 DEF Good, SizeMatches
<1>6. JobInProgress(p)'
  BY DEF Good, JobInProgress
<1>7. NothingSpare(p)'
  BY <1>1, <1>2, <1>3 DEF Good, NothingSpare, Builds
<1>8. BuiltSoFar(p)'
  <2>1. Area(p)' = Area(p) /\ Area(p) \in {"vm", "new"} /\ Here(p)' = Here(p)
    BY DEF Area, Here
  <2> QED BY <1>4, <2>1 DEF Good, BuiltSoFar
<1>9. OldSizeKept(p)'
  BY <1>4 DEF Good, OldSizeKept, Here
<1> QED BY <1>5, <1>6, <1>7, <1>8, <1>9 DEF Good

LEMMA Parts ==
  ASSUME IInv
  PROVE  Pool /\ \A p \in Procs : Good(p)
BY DEF IInv, Pool, TypeOK, Good

LEMMA Whole ==
  ASSUME TypeOK', NoPanic', Pool', job' \in [Procs -> Jobs], ForkOwnsChild', \A p \in Procs : Good(p)'
  PROVE  IInv'
BY DEF IInv, Pool, Good

\* Only p goes on with a fork(), or ends it.
LEMMA SameForks ==
  ASSUME IInv, NEW p \in Procs,
         \A q \in Procs : q # p => job'[q] = job[q] /\ pc'[q] = pc[q],
         job'[p].op = "fork" => /\ job[p].op = "fork" /\ job'[p].child = job[p].child
                                /\ pc'[p] = "kstack" => pc[p] = "kstack",
         \A q \in Procs : state[q] = "EMBRYO" =>
           state'[q] = "EMBRYO" \/ (job[p].op = "fork" /\ q = job[p].child /\ job'[p].op # "fork"),
         \A q \in Procs : Has(q, Stack)' =>
           \/ Has(q, Stack)
           \/ job[p].op = "fork" /\ q = job[p].child /\ (job'[p].op = "fork" => pc'[p] # "kstack")
  PROVE  ForkOwnsChild'
<1> SUFFICES ASSUME NEW q \in Procs, NEW c, job'[q].op = "fork", c = job'[q].child
             PROVE  /\ state'[c] = "EMBRYO"
                    /\ pc'[q] = "kstack" => ~Has(c, Stack)'
                    /\ \A r \in Procs : job'[r].op = "fork" /\ job'[r].child = c => q = r
  BY DEF ForkOwnsChild, Has
<1>1. \A r \in Procs : job'[r].op = "fork" => job[r].op = "fork" /\ job'[r].child = job[r].child
  OBVIOUS
<1>2. c = job[q].child /\ c \in Procs
  BY <1>1 DEF IInv, Jobs
<1>3. /\ state[c] = "EMBRYO"
      /\ pc[q] = "kstack" => ~Has(c, Stack)
      /\ \A r \in Procs : job[r].op = "fork" /\ job[r].child = c => q = r
  BY <1>1, <1>2 DEF IInv, ForkOwnsChild
<1>4. job[p].op = "fork" /\ c = job[p].child => p = q
  BY <1>3
<1>5. state'[c] = "EMBRYO"
  BY <1>2, <1>3, <1>4
<1>6. ASSUME pc'[q] = "kstack", Has(c, Stack)' PROVE FALSE
  <2>1. pc[q] = "kstack"
    BY <1>6
  <2>2. ~Has(c, Stack)
    BY <1>3, <2>1
  <2> QED BY <1>2, <1>4, <1>6, <2>2
<1>7. \A r \in Procs : job'[r].op = "fork" /\ job'[r].child = c => q = r
  BY <1>1, <1>3
<1> QED BY <1>5, <1>6, <1>7

-------------------------------------------------------------------------------
LEMMA InitInv == Init => IInv
<1> SUFFICES ASSUME Init PROVE IInv
  OBVIOUS
<1>1. initproc \in Procs /\ NPAGES \in Nat /\ NPAGES >= 4 + NKPT /\ NKPT \in Nat
  BY Constants, MemoryAssumption
<1>2. \A s \in Slots : InitialPage(s) \in Pages \cup {None}
  <2> SUFFICES ASSUME NEW s \in Slots PROVE InitialPage(s) \in Pages \cup {None}
    OBVIOUS
  <2>1. CASE s[1] = "vm" /\ s[2] = "kpt"
    <3>1. s[3] \in 0 .. NKPT - 1
      BY <2>1 DEF Slots, Spaces, Stack, Mem
    <3> QED BY <1>1, <2>1, <3>1 DEF InitialPage, Pages, Stack
  <2>2. CASE ~(s[1] = "vm" /\ s[2] = "kpt")
    BY <1>1, <2>2 DEF InitialPage, Pages, Stack
  <2> QED BY <2>1, <2>2
<1>3. \A s, t \in Slots : InitialPage(s) = InitialPage(t) /\ InitialPage(s) # None => s = t
  <2> SUFFICES ASSUME NEW s \in Slots, NEW t \in Slots,
                      InitialPage(s) = InitialPage(t), InitialPage(s) # None
               PROVE  s = t
    OBVIOUS
  <2>1. ASSUME NEW r \in Slots, r[1] = "vm", r[2] = "kpt"
        PROVE  r = <<"vm", "kpt", r[3]>> /\ r[3] \in 0 .. NKPT - 1 /\ InitialPage(r) = 5 + r[3]
    BY <2>1 DEF Slots, Spaces, Stack, Mem, InitialPage
  <2>2. ASSUME NEW r \in Slots, InitialPage(r) # None, ~(r[1] = "vm" /\ r[2] = "kpt")
        PROVE  \/ r = Stack /\ InitialPage(r) = 1
               \/ r = <<"vm", "dir", 0>> /\ InitialPage(r) = 2
               \/ r = <<"vm", "pt", 0>> /\ InitialPage(r) = 3
               \/ r = <<"vm", "page", 0>> /\ InitialPage(r) = 4
    BY <2>2 DEF InitialPage, Stack
  <2>3. CASE s[1] = "vm" /\ s[2] = "kpt" /\ t[1] = "vm" /\ t[2] = "kpt"
    BY <2>1, <2>3
  <2>4. CASE s[1] = "vm" /\ s[2] = "kpt" /\ ~(t[1] = "vm" /\ t[2] = "kpt")
    <3>1. InitialPage(s) >= 5 /\ InitialPage(t) <= 4
      BY <2>1, <2>2, <2>4
    <3> QED BY <2>1, <2>4, <3>1
  <2>5. CASE ~(s[1] = "vm" /\ s[2] = "kpt") /\ t[1] = "vm" /\ t[2] = "kpt"
    <3>1. InitialPage(t) >= 5 /\ InitialPage(s) <= 4
      BY <2>1, <2>2, <2>5
    <3> QED BY <2>1, <2>5, <3>1
  <2>6. CASE ~(s[1] = "vm" /\ s[2] = "kpt") /\ ~(t[1] = "vm" /\ t[2] = "kpt")
    <3>1. /\ InitialPage(s) = InitialPage(t) /\ InitialPage(s) # None
          /\ InitialPage(t) # None
      OBVIOUS
    <3> QED BY <2>2, <2>6, <3>1
  <2> QED BY <2>3, <2>4, <2>5, <2>6
<1>4. \A q \in Procs, s \in Slots :
        /\ <<q, s>> \in Places
        /\ own[<<q, s>>] = IF q = initproc THEN InitialPage(s) ELSE None
  BY PlaceOf DEF Init
<1>5. own \in [Places -> Pages \cup {None}]
  <2>1. \A h \in Places : own[h] \in Pages \cup {None}
    BY <1>2, <1>4, PlacesArePairs
  <2> QED BY <2>1 DEF Init
<1>6. OneOwner
  <2> SUFFICES ASSUME NEW h \in Held, NEW k \in Held, own[h] = own[k] PROVE h = k
    BY DEF OneOwner
  <2>1. PICK q \in Procs, s \in Slots : h = <<q, s>>
    BY PlacesArePairs DEF Held
  <2>2. PICK r \in Procs, t \in Slots : k = <<r, t>>
    BY PlacesArePairs DEF Held
  <2>3. own[h] # None /\ own[k] # None
    BY DEF Held
  <2>4. q = initproc /\ r = initproc /\ InitialPage(s) = InitialPage(t) /\ InitialPage(s) # None
    BY <1>4, <2>1, <2>2, <2>3
  <2> QED BY <1>3, <2>1, <2>2, <2>4
<1>7. FreeOrOwned
  <2>1. free = Pages \ {own[h] : h \in Places}
    BY DEF Init
  <2> QED BY <2>1, NoPage DEF FreeOrOwned, Held
<1>8. PGSIZE \in 0 .. Size - 1 /\ PGSIZE \in Nat \ {0} /\ Size \in Nat \ {0}
  BY Constants
<1>9. TypeOK
  BY <1>1, <1>5, <1>8, MemoryAssumption, SMTT(30) DEF Init, TypeOK, Points
<1>10. job \in [Procs -> Jobs]
  BY <1>1, <1>8 DEF Init, NoJob, Jobs, Ops, initproc
<1>11. \A q \in Procs : job[q].op = "none" /\ pc[q] = "user"
  BY DEF Init, NoJob
<1>12. ForkOwnsChild
  BY <1>11 DEF ForkOwnsChild
<1>13. ASSUME NEW q \in Procs PROVE Good(q)
  <2>1. JobInProgress(q) /\ BuiltSoFar(q) /\ OldSizeKept(q) /\ ~Builds(q)
    BY <1>11 DEF JobInProgress, BuiltSoFar, OldSizeKept, Builds
  <2>2. Empty(q, "new") /\ ~Has(q, Mem)
    <3>1. \A s \in Spaces("new") : s \in Slots /\ InitialPage(s) = None
      BY SpacesAreSlots DEF Spaces, InitialPage, Stack
    <3>2. Mem \in Slots /\ InitialPage(Mem) = None
      BY SpacesAreSlots DEF Mem, InitialPage, Stack
    <3> QED BY <1>4, <3>1, <3>2 DEF Empty, Has
  <2>3. CASE q = initproc
    <3>1. state[q] = "RUNNABLE" /\ sz[q] = PGSIZE
      BY <2>3 DEF Init
    <3>2. \A v \in VPages : Has(q, Page("vm", v)) <=> v = 0
      <4>1. \A v \in VPages : Page("vm", v) \in Slots
        BY SpacesOf
      <4>2. \A v \in VPages : InitialPage(Page("vm", v)) # None <=> v = 0
        BY DEF InitialPage, Page, Stack, None
      <4> QED BY <1>4, <2>3, <4>1, <4>2 DEF Has
    <3>3. \A v \in VPages : v * PGSIZE < PGSIZE <=> v = 0
      <4> SUFFICES ASSUME NEW v \in VPages PROVE v * PGSIZE < PGSIZE <=> v = 0
        OBVIOUS
      <4>1. v \in Nat /\ (v * PGSIZE < 1 * PGSIZE <=> v < 1) /\ 1 * PGSIZE = PGSIZE
        BY <1>8, Order DEF VPages
      <4> QED BY <4>1
    <3>4. Mapped(q, "vm", sz[q])
      BY <3>1, <3>2, <3>3 DEF Mapped
    <3> QED BY <1>11, <2>1, <2>2, <3>1, <3>4 DEF Good, SizeMatches, NothingSpare
  <2>4. CASE q # initproc
    <3>1. state[q] = "UNUSED"
      BY <2>4 DEF Init
    <3>2. \A s \in Slots : ~Has(q, s)
      BY <1>4, <2>4 DEF Has
    <3> QED BY <1>11, <2>1, <2>2, <3>1, <3>2, SpacesAreSlots DEF Good, SizeMatches, NothingSpare, Empty
  <2> QED BY <2>3, <2>4
<1>14. NoPanic
  BY DEF Init, NoPanic
<1> QED BY <1>6, <1>7, <1>9, <1>10, <1>12, <1>13, <1>14 DEF IInv, Good, PagesPartitioned

-------------------------------------------------------------------------------
(* Calls that fail. *)

LEMMA PageBelow ==
  ASSUME NEW v \in VPages, NEW n \in Nat
  PROVE  v \in Nat /\ PageUp(n) \in Nat /\ (v < PageUp(n) <=> v * PGSIZE < n)
                   /\ (v * PGSIZE < n * PGSIZE <=> v < n)
BY RoundsUp, Order DEF VPages

\* Where a call has come to.
LEMMA InCall ==
  ASSUME IInv, NEW p \in Procs, pc[p] # "user"
  PROVE  /\ state[p] = "RUNNABLE" /\ job[p] \in Jobs /\ job[p].op \in {"sbrk", "fork", "exec"}
         /\ Here(p) \in Nat /\ job[p].at = Here(p) * PGSIZE /\ Here(p) <= PageUp(job[p].to)
         /\ job[p].to \in 0 .. Size - 1 /\ job[p].to \in Nat /\ job[p].from \in Nat
         /\ Area(p) \in {"vm", "new"} /\ Mapped(p, Area(p), job[p].at)
         /\ sz[p] \in 0 .. Size - 1
<1>1. job[p] \in Jobs /\ Good(p) /\ sz[p] \in 0 .. Size - 1
  BY Parts DEF IInv, TypeOK
<1>2. state[p] = "RUNNABLE" /\ job[p].op # "none"
  BY <1>1 DEF Good, JobInProgress
<1>3. job[p].op \in {"sbrk", "fork", "exec"}
  BY <1>1, <1>2 DEF Jobs, Ops
<1>4. job[p].at \in Nat /\ job[p].to \in 0 .. Size - 1 /\ job[p].from \in 0 .. Size - 1
  BY <1>1 DEF Jobs
<1>5. Here(p) \in Nat
  BY <1>4, Constants DEF Here, Virtual
<1>6. Size \in Nat
  BY Constants
<1> QED BY <1>1, <1>2, <1>3, <1>4, <1>5, <1>6 DEF Good, BuiltSoFar, Area

LEMMA ChildOf ==
  ASSUME IInv, NEW p \in Procs, job[p].op = "fork"
  PROVE  /\ job[p].child \in Procs /\ job[p].child # p
         /\ state[job[p].child] = "EMBRYO" /\ pc[job[p].child] = "user"
         /\ \A s \in Slots : Has(job[p].child, s) => s = Stack /\ pc[p] # "kstack"
<1> DEFINE c == job[p].child
<1>1. c \in Procs /\ Good(c) /\ Good(p)
  BY Parts DEF IInv, Jobs
<1>2. state[c] = "EMBRYO" /\ (pc[p] = "kstack" => ~Has(c, Stack))
  BY DEF IInv, ForkOwnsChild
<1>3. state[p] = "RUNNABLE" /\ pc[c] = "user" /\ job[c].op = "none"
  BY <1>1, <1>2 DEF Good, JobInProgress
<1> HIDE DEF c
<1>4. Empty(c, "vm") /\ Empty(c, "new") /\ ~Has(c, Mem)
  BY <1>1, <1>2, <1>3 DEF Good, NothingSpare, Builds
<1>5. \A s \in Slots : Has(c, s) => s = Stack
  BY <1>4, SpacesAreSlots DEF Empty
<1> QED BY <1>1, <1>2, <1>3, <1>5 DEF c

LEMMA UndoneIs ==
  ASSUME IInv, NEW p \in Procs, pc[p] # "user"
  PROVE  /\ Undone(p) \subseteq Places
         /\ \A q \in Procs, s \in Slots : <<q, s>> \in Undone(p) <=>
              \/ /\ job[p].op = "sbrk" /\ q = p
                 /\ \E v \in VPages : s = Page("vm", v) /\ v >= PageUp(job[p].from) /\ v * PGSIZE < job[p].to
              \/ job[p].op \in {"fork", "exec"} /\ q = p /\ s \in Spaces("new")
              \/ job[p].op = "fork" /\ q = job[p].child /\ s = Stack
<1>1. job[p].op \in {"sbrk", "fork", "exec"}
  BY InCall
<1>2. CASE job[p].op = "sbrk"
  <2>1. Undone(p) = {<<p, Page("vm", v)>> : v \in {u \in VPages : u >= PageUp(job[p].from) /\ u * PGSIZE < job[p].to}}
    BY <1>2 DEF Undone, Above
  <2>2. \A v \in VPages : <<p, Page("vm", v)>> \in Places
    BY SpacesOf, PlaceOf
  <2> QED BY <1>2, <2>1, <2>2
<1>3. CASE job[p].op = "fork"
  <2>1. Undone(p) = All(p, "new") \cup {<<job[p].child, Stack>>}
    BY <1>3 DEF Undone
  <2>2. job[p].child \in Procs
    BY <1>3, ChildOf
  <2> QED BY <1>3, <2>1, <2>2, SpacesOf, PlaceOf DEF All
<1>4. CASE job[p].op = "exec"
  <2>1. Undone(p) = All(p, "new")
    BY <1>4 DEF Undone
  <2> QED BY <1>4, <2>1, SpacesOf, PlaceOf DEF All
<1> QED BY <1>1, <1>2, <1>3, <1>4

LEMMA NoJobIsJob == NoJob \in Jobs /\ NoJob.op = "none"
BY Constants DEF NoJob, Jobs, Ops, initproc

\* Fails() undoes what the call has done: the pages that a process keeps are those it had.
LEMMA FailsInv ==
  ASSUME IInv, NEW p \in Procs, pc[p] # "user", ncalls' \in 0 .. MaxCalls, Fails(p)
  PROVE  IInv'
<1> DEFINE H == Undone(p) \cup {<<p, Mem>>}
<1>1. /\ Pool /\ \A q \in Procs : Good(q)
      /\ job \in [Procs -> Jobs] /\ TypeOK
  BY Parts DEF IInv
<1>2. H \subseteq Places /\ Give(H)
  BY UndoneIs, SpacesOf, PlaceOf DEF Fails
<1>3. \A q \in Procs, s \in Slots : <<q, s>> \in H <=> <<q, s>> \in Undone(p) \/ (q = p /\ s = Mem)
  OBVIOUS
<1> HIDE DEF H
<1>4. Pool' /\ \A q \in Procs, s \in Slots : Has(q, s)' <=> Has(q, s) /\ <<q, s>> \notin H
  BY <1>1, <1>2, GiveKeeps
<1>5. /\ pc' = [pc EXCEPT ![p] = "user"] /\ job' = [job EXCEPT ![p] = NoJob]
      /\ state' = IF job[p].op = "fork" THEN [state EXCEPT ![job[p].child] = "UNUSED"] ELSE state
      /\ UNCHANGED <<parent, sz, panicked>>
  BY DEF Fails, Returns, Starts
<1>6. TypeOK'
  <2>1. job[p].op = "fork" => job[p].child \in Procs
    BY ChildOf
  <2> QED BY <1>1, <1>4, <1>5, <2>1 DEF TypeOK, Pool, Points
<1>7. job' \in [Procs -> Jobs]
  BY <1>1, <1>5, NoJobIsJob
<1>8. pc'[p] = "user" /\ job'[p].op = "none" /\ \A q \in Procs : q # p => pc'[q] = pc[q] /\ job'[q] = job[q]
  BY <1>1, <1>5, NoJobIsJob DEF TypeOK
<1>9. \A q \in Procs : state'[q] = IF job[p].op = "fork" /\ q = job[p].child THEN "UNUSED" ELSE state[q]
  BY <1>1, <1>5 DEF TypeOK
<1>10. ForkOwnsChild'
  <2>1. \A q \in Procs : state[q] = "EMBRYO" =>
          state'[q] = "EMBRYO" \/ (job[p].op = "fork" /\ q = job[p].child)
    BY <1>9
  <2>2. \A q \in Procs : Has(q, Stack)' => Has(q, Stack)
    BY <1>4, SpacesOf
  <2> QED BY <1>8, <2>1, <2>2, SameForks
<1>11. state[p] = "RUNNABLE" /\ state'[p] = "RUNNABLE"
  BY <1>9, InCall, ChildOf
<1>12. Good(p)'
  <2>1. JobInProgress(p)' /\ BuiltSoFar(p)' /\ OldSizeKept(p)' /\ ~Builds(p)'
    BY <1>8, <1>11 DEF JobInProgress, BuiltSoFar, OldSizeKept, Builds
  <2>2. ~Has(p, Mem)'
    BY <1>3, <1>4, SpacesOf
  <2>3. Empty(p, "new")'
    <3>1. CASE job[p].op \in {"fork", "exec"}
      <4>1. \A s \in Spaces("new") : ~Has(p, s)'
        BY <1>3, <1>4, <3>1, SpacesOf, UndoneIs
      <4> QED BY <4>1 DEF Empty
    <3>2. CASE job[p].op = "sbrk"
      <4>1. Empty(p, "new")
        BY <1>1, <3>2 DEF Good, NothingSpare, Builds
      <4> QED BY <1>4, <4>1, SpacesOf DEF Empty
    <3> QED BY <3>1, <3>2, InCall
  <2>4. Mapped(p, "vm", sz[p])'
    <3> SUFFICES ASSUME NEW v \in VPages PROVE Has(p, Page("vm", v))' <=> v * PGSIZE < sz'[p]
      BY DEF Mapped
    <3>1. Page("vm", v) \in Slots /\ Page("vm", v) # Mem /\ Page("vm", v) # Stack /\ Page("vm", v) \notin Spaces("new")
      BY UserPages, SpacesAreSlots
    <3>2. CASE job[p].op \in {"fork", "exec"}
      <4>1. Has(p, Page("vm", v)) <=> v * PGSIZE < sz[p]
        BY <1>1, <3>2 DEF Good, OldSizeKept, Mapped
      <4>2. <<p, Page("vm", v)>> \notin H
        BY <1>3, <3>1, <3>2, UndoneIs
      <4> QED BY <1>4, <1>5, <3>1, <4>1, <4>2
    <3>3. CASE job[p].op = "sbrk"
      <4>1. Has(p, Page("vm", v)) <=> v * PGSIZE < Here(p) * PGSIZE
        BY <3>3, InCall DEF Mapped, Area
      <4>2. <<p, Page("vm", v)>> \in H <=> v >= PageUp(job[p].from) /\ v * PGSIZE < job[p].to
        BY <1>3, <3>1, <3>3, UndoneIs, UserPages
      <4>3. job[p].from = sz[p] /\ PageUp(job[p].from) <= Here(p)
        BY <1>1, <3>3 DEF Good, OldSizeKept
      <4>4. /\ Here(p) \in Nat /\ job[p].from \in Nat /\ job[p].to \in Nat /\ Here(p) <= PageUp(job[p].to)
        BY InCall
      <4>5. /\ v \in Nat /\ PageUp(job[p].from) \in Nat /\ PageUp(job[p].to) \in Nat
            /\ v < PageUp(job[p].from) <=> v * PGSIZE < job[p].from
            /\ v < PageUp(job[p].to) <=> v * PGSIZE < job[p].to
            /\ v * PGSIZE < Here(p) * PGSIZE <=> v < Here(p)
        BY <4>4, PageBelow
      <4>6. Has(p, Page("vm", v))' <=> v < Here(p) /\ ~(v >= PageUp(job[p].from) /\ v < PageUp(job[p].to))
        BY <1>4, <3>1, <4>1, <4>2, <4>5
      <4>7. Has(p, Page("vm", v))' <=> v < PageUp(job[p].from)
        BY <4>3, <4>4, <4>5, <4>6
      <4> QED BY <1>5, <4>3, <4>5, <4>7
    <3> QED BY <3>2, <3>3, InCall
  <2> QED BY <1>8, <1>11, <2>1, <2>2, <2>3, <2>4 DEF Good, SizeMatches, NothingSpare
<1>13. ASSUME NEW q \in Procs, q # p PROVE Good(q)'
  <2>1. CASE job[p].op = "fork" /\ q = job[p].child
    <3>1. pc'[q] = "user" /\ state'[q] = "UNUSED" /\ job'[q].op = "none"
      <4>1. job[q].op = "none"
        BY <1>1, <2>1, ChildOf DEF Good, JobInProgress
      <4> QED BY <1>8, <1>9, <1>13, <2>1, <4>1, ChildOf
    <3>2. ASSUME NEW s \in Slots, Has(q, s)' PROVE FALSE
      <4>1. Has(q, s) /\ <<q, s>> \notin H
        BY <1>4, <3>2
      <4>2. s = Stack
        BY <2>1, <4>1, ChildOf
      <4>3. <<q, Stack>> \in Undone(p)
        BY <2>1, SpacesOf, UndoneIs
      <4> QED BY <1>3, <4>1, <4>2, <4>3, SpacesOf
    <3>3. Empty(q, "new")' /\ Empty(q, "vm")' /\ ~Has(q, Mem)' /\ ~Has(q, Stack)'
      BY <3>2, SpacesOf DEF Empty
    <3> QED BY <3>1, <3>3 DEF Good, SizeMatches, JobInProgress, NothingSpare, BuiltSoFar, OldSizeKept
  <2>2. CASE ~(job[p].op = "fork" /\ q = job[p].child)
    <3>1. SameHas(q)
      <4>1. \A s \in Slots : <<q, s>> \notin H
        BY <1>3, <1>13, <2>2, UndoneIs
      <4> QED BY <1>4, <4>1 DEF SameHas
    <3>2. state'[q] = state[q] /\ sz'[q] = sz[q]
      BY <1>5, <1>9, <2>2
    <3> QED BY <1>1, <1>8, <1>13, <3>1, <3>2, SameProcess
  <2> QED BY <2>1, <2>2
<1>14. NoPanic'
  BY <1>5 DEF IInv, NoPanic
<1> QED BY <1>4, <1>6, <1>7, <1>10, <1>12, <1>13, <1>14, Whole

-------------------------------------------------------------------------------
(* Steps that take a page, or none, and go on. *)

\* p gets a page for its bookkeeping, or finds that it has it, and is at next.
LEMMA GoesOnInv ==
  ASSUME IInv, NEW p \in Procs, pc[p] \notin {"user", "kstack"}, ncalls' \in 0 .. MaxCalls,
         NEW S \in SUBSET Slots, Pool',
         \A q \in Procs, t \in Slots : Has(q, t)' <=> Has(q, t) \/ (q = p /\ t \in S),
         NEW next \in {"kpt", "alloc", "table", "map"}, pc' = [pc EXCEPT ![p] = next],
         UNCHANGED <<job, control>>,
         \A a \in {"vm", "new"}, v \in VPages : Page(a, v) \notin S,
         Stack \notin S,
         S \cap Spaces("new") # {} => job[p].op \in {"fork", "exec"},
         pc[p] = "dir" => job[p].op # "sbrk",
         job[p].op = "sbrk" => next # "kpt",
         next \in {"table", "map"} <=> pc[p] \in {"table", "map"} \/ Mem \in S,
         next \in {"table", "map"} => job[p].at < job[p].to
  PROVE  IInv'
<1>1. /\ Pool /\ \A q \in Procs : Good(q)
      /\ job \in [Procs -> Jobs] /\ TypeOK
  BY Parts DEF IInv
<1>2. /\ job' = job /\ state' = state /\ sz' = sz /\ parent' = parent /\ panicked' = panicked
      /\ \A q \in Procs : pc'[q] = IF q = p THEN next ELSE pc[q]
  BY <1>1 DEF control, TypeOK
<1>3. TypeOK'
  BY <1>1, <1>2 DEF TypeOK, Pool, Points
<1>4. ForkOwnsChild'
  <2>1. \A q \in Procs : Has(q, Stack)' => Has(q, Stack)
    BY SpacesOf
  <2> QED BY <1>2, <2>1, SameForks
<1>5. ASSUME NEW q \in Procs, q # p PROVE Good(q)'
  BY <1>1, <1>2, <1>5, SameProcess DEF SameHas
<1>6. Good(p)'
  <2>1. state[p] = "RUNNABLE" /\ job[p].op # "none" /\ job[p].op \in {"sbrk", "fork", "exec"}
    BY InCall
  <2>2. \A v \in VPages : /\ Has(p, Page("vm", v))' <=> Has(p, Page("vm", v))
                          /\ Has(p, Page("new", v))' <=> Has(p, Page("new", v))
    BY SpacesOf
  <2>3. \A n : /\ Mapped(p, "vm", n)' <=> Mapped(p, "vm", n)
               /\ Mapped(p, "new", n)' <=> Mapped(p, "new", n)
    BY <2>2 DEF Mapped
  <2>4. Has(p, Mem)' <=> Has(p, Mem) \/ Mem \in S
    BY SpacesOf
  <2>5. (Empty(p, "new") /\ S \cap Spaces("new") = {}) => Empty(p, "new")'
    BY SpacesOf DEF Empty
  <2>6. JobInProgress(p)'
    BY <1>1, <1>2, <2>1 DEF Good, JobInProgress
  <2>7. NothingSpare(p)'
    BY <1>1, <1>2, <2>1, <2>4, <2>5 DEF Good, NothingSpare, Builds
  <2>8. BuiltSoFar(p)'
    <3>1. Area(p)' = Area(p) /\ Area(p) \in {"vm", "new"} /\ Here(p)' = Here(p)
      BY <1>2 DEF Area, Here
    <3> QED BY <1>1, <1>2, <2>3, <3>1 DEF Good, BuiltSoFar
  <2>9. OldSizeKept(p)' /\ SizeMatches(p)'
    BY <1>1, <1>2, <2>3 DEF Good, OldSizeKept, SizeMatches, Here
  <2> QED BY <2>6, <2>7, <2>8, <2>9 DEF Good
<1>7. NoPanic'
  BY <1>2 DEF IInv, NoPanic
<1> QED BY <1>1, <1>2, <1>3, <1>4, <1>5, <1>6, <1>7, Whole

LEMMA AllocatesInv ==
  ASSUME IInv, NEW p \in Procs, pc[p] \notin {"user", "kstack"}, ncalls' \in 0 .. MaxCalls,
         NEW s \in Slots, ~Has(p, s), NEW next \in {"kpt", "alloc", "table", "map"},
         Allocates(p, s, next),
         \A a \in {"vm", "new"}, v \in VPages : Page(a, v) # s,
         s # Stack,
         s \in Spaces("new") => job[p].op \in {"fork", "exec"},
         pc[p] = "dir" => job[p].op # "sbrk",
         job[p].op = "sbrk" => next # "kpt",
         next \in {"table", "map"} <=> pc[p] \in {"table", "map"} \/ Mem = s,
         next \in {"table", "map"} => job[p].at < job[p].to
  PROVE  IInv'
<1>1. CASE free = {}
  BY <1>1, FailsInv DEF Allocates
<1>2. CASE free # {}
  <2>1. Take(p, s) /\ pc' = [pc EXCEPT ![p] = next] /\ UNCHANGED <<job, control>>
    BY <1>2 DEF Allocates
  <2>2. Pool
    BY Parts
  <2>3. Pool' /\ \A q \in Procs, t \in Slots : Has(q, t)' <=> Has(q, t) \/ (q = p /\ t \in {s})
    BY <1>2, <2>1, <2>2, TakeKeeps
  <2> DEFINE S == {s}
  <2>4. S \in SUBSET Slots /\ (\A t : t \in S <=> t = s)
    OBVIOUS
  <2>5. \A q \in Procs, t \in Slots : Has(q, t)' <=> Has(q, t) \/ (q = p /\ t \in S)
    BY <2>3
  <2> HIDE DEF S
  <2> QED BY <2>1, <2>3, <2>4, <2>5, GoesOnInv
<1> QED BY <1>1, <1>2

\* The page is there already.
LEMMA AdvancesInv ==
  ASSUME IInv, NEW p \in Procs, pc[p] \notin {"user", "kstack", "dir"}, ncalls' \in 0 .. MaxCalls,
         NEW next \in {"alloc", "map"}, pc' = [pc EXCEPT ![p] = next],
         UNCHANGED <<own, free, job, control>>,
         next = "map" <=> pc[p] \in {"table", "map"},
         next = "map" => job[p].at < job[p].to
  PROVE  IInv'
<1>1. Pool
  BY Parts
<1>2. Pool'
  BY <1>1 DEF Pool, PagesPartitioned, OneOwner, FreeOrOwned, Held
<1> DEFINE S == {}
<1>3. S \in SUBSET Slots /\ \A t : t \notin S
  OBVIOUS
<1> HIDE DEF S
<1>4. \A q \in Procs, t \in Slots : Has(q, t)' <=> Has(q, t) \/ (q = p /\ t \in S)
  BY <1>3 DEF Has
<1> QED BY <1>2, <1>3, <1>4, GoesOnInv

LEMMA SetupkvmInv ==
  ASSUME IInv, NEW p \in Procs, ncalls' \in 0 .. MaxCalls, setupkvm(p)
  PROVE  IInv'
<1> DEFINE s == <<"new", "dir", 0>>
<1>1. pc[p] = "dir" /\ Allocates(p, s, "kpt")
  BY DEF setupkvm
<1>2. Good(p)
  BY Parts
<1>3. job[p].op \in {"fork", "exec"}
  BY <1>1, <1>2, InCall DEF Good, JobInProgress
<1>4. s \in Slots /\ s \in Spaces("new") /\ s # Stack /\ s # Mem
  BY Directory, SpacesAreSlots
<1>5. ~Has(p, s)
  BY <1>1, <1>2, <1>4 DEF Good, NothingSpare, Builds, Empty
<1>6. \A a \in {"vm", "new"}, v \in VPages : Page(a, v) # s
  BY DEF Page
<1> HIDE DEF s
<1> QED BY <1>1, <1>3, <1>4, <1>5, <1>6, AllocatesInv

LEMMA KmapInv ==
  ASSUME IInv, NEW p \in Procs, ncalls' \in 0 .. MaxCalls, kmap(p)
  PROVE  IInv'
<1>1. pc[p] = "kpt"
  BY DEF kmap
<1>2. job[p].op \in {"fork", "exec"}
  BY <1>1, Parts, InCall DEF Good, JobInProgress
<1>3. CASE MissingTables(p) # {}
  <2> DEFINE i == Min(MissingTables(p))
             s == <<"new", "kpt", i>>
  <2>1. i \in MissingTables(p)
    <3>1. MissingTables(p) \in SUBSET Nat
      BY DEF MissingTables
    <3> QED BY <1>3, <3>1, FirstIsMember
  <2>2. i \in 0 .. NKPT - 1 /\ ~Has(p, s)
    BY <2>1 DEF MissingTables
  <2> HIDE DEF i
  <2>3. s \in Slots /\ s \in Spaces("new") /\ s # Stack /\ s # Mem
    BY <2>2, KernelTables, SpacesAreSlots
  <2>4. \A a \in {"vm", "new"}, v \in VPages : Page(a, v) # s
    BY DEF Page
  <2>5. Allocates(p, s, "kpt")
    BY <1>3 DEF kmap, i
  <2> HIDE DEF s
  <2> QED BY <1>1, <1>2, <2>2, <2>3, <2>4, <2>5, AllocatesInv
<1>4. CASE MissingTables(p) = {}
  <2>1. pc' = [pc EXCEPT ![p] = "alloc"] /\ UNCHANGED <<own, free, job, control>>
    BY <1>4 DEF kmap
  <2> QED BY <1>1, <2>1, AdvancesInv
<1> QED BY <1>3, <1>4

\* The parent of a fork() has the page: it has not changed its size meanwhile.
LEMMA KallocInv ==
  ASSUME IInv, NEW p \in Procs, ncalls' \in 0 .. MaxCalls, kalloc(p)
  PROVE  IInv'
<1>1. pc[p] = "alloc" /\ job[p].at < job[p].to /\ Good(p)
  BY Parts DEF kalloc
<1>2. /\ Here(p) \in Nat /\ job[p].at = Here(p) * PGSIZE /\ job[p].to \in 0 .. Size - 1
  BY <1>1, InCall
<1>3. Here(p) \in VPages
  BY <1>1, <1>2, PagesFit
<1>4. job[p].op = "fork" => Has(p, Page("vm", Here(p)))
  BY <1>1, <1>2, <1>3 DEF Good, OldSizeKept, Mapped
<1>5. Allocates(p, Mem, "table")
  BY <1>4 DEF kalloc
<1>6. Mem \in Slots /\ Mem # Stack /\ Mem \notin Spaces("new") /\ ~Has(p, Mem)
  BY <1>1, SpacesAreSlots DEF Good, NothingSpare
<1>7. \A a \in {"vm", "new"}, v \in VPages : Page(a, v) # Mem
  BY UserPages, SpacesAreSlots
<1> QED BY <1>1, <1>5, <1>6, <1>7, AllocatesInv

LEMMA WalkpgdirInv ==
  ASSUME IInv, NEW p \in Procs, ncalls' \in 0 .. MaxCalls, walkpgdir(p)
  PROVE  IInv'
<1>1. pc[p] = "table" /\ Good(p)
  BY Parts DEF walkpgdir
<1>2. job[p].at < job[p].to
  BY <1>1, InCall DEF Good, BuiltSoFar, JobInProgress
<1>3. CASE HasTable(p)
  BY <1>1, <1>2, <1>3, AdvancesInv DEF walkpgdir
<1>4. CASE ~HasTable(p)
  <2> DEFINE s == Table(Area(p), Here(p))
  <2>1. Allocates(p, s, "map") /\ ~Has(p, s)
    BY <1>4 DEF walkpgdir, HasTable
  <2>2. Here(p) \in VPages /\ Area(p) \in {"vm", "new"}
    BY <1>1, <1>2, InCall, PagesFit
  <2>3. s \in Spaces(Area(p)) /\ \A a \in {"vm", "new"}, v \in VPages : Page(a, v) # s
    BY <2>2, UserPages
  <2>4. s \in Slots /\ s # Stack /\ s # Mem
    BY <2>2, <2>3, SpacesAreSlots
  <2>5. s \in Spaces("new") => job[p].op \in {"fork", "exec"}
    BY <1>1, <2>3, InCall, SpacesAreSlots DEF Area
  <2> HIDE DEF s
  <2> QED BY <1>1, <1>2, <2>1, <2>3, <2>4, <2>5, AllocatesInv
<1> QED BY <1>3, <1>4

LEMMA MappagesInv ==
  ASSUME IInv, NEW p \in Procs, ncalls' \in 0 .. MaxCalls, mappages(p)
  PROVE  IInv'
<1> SUFFICES ASSUME NEW a, NEW k, NEW s, a = Area(p), k = Here(p), s = Page(a, k) PROVE IInv'
  OBVIOUS
<1>1. /\ Pool /\ \A q \in Procs : Good(q)
      /\ job \in [Procs -> Jobs] /\ TypeOK
  BY Parts DEF IInv
<1>2. pc[p] = "map" /\ pc[p] # "user" /\ job[p].op # "none" /\ job[p].at < job[p].to
  BY <1>1 DEF mappages, Good, JobInProgress, BuiltSoFar
<1>3. /\ state[p] = "RUNNABLE" /\ job[p].op \in {"sbrk", "fork", "exec"}
      /\ k \in Nat /\ job[p].at = k * PGSIZE /\ k <= PageUp(job[p].to)
      /\ job[p].to \in 0 .. Size - 1 /\ job[p].to \in Nat /\ a \in {"vm", "new"}
      /\ Mapped(p, a, k * PGSIZE)
  BY <1>2, InCall
<1>4. k \in VPages
  BY <1>2, <1>3, PagesFit
<1>5. ~Has(p, s)
  <2>1. k * PGSIZE \in Nat
    BY <1>3, Order
  <2> QED BY <1>3, <1>4, <2>1 DEF Mapped
<1>6. Has(p, Mem) /\ s \in Slots /\ s # Mem /\ s # Stack /\ Mem # Stack /\ Mem \in Slots
      /\ s \in Spaces(a)
  BY <1>1, <1>2, <1>3, <1>4, UserPages, SpacesAreSlots DEF Good, NothingSpare
<1>7. /\ Move(<<p, Mem>>, <<p, s>>)
      /\ pc' = [pc EXCEPT ![p] = "alloc"] /\ job' = [job EXCEPT ![p] = [job[p] EXCEPT !.at = @ + PGSIZE]]
      /\ UNCHANGED control
  BY <1>5 DEF mappages, Starts
<1>8. /\ Pool'
      /\ \A q \in Procs, u \in Slots :
           Has(q, u)' <=> (Has(q, u) /\ ~(q = p /\ u = Mem)) \/ (q = p /\ u = s)
  BY <1>1, <1>5, <1>6, <1>7, MoveKeeps
<1>9. /\ state' = state /\ sz' = sz /\ parent' = parent /\ panicked' = panicked
      /\ \A q \in Procs : pc'[q] = IF q = p THEN "alloc" ELSE pc[q]
      /\ \A q \in Procs : q # p => job'[q] = job[q]
      /\ job'[p] = [job[p] EXCEPT !.at = @ + PGSIZE]
  BY <1>1, <1>7 DEF control, TypeOK
<1>10. /\ job'[p].op = job[p].op /\ job'[p].to = job[p].to /\ job'[p].from = job[p].from
       /\ job'[p].size = job[p].size /\ job'[p].child = job[p].child
       /\ job'[p].at = job[p].at + PGSIZE /\ job'[p] \in Jobs
  <2>1. job[p].at \in Nat /\ PGSIZE \in Nat /\ job[p] \in Jobs
    BY <1>1, Constants DEF Jobs
  <2>2. job[p].at + PGSIZE \in Nat
    BY <2>1
  <2>3. job'[p] = [job[p] EXCEPT !.at = job[p].at + PGSIZE]
    BY <1>9
  <2> QED BY <2>1, <2>2, <2>3 DEF Jobs
<1>11. TypeOK'
  BY <1>1, <1>7, <1>8, <1>9 DEF TypeOK, Pool, Points
<1>12. job' \in [Procs -> Jobs]
  BY <1>1, <1>7, <1>9, <1>10
<1>13. ForkOwnsChild'
  <2>1. \A q \in Procs : Has(q, Stack)' => Has(q, Stack)
    BY <1>6, <1>8, SpacesOf
  <2>2. \A q \in Procs : state[q] = "EMBRYO" => state'[q] = "EMBRYO"
    BY <1>9
  <2>3. \A q \in Procs : q # p => job'[q] = job[q] /\ pc'[q] = pc[q]
    BY <1>9
  <2>4. pc'[p] # "kstack"
    BY <1>9
  <2> QED BY <1>10, <2>1, <2>2, <2>3, <2>4, SameForks
<1>14. ASSUME NEW q \in Procs, q # p PROVE Good(q)'
  BY <1>1, <1>8, <1>9, <1>14, SameProcess DEF SameHas
<1>15. Good(p)'
  <2>1. job'[p].at = (k + 1) * PGSIZE /\ Here(p)' = k + 1 /\ k + 1 \in Nat
    <3>1. k + 1 \in Nat /\ (k + 1) * PGSIZE = k * PGSIZE + PGSIZE
      BY <1>3, Constants
    <3>2. job'[p].at = (k + 1) * PGSIZE
      BY <1>3, <1>10, <3>1
    <3>3. Virtual(job'[p].at) = k + 1
      BY <3>1, <3>2, WholePages
    <3> QED BY <3>1, <3>2, <3>3 DEF Here, Virtual
  <2>2. Area(p)' = a
    BY <1>10 DEF Area
  <2>3. ASSUME NEW v \in VPages PROVE Has(p, Page(a, v))' <=> v * PGSIZE < (k + 1) * PGSIZE
    <3>1. Page(a, v) \in Slots /\ Page(a, v) # Mem /\ (Page(a, v) = s <=> v = k)
      <4>1. Page(a, v) \in Spaces(a) /\ (Page(a, v) = Page(a, k) => v = k)
        BY <1>3, <1>4, UserPages
      <4>2. Page(a, v) \in Slots /\ Page(a, v) # Mem
        BY <1>3, <4>1, SpacesAreSlots
      <4> QED BY <4>1, <4>2
    <3>2. v \in Nat /\ (v * PGSIZE < k * PGSIZE <=> v < k) /\ (v * PGSIZE < (k + 1) * PGSIZE <=> v < k + 1)
      BY <1>3, <2>1, Order DEF VPages
    <3>3. Has(p, Page(a, v)) <=> v < k
      BY <1>3, <3>2 DEF Mapped
    <3> QED BY <1>3, <1>8, <3>1, <3>2, <3>3
  <2>4. k + 1 <= PageUp(job[p].to)
    <3>1. PageUp(job[p].to) \in Nat /\ k < PageUp(job[p].to)
      BY <1>2, <1>3, RoundsUp
    <3> QED BY <1>3, <3>1
  <2>5. Mapped(p, Area(p), job[p].at)'
    BY <2>1, <2>2, <2>3 DEF Mapped
  <2>6. BuiltSoFar(p)'
    BY <1>9, <1>10, <2>1, <2>4, <2>5 DEF BuiltSoFar
  <2>7. JobInProgress(p)'
    BY <1>1, <1>2, <1>9, <1>10 DEF Good, JobInProgress
  <2>8. ~Has(p, Mem)' /\ (Has(p, Stack)' <=> Has(p, Stack))
    BY <1>6, <1>8, SpacesOf
  <2>9. ~Builds(p)' => Empty(p, "new")'
    <3>1. CASE job[p].op = "sbrk"
      <4>1. Empty(p, "new") /\ s \notin Spaces("new")
        BY <1>1, <1>6, <3>1, SpacesAreSlots DEF Good, NothingSpare, Builds, Area
      <4> QED BY <1>6, <1>8, <4>1, SpacesOf DEF Empty
    <3>2. CASE job[p].op \in {"fork", "exec"}
      BY <1>9, <1>10, <3>2 DEF Builds
    <3> QED BY <1>3, <3>1, <3>2
  <2>10. NothingSpare(p)'
    BY <1>3, <1>9, <2>8, <2>9 DEF NothingSpare
  <2>11. OldSizeKept(p)'
    <3>1. CASE job[p].op \in {"fork", "exec"}
      <4>1. Mapped(p, "vm", sz[p])
        BY <1>1, <3>1 DEF Good, OldSizeKept
      <4>2. \A v \in VPages : Has(p, Page("vm", v))' <=> Has(p, Page("vm", v))
        <5>1. s \in Spaces("new")
          BY <1>6, <3>1 DEF Area
        <5>2. \A v \in VPages : Page("vm", v) \in Slots /\ Page("vm", v) # s /\ Page("vm", v) # Mem
          BY <5>1, UserPages, SpacesAreSlots
        <5> QED BY <1>8, <5>2
      <4>3. Mapped(p, "vm", sz[p])'
        BY <1>9, <4>1, <4>2 DEF Mapped
      <4> QED BY <1>1, <1>9, <1>10, <3>1, <4>3 DEF Good, OldSizeKept
    <3>2. CASE job[p].op = "sbrk"
      <4>1. job[p].from = sz[p] /\ job[p].from <= job[p].to /\ PageUp(job[p].from) <= k /\ PageUp(job[p].from) \in Nat
        BY <1>1, <3>2, InCall, <1>2, RoundsUp DEF Good, OldSizeKept
      <4>2. PageUp(job'[p].from) <= k + 1
        BY <1>3, <1>10, <4>1
      <4>3. PageUp(job[p].from)' = PageUp(job'[p].from)
        BY DEF PageUp
      <4> QED BY <1>9, <1>10, <2>1, <3>2, <4>1, <4>2, <4>3 DEF OldSizeKept
    <3> QED BY <1>3, <3>1, <3>2
  <2>12. SizeMatches(p)'
    BY <1>9 DEF SizeMatches
  <2> QED BY <2>6, <2>7, <2>10, <2>11, <2>12 DEF Good
<1>16. NoPanic'
  BY <1>9 DEF IInv, NoPanic
<1> QED BY <1>8, <1>11, <1>12, <1>13, <1>14, <1>15, <1>16, Whole

-------------------------------------------------------------------------------
(* Steps that change one process only. *)

LEMMA SamePages ==
  ASSUME Pool, UNCHANGED <<own, free>>
  PROVE  Pool' /\ \A q \in Procs : SameHas(q)
BY DEF Pool, PagesPartitioned, OneOwner, FreeOrOwned, Held, SameHas, Has

LEMMA OnlyOneInv ==
  ASSUME IInv, NEW p \in Procs, ncalls' \in 0 .. MaxCalls, Pool',
         \A q \in Procs : q # p => SameHas(q),
         Has(p, Stack)' => Has(p, Stack),
         UNCHANGED <<state, parent, panicked>>,
         sz' \in [Procs -> 0 .. Size - 1], \A q \in Procs : q # p => sz'[q] = sz[q],
         NEW x \in Points, NEW j \in Jobs,
         pc' = [pc EXCEPT ![p] = x], job' = [job EXCEPT ![p] = j], j.op # "fork",
         Good(p)'
  PROVE  IInv'
<1>1. /\ Pool /\ \A q \in Procs : Good(q)
      /\ job \in [Procs -> Jobs] /\ TypeOK
  BY Parts DEF IInv
<1>2. /\ job'[p] = j
      /\ \A q \in Procs : q # p => job'[q] = job[q] /\ pc'[q] = pc[q]
  BY <1>1 DEF TypeOK
<1>3. TypeOK'
  BY <1>1 DEF TypeOK, Pool
<1>4. job' \in [Procs -> Jobs]
  BY <1>1
<1>5. ForkOwnsChild'
  <2>1. \A q \in Procs : Has(q, Stack)' => Has(q, Stack)
    BY SpacesOf DEF SameHas
  <2> QED BY <1>2, <2>1, SameForks
<1>6. ASSUME NEW q \in Procs, q # p PROVE Good(q)'
  BY <1>1, <1>2, <1>6, SameProcess
<1>7. NoPanic'
  BY DEF IInv, NoPanic
<1> QED BY <1>3, <1>4, <1>5, <1>6, <1>7, Whole

-------------------------------------------------------------------------------
(* Calls that begin or end. *)

LEMMA FirstPage == 0 \in VPages /\ 0 * PGSIZE = 0
BY Constants DEF VPages

\* A process that runs its program has the pages its size says.
LEMMA RunningIs ==
  ASSUME IInv, NEW p \in Procs, InUser(p)
  PROVE  /\ state[p] = "RUNNABLE" /\ pc[p] = "user" /\ job[p].op = "none"
         /\ sz[p] \in 0 .. Size - 1 /\ sz[p] \in Nat
         /\ Mapped(p, "vm", sz[p])
         /\ Empty(p, "new") /\ ~Has(p, Mem)
<1>1. Good(p) /\ sz[p] \in 0 .. Size - 1 /\ Size \in Nat
  BY Parts, Constants DEF IInv, TypeOK
<1>2. state[p] = "RUNNABLE" /\ pc[p] = "user" /\ job[p].op = "none" /\ Has(p, Page("vm", 0))
  BY <1>1 DEF InUser, Good, JobInProgress
<1>3. ~Mapped(p, "vm", 0)
  BY <1>2, FirstPage DEF Mapped
<1> QED BY <1>1, <1>2, <1>3 DEF Good, SizeMatches, NothingSpare, Builds

LEMMA MappedUp ==
  ASSUME NEW p, NEW a, NEW n \in Nat
  PROVE  Mapped(p, a, n) <=> Mapped(p, a, PageUp(n) * PGSIZE)
<1>1. \A v \in VPages : v * PGSIZE < n <=> v * PGSIZE < PageUp(n) * PGSIZE
  <2> SUFFICES ASSUME NEW v \in VPages PROVE v * PGSIZE < n <=> v * PGSIZE < PageUp(n) * PGSIZE
    OBVIOUS
  <2>1. v \in Nat /\ PageUp(n) \in Nat /\ (v < PageUp(n) <=> v * PGSIZE < n)
    BY PageBelow
  <2> QED BY <2>1, Order
<1> QED BY <1>1 DEF Mapped

LEMMA UpOrder ==
  ASSUME NEW m \in Nat, NEW n \in Nat, m <= n
  PROVE  PageUp(m) \in Nat /\ PageUp(n) \in Nat /\ PageUp(m) <= PageUp(n)
<1>1. PageUp(m) \in Nat /\ PageUp(n) \in Nat
  BY RoundsUp
<1> DEFINE d == PageUp(n)
<1>2. ASSUME d < PageUp(m) PROVE FALSE
  <2>1. d * PGSIZE < m /\ ~(d * PGSIZE < n) /\ d * PGSIZE \in Nat
    <3>1. d \in Nat /\ ~(d < d)
      BY <1>1
    <3> HIDE DEF d
    <3>2. d * PGSIZE < m /\ d * PGSIZE \in Nat
      BY <1>2, <3>1, RoundsUp, Order
    <3>3. d < PageUp(n) <=> d * PGSIZE < n
      BY <3>1, RoundsUp
    <3> QED BY <3>1, <3>2, <3>3 DEF d
  <2> QED BY <2>1
<1> QED BY <1>1, <1>2

\* Nothing is built yet.
LEMMA NothingMapped ==
  ASSUME NEW p, Empty(p, "new")
  PROVE  Mapped(p, "new", 0)
<1>1. \A v \in VPages : ~Has(p, Page("new", v)) /\ ~(v * PGSIZE < 0)
  BY UserPages, Order DEF Empty, VPages
<1> QED BY <1>1 DEF Mapped

LEMMA SbrkGrowsInv ==
  ASSUME IInv, NEW p \in Procs, ncalls' \in 0 .. MaxCalls, NEW n \in Int, sbrkGrows(p, n)
  PROVE  IInv'
<1>1. Pool /\ Good(p) /\ TypeOK
  BY Parts DEF IInv
<1>2. /\ state[p] = "RUNNABLE" /\ pc[p] = "user" /\ job[p].op = "none"
      /\ sz[p] \in 0 .. Size - 1 /\ sz[p] \in Nat /\ Mapped(p, "vm", sz[p])
      /\ Empty(p, "new") /\ ~Has(p, Mem)
  BY RunningIs DEF sbrkGrows, Calls
<1>3. UNCHANGED <<own, free, state, parent, sz, panicked>> /\ n > 0
  BY DEF sbrkGrows
<1>4. Pool' /\ \A q \in Procs : SameHas(q)
  BY <1>1, <1>3, SamePages
<1>5. /\ Empty(p, "new")' /\ ~Has(p, Mem)'
      /\ \A k : Mapped(p, "vm", k)' <=> Mapped(p, "vm", k)
      /\ Has(p, Stack)' => Has(p, Stack)
  BY <1>2, <1>4, SameEmpty, SameSpaces, SpacesOf DEF SameHas
<1>6. sz' \in [Procs -> 0 .. Size - 1] /\ \A q \in Procs : q # p => sz'[q] = sz[q]
  BY <1>1, <1>3 DEF TypeOK
<1>7. CASE TooBig(sz[p] + n)
  <2>1. pc' = [pc EXCEPT ![p] = "user"] /\ job' = [job EXCEPT ![p] = NoJob]
    BY <1>7 DEF sbrkGrows, Returns, Starts
  <2>2. pc'[p] = "user" /\ job'[p].op = "none"
    BY <1>1, <2>1, NoJobIsJob DEF IInv, TypeOK
  <2>3. Good(p)'
    BY <1>2, <1>3, <1>5, <2>2 DEF Good, SizeMatches, JobInProgress, NothingSpare, BuiltSoFar,
                                  OldSizeKept, Builds
  <2> QED BY <1>3, <1>4, <1>5, <1>6, <2>1, <2>3, OnlyOneInv, NoJobIsJob DEF Points
<1>8. CASE ~TooBig(sz[p] + n)
  <2> SUFFICES ASSUME NEW j, j = [NoJob EXCEPT !.op = "sbrk", !.at = PageUp(sz[p]) * PGSIZE,
                                               !.from = sz[p], !.to = sz[p] + n]
               PROVE  IInv'
    OBVIOUS
  <2>1. pc' = [pc EXCEPT ![p] = "alloc"] /\ job' = [job EXCEPT ![p] = j]
    BY <1>8 DEF sbrkGrows, Starts
  <2>2. /\ j.op = "sbrk" /\ j.at = PageUp(sz[p]) * PGSIZE /\ j.from = sz[p] /\ j.to = sz[p] + n
        /\ sz[p] + n \in 0 .. Size - 1 /\ sz[p] + n \in Nat
    BY <1>2, <1>3, <1>8, Constants DEF NoJob, TooBig
  <2>3. /\ PageUp(sz[p]) \in Nat /\ PageUp(sz[p]) <= PageUp(sz[p] + n)
        /\ PageUp(sz[p]) * PGSIZE \in Nat /\ Virtual(PageUp(sz[p]) * PGSIZE) = PageUp(sz[p])
    <3>1. sz[p] <= sz[p] + n
      BY <1>2, <1>3
    <3>2. PageUp(sz[p]) \in Nat /\ PageUp(sz[p]) <= PageUp(sz[p] + n)
      BY <1>2, <2>2, <3>1, UpOrder
    <3> QED BY <3>2, WholePages, Order
  <2>4. j \in Jobs
    BY <1>2, <2>2, <2>3, NoJobIsJob DEF Jobs, Ops
  <2>5. pc'[p] = "alloc" /\ job'[p] = j
    BY <1>1, <2>1 DEF IInv, TypeOK
  <2>6. Mapped(p, "vm", PageUp(sz[p]) * PGSIZE)
    BY <1>2, MappedUp
  <2>7. Here(p)' = PageUp(sz[p]) /\ Area(p)' = "vm"
    BY <2>2, <2>3, <2>5 DEF Here, Area, Virtual
  <2>8. BuiltSoFar(p)'
    <3> SUFFICES ASSUME NEW d, d = PageUp(sz[p]) PROVE BuiltSoFar(p)'
      OBVIOUS
    <3>1. Mapped(p, "vm", d * PGSIZE)'
      BY <1>5, <2>6
    <3>2. PageUp(job'[p].to) = PageUp(sz[p] + n)
      BY <2>2, <2>5
    <3> QED BY <2>2, <2>3, <2>5, <2>7, <3>1, <3>2 DEF BuiltSoFar, PageUp
  <2>9. OldSizeKept(p)'
    <3>1. PageUp(job'[p].from) = PageUp(sz[p]) /\ PageUp(sz[p]) <= PageUp(sz[p])
      <4>1. PageUp(sz[p]) \in Nat
        BY <2>3
      <4>2. job'[p].from = sz[p]
        BY <2>2, <2>5
      <4> QED BY <4>1, <4>2
    <3>2. PageUp(job[p].from)' = PageUp(job'[p].from)
      BY DEF PageUp
    <3>3. PageUp(job[p].from)' <= Here(p)'
      BY <2>7, <3>1, <3>2
    <3>4. sz[p] <= sz[p] + n
      BY <1>2, <1>3
    <3> QED BY <1>3, <2>2, <2>5, <3>3, <3>4 DEF OldSizeKept
  <2>10. Good(p)'
    BY <1>2, <1>3, <1>5, <2>2, <2>5, <2>8, <2>9 DEF Good, SizeMatches, JobInProgress, NothingSpare,
                                                    Builds
  <2> QED BY <1>3, <1>4, <1>5, <1>6, <2>1, <2>2, <2>4, <2>10, OnlyOneInv DEF Points
<1> QED BY <1>7, <1>8

LEMMA ExecInv ==
  ASSUME IInv, NEW p \in Procs, ncalls' \in 0 .. MaxCalls, NEW image \in Images, exec(p, image)
  PROVE  IInv'
<1>1. Pool /\ Good(p) /\ TypeOK
  BY Parts DEF IInv
<1>2. /\ state[p] = "RUNNABLE" /\ pc[p] = "user" /\ job[p].op = "none"
      /\ sz[p] \in 0 .. Size - 1 /\ sz[p] \in Nat /\ Mapped(p, "vm", sz[p])
      /\ Empty(p, "new") /\ ~Has(p, Mem)
  BY RunningIs DEF exec, Calls
<1>3. UNCHANGED <<own, free, state, parent, sz, panicked>>
  BY DEF exec
<1>4. Pool' /\ \A q \in Procs : SameHas(q)
  BY <1>1, <1>3, SamePages
<1>5. /\ Empty(p, "new")' /\ ~Has(p, Mem)'
      /\ Mapped(p, "vm", sz[p])' /\ Mapped(p, "new", 0)'
      /\ Has(p, Stack)' => Has(p, Stack)
  <2>1. \A k : /\ Mapped(p, "vm", k)' <=> Mapped(p, "vm", k)
               /\ Mapped(p, "new", k)' <=> Mapped(p, "new", k)
    BY <1>4, SameSpaces
  <2>2. Mapped(p, "vm", sz[p])'
    BY <1>2, <1>3, <2>1 DEF Mapped
  <2> QED BY <1>2, <1>4, <2>1, <2>2, NothingMapped, SameEmpty, SpacesOf DEF SameHas
<1>6. sz' \in [Procs -> 0 .. Size - 1] /\ \A q \in Procs : q # p => sz'[q] = sz[q]
  BY <1>1, <1>3 DEF TypeOK
<1> SUFFICES ASSUME NEW j, j = [NoJob EXCEPT !.op = "exec", !.segs = image] PROVE IInv'
  OBVIOUS
<1>7. pc' = [pc EXCEPT ![p] = "dir"] /\ job' = [job EXCEPT ![p] = j]
  BY DEF exec, Starts
<1>8. j.op = "exec" /\ j.at = 0 /\ j.to = 0 /\ j.size = 0 /\ j \in Jobs
  <2>1. image \in Seq(Nat)
    BY MemoryAssumption
  <2> QED BY <2>1, NoJobIsJob DEF NoJob, Jobs, Ops
<1>9. pc'[p] = "dir" /\ job'[p] = j
  BY <1>1, <1>7 DEF IInv, TypeOK
<1>10. PageUp(0) \in Nat /\ Virtual(0) = 0 /\ 0 * PGSIZE = 0
  BY RoundsUp, WholePages, FirstPage
<1>11. Here(p)' = 0 /\ Area(p)' = "new"
  BY <1>8, <1>9, <1>10 DEF Here, Area, Virtual
<1>12. BuiltSoFar(p)'
  <2>1. PageUp(job'[p].to) \in Nat
    BY <1>8, <1>9, <1>10
  <2> QED BY <1>5, <1>8, <1>9, <1>10, <1>11, <2>1 DEF BuiltSoFar, PageUp
<1>13. OldSizeKept(p)'
  BY <1>5, <1>8, <1>9 DEF OldSizeKept
<1>14. Good(p)'
  BY <1>2, <1>3, <1>5, <1>8, <1>9, <1>12, <1>13 DEF Good, SizeMatches, JobInProgress, NothingSpare, Builds
<1> QED BY <1>3, <1>4, <1>5, <1>6, <1>7, <1>8, <1>14, OnlyOneInv DEF Points

-------------------------------------------------------------------------------
(* The end of allocuvm() and copyuvm(): the pages are those below job[p].to. *)

LEMMA AllBuilt ==
  ASSUME IInv, NEW p \in Procs, pc[p] = "alloc", job[p].at >= job[p].to
  PROVE  Here(p) = PageUp(job[p].to) /\ Mapped(p, Area(p), job[p].to)
<1> SUFFICES ASSUME NEW k, NEW n, k = Here(p), n = job[p].to
             PROVE  k = PageUp(n) /\ Mapped(p, Area(p), n)
  OBVIOUS
<1>1. /\ k \in Nat /\ job[p].at = k * PGSIZE /\ k <= PageUp(n) /\ n \in Nat
      /\ Mapped(p, Area(p), k * PGSIZE) /\ n <= k * PGSIZE
  BY InCall
<1>2. k = PageUp(n)
  <2>1. PageUp(n) \in Nat /\ (k < PageUp(n) <=> k * PGSIZE < n)
    BY <1>1, RoundsUp
  <2>2. k * PGSIZE \in Nat
    BY <1>1, Order
  <2> QED BY <1>1, <2>1, <2>2
<1> QED BY <1>1, <1>2, MappedUp

LEMMA GrowprocInv ==
  ASSUME IInv, NEW p \in Procs, ncalls' \in 0 .. MaxCalls, growproc(p)
  PROVE  IInv'
<1>1. Pool /\ Good(p) /\ TypeOK
  BY Parts DEF IInv
<1>2. /\ pc[p] = "alloc" /\ job[p].op = "sbrk" /\ job[p].at >= job[p].to
      /\ sz' = [sz EXCEPT ![p] = job[p].to]
      /\ pc' = [pc EXCEPT ![p] = "user"] /\ job' = [job EXCEPT ![p] = NoJob]
      /\ UNCHANGED <<free, own, state, parent, panicked>>
  BY DEF growproc, Allocated, NewBreak, Returns, Starts
<1>3. state[p] = "RUNNABLE" /\ job[p].to \in 0 .. Size - 1
  BY <1>2, InCall
<1>4. Pool' /\ \A q \in Procs : SameHas(q)
  BY <1>1, <1>2, SamePages
<1>5. sz' \in [Procs -> 0 .. Size - 1] /\ sz'[p] = job[p].to /\ \A q \in Procs : q # p => sz'[q] = sz[q]
  BY <1>1, <1>2, <1>3 DEF TypeOK
<1>6. pc'[p] = "user" /\ job'[p].op = "none"
  BY <1>1, <1>2, NoJobIsJob DEF IInv, TypeOK
<1>7. Empty(p, "new")' /\ ~Has(p, Mem)' /\ (Has(p, Stack)' => Has(p, Stack))
  <2>1. Empty(p, "new") /\ ~Has(p, Mem)
    BY <1>1, <1>2 DEF Good, NothingSpare, Builds
  <2> QED BY <1>4, <2>1, SameEmpty, SpacesOf DEF SameHas
<1>8. Mapped(p, "vm", sz[p])'
  <2>1. Mapped(p, "vm", job[p].to)
    BY <1>2, AllBuilt DEF Area
  <2>2. \A v \in VPages : Has(p, Page("vm", v))' <=> Has(p, Page("vm", v))
    BY <1>4, SpacesOf DEF SameHas
  <2> QED BY <1>5, <2>1, <2>2 DEF Mapped
<1>9. Good(p)'
  BY <1>2, <1>3, <1>6, <1>7, <1>8 DEF Good, SizeMatches, JobInProgress, NothingSpare, BuiltSoFar,
                                      OldSizeKept, Builds
<1> QED BY <1>2, <1>4, <1>5, <1>7, <1>9, OnlyOneInv, NoJobIsJob DEF Points

\* exec() goes on with the pages from where it is to a larger end.
LEMMA NextAreaInv ==
  ASSUME IInv, NEW p \in Procs, ncalls' \in 0 .. MaxCalls, Allocated(p, "exec"),
         NEW j \in Jobs, j.op = "exec", j.at = PageUp(job[p].size) * PGSIZE, j.to = j.size,
         job[p].size <= j.size,
         Starts(p, "alloc", j), UNCHANGED <<free, own, control>>
  PROVE  IInv'
<1>1. Pool /\ Good(p) /\ TypeOK
  BY Parts DEF IInv
<1>2. /\ pc[p] = "alloc" /\ job[p].op = "exec" /\ job[p].at >= job[p].to
      /\ pc' = [pc EXCEPT ![p] = "alloc"] /\ job' = [job EXCEPT ![p] = j]
      /\ UNCHANGED <<free, own, state, parent, sz, panicked>>
  BY DEF Allocated, Starts, control
<1>3. pc'[p] = "alloc" /\ job'[p] = j
  BY <1>1, <1>2 DEF IInv, TypeOK
<1>4. /\ state[p] = "RUNNABLE" /\ job[p].to \in Nat /\ job[p].to = job[p].size
      /\ j.size \in Nat
  <2>1. j.size \in 0 .. Size - 1 /\ Size \in Nat
    BY Constants DEF Jobs
  <2> QED BY <1>1, <1>2, <2>1, InCall DEF Good, OldSizeKept
<1> SUFFICES ASSUME NEW d, d = PageUp(job[p].size) PROVE IInv'
  OBVIOUS
<1>5. d \in Nat /\ d <= PageUp(j.size) /\ Virtual(d * PGSIZE) = d
  BY <1>4, UpOrder, WholePages
<1>6. Here(p)' = d /\ Area(p)' = "new"
  BY <1>3, <1>5 DEF Here, Area, Virtual
<1>7. Mapped(p, "new", d * PGSIZE) /\ Mapped(p, "vm", sz[p])
  <2>1. d = Here(p) /\ job[p].at = Here(p) * PGSIZE
    BY <1>2, <1>4, AllBuilt, InCall
  <2> QED BY <1>1, <1>2, <2>1, InCall DEF Good, OldSizeKept, Area
<1>8. Pool' /\ \A q \in Procs : SameHas(q)
  BY <1>1, <1>2, SamePages
<1>9. Mapped(p, "new", d * PGSIZE)' /\ Mapped(p, "vm", sz[p])'
  <2>1. \A v \in VPages : /\ Has(p, Page("vm", v))' <=> Has(p, Page("vm", v))
                          /\ Has(p, Page("new", v))' <=> Has(p, Page("new", v))
    BY <1>8, SpacesOf DEF SameHas
  <2> QED BY <1>2, <1>7, <2>1 DEF Mapped
<1>10. ~Has(p, Mem)' /\ (Has(p, Stack)' => Has(p, Stack))
  BY <1>1, <1>2, <1>8, SpacesOf DEF SameHas, Good, NothingSpare
<1>11. BuiltSoFar(p)'
  <2>1. PageUp(job[p].to)' = PageUp(j.size)
    BY <1>3 DEF PageUp
  <2>2. Mapped(p, Area(p), job[p].at)'
    BY <1>3, <1>6, <1>9
  <2> QED BY <1>3, <1>5, <1>6, <2>1, <2>2 DEF BuiltSoFar
<1>12. OldSizeKept(p)'
  BY <1>3, <1>9 DEF OldSizeKept
<1>13. Good(p)'
  BY <1>2, <1>3, <1>4, <1>10, <1>11, <1>12 DEF Good, SizeMatches, JobInProgress, NothingSpare, Builds
<1>14. sz' \in [Procs -> 0 .. Size - 1] /\ \A q \in Procs : q # p => sz'[q] = sz[q]
  BY <1>1, <1>2 DEF TypeOK
<1> QED BY <1>2, <1>8, <1>10, <1>13, <1>14, OnlyOneInv DEF Points

LEMMA ExecSegmentInv ==
  ASSUME IInv, NEW p \in Procs, ncalls' \in 0 .. MaxCalls, execSegment(p)
  PROVE  IInv'
<1> SUFFICES ASSUME NEW end, NEW size, end = Head(job[p].segs),
                    size = IF end < job[p].size THEN job[p].size ELSE end
             PROVE  IInv'
  OBVIOUS
<1>1. Allocated(p, "exec") /\ job[p].segs # <<>> /\ pc[p] # "user"
  BY DEF execSegment, Allocated
<1>2. job[p] \in Jobs
  BY DEF IInv
<1>3. CASE TooBig(end) \/ size = 0
  <2>1. Fails(p)
    BY <1>3 DEF execSegment
  <2> QED BY <1>1, <2>1, FailsInv
<1>4. CASE ~(TooBig(end) \/ size = 0)
  <2> SUFFICES ASSUME NEW j, j = [job[p] EXCEPT !.segs = Tail(job[p].segs), !.to = size, !.size = size,
                                                !.at = PageUp(job[p].size) * PGSIZE]
               PROVE  IInv'
    OBVIOUS
  <2>1. Starts(p, "alloc", j) /\ UNCHANGED <<free, own, control>>
    BY <1>4 DEF execSegment
  <2>2. job[p].segs \in Seq(Nat) /\ job[p].size \in 0 .. Size - 1 /\ Size \in Nat
    BY <1>2, Constants DEF Jobs
  <2>3. end \in Nat /\ Tail(job[p].segs) \in Seq(Nat)
    BY <1>1, <2>2, SMTT(30)
  <2>4. size \in 0 .. Size - 1 /\ job[p].size <= size /\ job[p].size \in Nat
    BY <1>4, <2>2, <2>3, SMTT(30) DEF TooBig
  <2>5. PageUp(job[p].size) * PGSIZE \in Nat
    BY <2>4, RoundsUp, Order
  <2>6. j \in Jobs
    BY <1>2, <2>3, <2>4, <2>5 DEF Jobs
  <2>7. j.op = "exec" /\ j.at = PageUp(job[p].size) * PGSIZE /\ j.to = size /\ j.size = size
    BY <1>1, <1>2 DEF Jobs, Allocated
  <2> QED BY <1>1, <2>1, <2>4, <2>6, <2>7, NextAreaInv
<1> QED BY <1>3, <1>4

LEMMA ExecStackInv ==
  ASSUME IInv, NEW p \in Procs, ncalls' \in 0 .. MaxCalls, execStack(p)
  PROVE  IInv'
<1> SUFFICES ASSUME NEW base, NEW end, base = PageUp(job[p].size) * PGSIZE, end = base + 2 * PGSIZE
             PROVE  IInv'
  OBVIOUS
<1>1. Allocated(p, "exec") /\ pc[p] # "user"
  BY DEF execStack, Allocated
<1>2. job[p] \in Jobs
  BY DEF IInv
<1>3. CASE TooBig(end)
  <2>1. Fails(p)
    BY <1>3 DEF execStack
  <2> QED BY <1>1, <2>1, FailsInv
<1>4. CASE ~TooBig(end)
  <2> SUFFICES ASSUME NEW j, j = [job[p] EXCEPT !.stack = TRUE, !.at = base, !.to = end, !.size = end]
               PROVE  IInv'
    OBVIOUS
  <2>1. Starts(p, "alloc", j) /\ UNCHANGED <<free, own, control>>
    BY <1>4 DEF execStack
  <2>2. job[p].size \in 0 .. Size - 1 /\ Size \in Nat /\ job[p].size \in Nat /\ PGSIZE \in Nat
    BY <1>2, Constants, SMTT(30) DEF Jobs
  <2>3. base \in Nat /\ job[p].size <= base
    <3> SUFFICES ASSUME NEW d, d = PageUp(job[p].size) PROVE base \in Nat /\ job[p].size <= base
      OBVIOUS
    <3>1. d \in Nat /\ ~(d < d)
      BY <2>2, RoundsUp
    <3>2. ~(d * PGSIZE < job[p].size) /\ d * PGSIZE \in Nat
      BY <2>2, <3>1, RoundsUp, Order
    <3> QED BY <2>2, <3>2
  <2>4. end \in 0 .. Size - 1 /\ job[p].size <= end
    BY <1>4, <2>2, <2>3 DEF TooBig
  <2>5. j \in Jobs
    BY <1>2, <2>3, <2>4 DEF Jobs
  <2>6. j.op = "exec" /\ j.at = base /\ j.to = end /\ j.size = end
    BY <1>1, <1>2 DEF Jobs, Allocated
  <2> QED BY <1>1, <2>1, <2>4, <2>5, <2>6, NextAreaInv
<1> QED BY <1>3, <1>4

LEMMA ExecFailsInv ==
  ASSUME IInv, NEW p \in Procs, ncalls' \in 0 .. MaxCalls, execFails(p)
  PROVE  IInv'
BY FailsInv DEF execFails, Allocated

\* The new address space of p, which has the pages below n, is that of q now.
LEMMA CommitGives ==
  ASSUME Pool, NEW p \in Procs, NEW q \in Procs, Commit(p, q), Empty(q, "new") \/ p = q,
         NEW n, Mapped(p, "new", n)
  PROVE  Mapped(q, "vm", n)' /\ Empty(q, "new")' /\ Empty(p, "new")'
<1>1. \A r \in Procs, s \in Slots :
        Has(r, s)' <=> IF r = q /\ s \in Spaces("vm") THEN Has(p, <<"new", s[2], s[3]>>)
                       ELSE Has(r, s) /\ ~(r = p /\ s \in Spaces("new"))
  BY CommitKeeps
<1>2. Mapped(q, "vm", n)'
  <2>1. \A v \in VPages : Page("vm", v) \in Slots /\ Page("vm", v) \in Spaces("vm")
    BY SpacesOf, UserPages
  <2>2. \A v \in VPages : <<"new", Page("vm", v)[2], Page("vm", v)[3]>> = Page("new", v)
    BY DEF Page
  <2>3. \A v \in VPages : Has(q, Page("vm", v))' <=> Has(p, Page("new", v))
    BY <1>1, <2>1, <2>2
  <2> QED BY <2>3 DEF Mapped
<1>3. \A s \in Spaces("new") : s \in Slots /\ s \notin Spaces("vm")
  BY SpacesAreSlots
<1>4. Empty(q, "new")' /\ Empty(p, "new")'
  BY <1>1, <1>3 DEF Empty
<1> QED BY <1>2, <1>4

LEMMA ExecCommitsInv ==
  ASSUME IInv, NEW p \in Procs, ncalls' \in 0 .. MaxCalls, execCommits(p)
  PROVE  IInv'
<1>1. Pool /\ Good(p) /\ TypeOK
  BY Parts DEF IInv
<1>2. /\ pc[p] = "alloc" /\ job[p].op = "exec" /\ job[p].at >= job[p].to
      /\ Commit(p, p) /\ sz' = [sz EXCEPT ![p] = job[p].size]
      /\ pc' = [pc EXCEPT ![p] = "user"] /\ job' = [job EXCEPT ![p] = NoJob]
      /\ UNCHANGED <<state, parent, panicked>>
  BY DEF execCommits, Allocated, Returns, Starts
<1>3. state[p] = "RUNNABLE" /\ job[p].to \in 0 .. Size - 1 /\ job[p].to = job[p].size
  BY <1>1, <1>2, InCall DEF Good, OldSizeKept
<1>4. sz' \in [Procs -> 0 .. Size - 1] /\ sz'[p] = job[p].to /\ \A q \in Procs : q # p => sz'[q] = sz[q]
  BY <1>1, <1>2, <1>3 DEF TypeOK
<1>5. pc'[p] = "user" /\ job'[p].op = "none"
  BY <1>1, <1>2, NoJobIsJob DEF IInv, TypeOK
<1>6. /\ Pool'
      /\ \A r \in Procs, s \in Slots :
           Has(r, s)' <=> IF r = p /\ s \in Spaces("vm") THEN Has(p, <<"new", s[2], s[3]>>)
                          ELSE Has(r, s) /\ ~(r = p /\ s \in Spaces("new"))
  BY <1>1, <1>2, CommitKeeps
<1>7. \A q \in Procs : q # p => SameHas(q)
  BY <1>6 DEF SameHas
<1>8. (Has(p, Stack)' => Has(p, Stack)) /\ ~Has(p, Mem)'
  <2>1. ~Has(p, Mem)
    BY <1>1, <1>2 DEF Good, NothingSpare
  <2> QED BY <1>6, <2>1, SpacesAreSlots
<1>9. Mapped(p, "new", job[p].to)
  BY <1>2, AllBuilt DEF Area
<1>10. Mapped(p, "vm", sz[p])' /\ Empty(p, "new")'
  <2> SUFFICES ASSUME NEW n, n = job[p].to PROVE Mapped(p, "vm", sz[p])' /\ Empty(p, "new")'
    OBVIOUS
  <2>1. Mapped(p, "vm", n)' /\ Empty(p, "new")'
    BY <1>1, <1>2, <1>9, CommitGives
  <2> QED BY <1>4, <2>1
<1>11. Good(p)'
  BY <1>2, <1>3, <1>5, <1>8, <1>10 DEF Good, SizeMatches, JobInProgress, NothingSpare, BuiltSoFar,
                                       OldSizeKept, Builds
<1> QED BY <1>2, <1>4, <1>6, <1>7, <1>8, <1>11, OnlyOneInv, NoJobIsJob DEF Points

-------------------------------------------------------------------------------
(* deallocuvm() *)

LEMMA SbrkShrinksInv ==
  ASSUME IInv, NEW p \in Procs, ncalls' \in 0 .. MaxCalls, NEW n \in Int, sbrkShrinks(p, n)
  PROVE  IInv'
<1> SUFFICES ASSUME NEW new, new = (sz[p] + n + WORD) % WORD PROVE IInv'
  OBVIOUS
<1>1. Pool /\ Good(p) /\ TypeOK /\ job \in [Procs -> Jobs]
  BY Parts DEF IInv
<1>2. /\ state[p] = "RUNNABLE" /\ pc[p] = "user" /\ job[p].op = "none"
      /\ sz[p] \in 0 .. Size - 1 /\ sz[p] \in Nat /\ Mapped(p, "vm", sz[p])
      /\ Empty(p, "new") /\ ~Has(p, Mem)
  BY RunningIs DEF sbrkShrinks, Calls
<1>3. UNCHANGED <<state, parent, pc, job, panicked>>
  BY DEF sbrkShrinks
<1>4. new \in Nat
  <2>1. WORD \in Nat /\ WORD > 0 /\ sz[p] + n + WORD \in Int
    BY <1>2, Constants
  <2> QED BY <2>1
<1>5. job[p] \in Jobs /\ pc[p] \in Points /\ pc' = [pc EXCEPT ![p] = pc[p]] /\ job' = [job EXCEPT ![p] = job[p]]
  BY <1>1, <1>3 DEF TypeOK
<1>6. /\ Pool' /\ (\A q \in Procs : q # p => SameHas(q)) /\ (Has(p, Stack)' => Has(p, Stack))
      /\ sz' \in [Procs -> 0 .. Size - 1] /\ (\A q \in Procs : q # p => sz'[q] = sz[q])
      /\ Mapped(p, "vm", sz[p])' \/ Mapped(p, "vm", 0)'
      /\ Empty(p, "new")' /\ ~Has(p, Mem)'
  <2>1. CASE new >= sz[p]
    <3>1. UNCHANGED <<own, free, sz>>
      BY <2>1 DEF sbrkShrinks
    <3>2. Pool' /\ \A q \in Procs : SameHas(q)
      BY <1>1, <3>1, SamePages
    <3>3. Mapped(p, "vm", sz[p])'
      BY <1>2, <3>1, <3>2, SpacesOf DEF SameHas, Mapped
    <3> QED BY <1>1, <1>2, <3>1, <3>2, <3>3, SameEmpty, SpacesOf DEF TypeOK, SameHas
  <2>2. CASE new < sz[p]
    <3> SUFFICES ASSUME NEW H, H = Above(p, "vm", sz[p], new)
                 PROVE  /\ Pool' /\ (\A q \in Procs : q # p => SameHas(q)) /\ (Has(p, Stack)' => Has(p, Stack))
                        /\ sz' \in [Procs -> 0 .. Size - 1] /\ (\A q \in Procs : q # p => sz'[q] = sz[q])
                        /\ Mapped(p, "vm", sz[p])' \/ Mapped(p, "vm", 0)'
                        /\ Empty(p, "new")' /\ ~Has(p, Mem)'
      OBVIOUS
    <3>1. Give(H) /\ sz' = IF new = 0 THEN sz ELSE [sz EXCEPT ![p] = new]
      BY <1>2, <1>4, <2>2 DEF sbrkShrinks
    <3>2. H = {<<p, Page("vm", v)>> : v \in {u \in VPages : u >= PageUp(new) /\ u * PGSIZE < sz[p]}}
      BY DEF Above
    <3>3. H \subseteq Places
      BY <3>2, SpacesOf, PlaceOf
    <3>4. Pool' /\ \A q \in Procs, s \in Slots : Has(q, s)' <=> Has(q, s) /\ <<q, s>> \notin H
      BY <1>1, <3>1, <3>3, GiveKeeps
    <3>5. \A q \in Procs : q # p => SameHas(q)
      BY <3>2, <3>4 DEF SameHas
    <3>6. sz' \in [Procs -> 0 .. Size - 1] /\ \A q \in Procs : q # p => sz'[q] = sz[q]
      <4>1. new \in 0 .. Size - 1 /\ sz \in [Procs -> 0 .. Size - 1]
        BY <1>1, <1>2, <1>4, <2>2, Constants DEF TypeOK
      <4>2. CASE new = 0
        BY <3>1, <4>1, <4>2
      <4>3. CASE new # 0
        BY <3>1, <4>1, <4>3
      <4> QED BY <4>2, <4>3
    <3>7. Empty(p, "new")' /\ ~Has(p, Mem)' /\ (Has(p, Stack)' => Has(p, Stack))
      BY <1>2, <3>4, SpacesOf DEF Empty
    <3>8. ASSUME NEW v \in VPages PROVE Has(p, Page("vm", v))' <=> v * PGSIZE < new
      <4>1. /\ v \in Nat /\ PageUp(new) \in Nat /\ (v < PageUp(new) <=> v * PGSIZE < new)
            /\ v * PGSIZE \in Nat
        BY <1>4, PageBelow, Order
      <4>2. <<p, Page("vm", v)>> \in H <=> v >= PageUp(new) /\ v * PGSIZE < sz[p]
        BY <3>2, UserPages
      <4>3. Has(p, Page("vm", v)) <=> v * PGSIZE < sz[p]
        BY <1>2 DEF Mapped
      <4>4. Has(p, Page("vm", v))' <=> Has(p, Page("vm", v)) /\ <<p, Page("vm", v)>> \notin H
        BY <3>4, SpacesOf
      <4> QED BY <1>2, <1>4, <2>2, <4>1, <4>2, <4>3, <4>4
    <3>9. Mapped(p, "vm", sz[p])' \/ Mapped(p, "vm", 0)'
      <4>1. CASE new = 0
        BY <3>8, <4>1 DEF Mapped
      <4>2. CASE new # 0
        <5>1. sz'[p] = new
          BY <1>1, <3>1, <4>2 DEF TypeOK
        <5> QED BY <3>8, <5>1 DEF Mapped
      <4> QED BY <4>1, <4>2
    <3> QED BY <3>4, <3>5, <3>6, <3>7, <3>9
  <2> QED BY <1>2, <1>4, <2>1, <2>2
<1>7. Good(p)'
  BY <1>2, <1>3, <1>6 DEF Good, SizeMatches, JobInProgress, NothingSpare, BuiltSoFar, OldSizeKept, Builds
<1> QED BY <1>2, <1>3, <1>5, <1>6, <1>7, OnlyOneInv

-------------------------------------------------------------------------------
(* fork(), exit() and wait(). *)

\* A process that is not in the kernel has none of what a call needs.
LEMMA IdleIs ==
  ASSUME IInv, NEW q \in Procs, state[q] # "RUNNABLE"
  PROVE  /\ pc[q] = "user" /\ job[q].op = "none" /\ Empty(q, "new") /\ ~Has(q, Mem)
         /\ state[q] \in {"UNUSED", "EMBRYO"} => Empty(q, "vm")
         /\ state[q] = "UNUSED" => ~Has(q, Stack)
<1>1. Good(q)
  BY Parts
<1>2. pc[q] = "user" /\ job[q].op = "none"
  BY <1>1 DEF Good, JobInProgress
<1> QED BY <1>1, <1>2 DEF Good, NothingSpare, Builds

\* A slot without a program is as it should be.
LEMMA IdleIsGood ==
  ASSUME NEW q \in Procs, state'[q] # "RUNNABLE", pc'[q] = "user", job'[q].op = "none",
         Empty(q, "new")', ~Has(q, Mem)',
         state'[q] \in {"UNUSED", "EMBRYO"} => Empty(q, "vm")',
         state'[q] = "UNUSED" => ~Has(q, Stack)'
  PROVE  Good(q)'
BY DEF Good, SizeMatches, JobInProgress, NothingSpare, BuiltSoFar, OldSizeKept, Builds

LEMMA ForkInv ==
  ASSUME IInv, NEW p \in Procs, NEW c \in Procs, ncalls' \in 0 .. MaxCalls, fork(p, c)
  PROVE  IInv'
<1>1. /\ Pool /\ TypeOK /\ job \in [Procs -> Jobs]
      /\ \A q \in Procs : Good(q)
  BY Parts DEF IInv
<1>2. /\ state[p] = "RUNNABLE" /\ pc[p] = "user" /\ job[p].op = "none"
      /\ sz[p] \in 0 .. Size - 1 /\ sz[p] \in Nat /\ Mapped(p, "vm", sz[p])
      /\ Empty(p, "new") /\ ~Has(p, Mem)
  BY RunningIs DEF fork, Calls
<1> SUFFICES ASSUME NEW j, j = [NoJob EXCEPT !.op = "fork", !.child = c, !.to = sz[p]] PROVE IInv'
  OBVIOUS
<1>3. /\ state[c] = "UNUSED" /\ state' = [state EXCEPT ![c] = "EMBRYO"]
      /\ pc' = [pc EXCEPT ![p] = "kstack"] /\ job' = [job EXCEPT ![p] = j]
      /\ UNCHANGED <<free, own, parent, sz, panicked>>
  BY DEF fork, Starts, CopyEnd
<1>4. j.op = "fork" /\ j.child = c /\ j.at = 0 /\ j.to = sz[p] /\ j \in Jobs
  BY <1>2, NoJobIsJob DEF NoJob, Jobs, Ops
<1>5. /\ pc'[p] = "kstack" /\ job'[p] = j
      /\ \A q \in Procs : q # p => pc'[q] = pc[q] /\ job'[q] = job[q]
      /\ \A q \in Procs : state'[q] = IF q = c THEN "EMBRYO" ELSE state[q]
  BY <1>1, <1>3 DEF TypeOK
<1>6. Pool' /\ \A q \in Procs : SameHas(q)
  BY <1>1, <1>3, SamePages
<1>7. TypeOK' /\ NoPanic'
  BY <1>1, <1>3 DEF TypeOK, Points, IInv, NoPanic
<1>8. job' \in [Procs -> Jobs]
  BY <1>1, <1>3, <1>4
<1>9. c # p
  BY <1>2, <1>3
<1>10. pc[c] = "user" /\ job[c].op = "none" /\ Empty(c, "new") /\ Empty(c, "vm") /\ ~Has(c, Mem) /\ ~Has(c, Stack)
  BY <1>3, IdleIs
<1>11. Good(c)'
  <2>1. Empty(c, "new")' /\ Empty(c, "vm")' /\ ~Has(c, Mem)'
    BY <1>6, <1>10, SameEmpty, SpacesOf DEF SameHas
  <2> QED BY <1>5, <1>9, <1>10, <2>1, IdleIsGood
<1>12. Good(p)'
  <2>1. Empty(p, "new")' /\ ~Has(p, Mem)'
    BY <1>2, <1>6, SameEmpty, SpacesOf DEF SameHas
  <2>2. Mapped(p, "vm", sz[p])' /\ Mapped(p, "new", 0)'
    <3>1. \A k : Mapped(p, "vm", k)' <=> Mapped(p, "vm", k)
      BY <1>6, SameSpaces
    <3>2. Mapped(p, "vm", sz[p])'
      BY <1>2, <1>3, <3>1 DEF Mapped
    <3>3. Mapped(p, "new", 0)' <=> Mapped(p, "new", 0)
      BY <1>6, SameSpaces
    <3> QED BY <1>2, <3>2, <3>3, NothingMapped
  <2>3. PageUp(sz[p]) \in Nat /\ Virtual(0) = 0 /\ 0 * PGSIZE = 0
    BY <1>2, RoundsUp, WholePages, FirstPage
  <2>4. Here(p)' = 0 /\ Area(p)' = "new"
    BY <1>4, <1>5, <2>3 DEF Here, Area, Virtual
  <2>5. BuiltSoFar(p)'
    <3>1. PageUp(job[p].to)' = PageUp(sz[p])
      BY <1>4, <1>5 DEF PageUp
    <3>2. 0 <= PageUp(job[p].to)'
      BY <2>3, <3>1
    <3>3. Mapped(p, Area(p), job[p].at)'
      BY <1>4, <1>5, <2>2, <2>4
    <3> QED BY <1>4, <1>5, <2>3, <2>4, <3>2, <3>3 DEF BuiltSoFar
  <2>6. OldSizeKept(p)'
    BY <1>3, <1>4, <1>5, <2>2 DEF OldSizeKept
  <2> QED BY <1>2, <1>4, <1>5, <1>9, <2>1, <2>5, <2>6 DEF Good, SizeMatches, JobInProgress, NothingSpare, Builds
<1>13. ASSUME NEW q \in Procs, q # p, q # c PROVE Good(q)'
  BY <1>1, <1>3, <1>5, <1>6, <1>13, SameProcess
<1>14. ForkOwnsChild'
  <2> SUFFICES ASSUME NEW q \in Procs, NEW d, job'[q].op = "fork", d = job'[q].child
               PROVE  /\ state'[d] = "EMBRYO"
                      /\ pc'[q] = "kstack" => ~Has(d, Stack)'
                      /\ \A r \in Procs : job'[r].op = "fork" /\ job'[r].child = d => q = r
    BY DEF ForkOwnsChild, Has
  <2>1. \A r \in Procs : job[r].op = "fork" => job[r].child \in Procs /\ job[r].child # c
    BY <1>3, ChildOf
  <2>2. CASE q = p
    <3>1. d = c /\ state'[d] = "EMBRYO" /\ ~Has(d, Stack)'
      BY <1>4, <1>5, <1>6, <1>10, <2>2, SpacesOf DEF SameHas
    <3> QED BY <1>5, <2>1, <2>2, <3>1
  <2>3. CASE q # p
    <3>1. job[q].op = "fork" /\ d = job[q].child /\ pc'[q] = pc[q] /\ d # c /\ d \in Procs
      BY <1>5, <2>1, <2>3
    <3>2. /\ state[d] = "EMBRYO" /\ (pc[q] = "kstack" => ~Has(d, Stack))
          /\ \A r \in Procs : job[r].op = "fork" /\ job[r].child = d => q = r
      BY <3>1 DEF IInv, ForkOwnsChild
    <3>3. Has(d, Stack)' => Has(d, Stack)
      BY <1>6, <3>1, SpacesOf DEF SameHas
    <3>4. state'[d] = "EMBRYO" /\ (pc'[q] = "kstack" => ~Has(d, Stack)')
      BY <1>5, <3>1, <3>2, <3>3
    <3>5. ASSUME NEW r \in Procs, job'[r].op = "fork", job'[r].child = d PROVE q = r
      <4>1. job'[p].child = c /\ d # c
        BY <1>4, <1>5, <3>1
      <4>2. r # p
        BY <3>5, <4>1
      <4>3. job'[r] = job[r]
        BY <1>5, <4>2
      <4> QED BY <3>2, <3>5, <4>3
    <3> QED BY <3>4, <3>5
  <2> QED BY <2>2, <2>3
<1> QED BY <1>6, <1>7, <1>8, <1>11, <1>12, <1>13, <1>14, Whole

LEMMA ExitInv ==
  ASSUME IInv, NEW p \in Procs, ncalls' \in 0 .. MaxCalls, exit(p)
  PROVE  IInv'
<1>1. /\ Pool /\ TypeOK /\ job \in [Procs -> Jobs]
      /\ \A q \in Procs : Good(q)
  BY Parts DEF IInv
<1>2. /\ state[p] = "RUNNABLE" /\ pc[p] = "user" /\ state' = [state EXCEPT ![p] = "ZOMBIE"]
      /\ parent' = [c \in Procs |-> IF parent[c] = p THEN initproc ELSE parent[c]]
      /\ UNCHANGED <<free, own, sz, pc, job, panicked>>
  BY DEF exit
<1>3. \A q \in Procs : state'[q] = IF q = p THEN "ZOMBIE" ELSE state[q]
  BY <1>1, <1>2 DEF TypeOK
<1>4. Pool' /\ \A q \in Procs : SameHas(q)
  BY <1>1, <1>2, SamePages
<1>5. TypeOK' /\ NoPanic'
  BY <1>1, <1>2, Constants DEF TypeOK, IInv, NoPanic
<1>6. Good(p)'
  <2>1. job[p].op = "none" /\ Empty(p, "new") /\ ~Has(p, Mem)
    BY <1>1, <1>2 DEF Good, JobInProgress, NothingSpare, Builds
  <2>2. Empty(p, "new")' /\ ~Has(p, Mem)'
    BY <1>4, <2>1, SameEmpty, SpacesOf DEF SameHas
  <2> QED BY <1>2, <1>3, <2>1, <2>2, IdleIsGood
<1>7. ASSUME NEW q \in Procs, q # p PROVE Good(q)'
  BY <1>1, <1>2, <1>3, <1>4, <1>7, SameProcess
<1>8. ForkOwnsChild'
  <2>1. \A q \in Procs : Has(q, Stack)' => Has(q, Stack)
    BY <1>4, SpacesOf DEF SameHas
  <2> QED BY <1>2, <1>3, <2>1, SameForks
<1> QED BY <1>1, <1>2, <1>4, <1>5, <1>6, <1>7, <1>8, Whole

LEMMA WaitInv ==
  ASSUME IInv, NEW p \in Procs, NEW c \in Procs, ncalls' \in 0 .. MaxCalls, wait(p, c)
  PROVE  IInv'
<1>1. /\ Pool /\ TypeOK /\ job \in [Procs -> Jobs]
      /\ \A q \in Procs : Good(q)
  BY Parts DEF IInv
<1> SUFFICES ASSUME NEW H, H = All(c, "vm") \cup {<<c, Stack>>} PROVE IInv'
  OBVIOUS
<1>2. /\ state[c] = "ZOMBIE" /\ state' = [state EXCEPT ![c] = "UNUSED"] /\ Give(H)
      /\ parent' = [parent EXCEPT ![c] = initproc]
      /\ UNCHANGED <<sz, pc, job, panicked>>
  BY DEF wait
<1>3. \A q \in Procs : state'[q] = IF q = c THEN "UNUSED" ELSE state[q]
  BY <1>1, <1>2 DEF TypeOK
<1>4. /\ H \subseteq Places
      /\ \A q \in Procs, s \in Slots : <<q, s>> \in H <=> q = c /\ (s \in Spaces("vm") \/ s = Stack)
  BY SpacesOf, PlaceOf DEF All
<1>5. Pool' /\ \A q \in Procs, s \in Slots : Has(q, s)' <=> Has(q, s) /\ <<q, s>> \notin H
  BY <1>1, <1>2, <1>4, GiveKeeps
<1>6. TypeOK' /\ NoPanic'
  BY <1>1, <1>2, <1>5, Constants DEF TypeOK, Pool, IInv, NoPanic
<1>7. Good(c)'
  <2>1. pc[c] = "user" /\ job[c].op = "none" /\ Empty(c, "new") /\ ~Has(c, Mem)
    BY <1>2, IdleIs
  <2>2. Empty(c, "new")' /\ ~Has(c, Mem)' /\ Empty(c, "vm")' /\ ~Has(c, Stack)'
    BY <1>4, <1>5, <2>1, SpacesOf DEF Empty
  <2> QED BY <1>2, <1>3, <2>1, <2>2, IdleIsGood
<1>8. ASSUME NEW q \in Procs, q # c PROVE Good(q)'
  <2>1. SameHas(q)
    BY <1>4, <1>5, <1>8 DEF SameHas
  <2> QED BY <1>1, <1>2, <1>3, <1>8, <2>1, SameProcess
<1>9. ForkOwnsChild'
  <2>1. \A q \in Procs : Has(q, Stack)' => Has(q, Stack)
    BY <1>5, SpacesOf
  <2>2. \A q \in Procs : state[q] = "EMBRYO" => state'[q] = "EMBRYO"
    BY <1>2, <1>3
  <2> QED BY <1>2, <2>1, <2>2, SameForks
<1> QED BY <1>1, <1>2, <1>5, <1>6, <1>7, <1>8, <1>9, Whole

LEMMA AllocprocInv ==
  ASSUME IInv, NEW p \in Procs, ncalls' \in 0 .. MaxCalls, allocproc(p)
  PROVE  IInv'
<1> SUFFICES ASSUME NEW c, c = job[p].child PROVE IInv'
  OBVIOUS
<1>1. /\ Pool /\ TypeOK /\ job \in [Procs -> Jobs]
      /\ \A q \in Procs : Good(q)
  BY Parts DEF IInv
<1>2. pc[p] = "kstack" /\ UNCHANGED <<parent, sz, panicked>>
  BY DEF allocproc
<1>3. state[p] = "RUNNABLE" /\ job[p].op = "fork"
  BY <1>1, <1>2 DEF Good, JobInProgress
<1>4. c \in Procs /\ c # p /\ state[c] = "EMBRYO" /\ pc[c] = "user" /\ \A s \in Slots : ~Has(c, s)
  BY <1>2, <1>3, ChildOf
<1>5. job[c].op = "none" /\ Empty(c, "new") /\ Empty(c, "vm") /\ ~Has(c, Mem)
  BY <1>4, IdleIs
<1>6. Empty(p, "new") /\ ~Has(p, Mem) /\ Mapped(p, "vm", sz[p])
  BY <1>1, <1>2, <1>3 DEF Good, NothingSpare, Builds, OldSizeKept
<1>7. CASE free = {}
  <2>1. /\ state' = [state EXCEPT ![c] = "UNUSED"] /\ UNCHANGED <<own, free>>
        /\ pc' = [pc EXCEPT ![p] = "user"] /\ job' = [job EXCEPT ![p] = NoJob]
    BY <1>7 DEF allocproc, Returns, Starts
  <2>2. /\ pc'[p] = "user" /\ job'[p].op = "none"
        /\ \A q \in Procs : q # p => pc'[q] = pc[q] /\ job'[q] = job[q]
        /\ \A q \in Procs : state'[q] = IF q = c THEN "UNUSED" ELSE state[q]
    BY <1>1, <2>1, NoJobIsJob DEF TypeOK
  <2>3. Pool' /\ \A q \in Procs : SameHas(q)
    BY <1>1, <2>1, SamePages
  <2>4. TypeOK' /\ NoPanic'
    BY <1>1, <1>2, <1>4, <2>1 DEF TypeOK, Points, IInv, NoPanic
  <2>5. job' \in [Procs -> Jobs]
    BY <1>1, <2>1, NoJobIsJob
  <2>6. Good(c)'
    <3>1. Empty(c, "new")' /\ Empty(c, "vm")' /\ ~Has(c, Mem)' /\ ~Has(c, Stack)'
      BY <1>4, <1>5, <2>3, SameEmpty, SpacesOf DEF SameHas
    <3> QED BY <1>4, <1>5, <2>2, <3>1, IdleIsGood
  <2>7. Good(p)'
    <3>1. Empty(p, "new")' /\ ~Has(p, Mem)'
      BY <1>6, <2>3, SameEmpty, SpacesOf DEF SameHas
    <3>2. Mapped(p, "vm", sz[p])'
      BY <1>2, <1>6, <2>3, SpacesOf DEF SameHas, Mapped
    <3> QED BY <1>3, <1>4, <2>2, <3>1, <3>2 DEF Good, SizeMatches, JobInProgress, NothingSpare,
                                                BuiltSoFar, OldSizeKept, Builds
  <2>8. ASSUME NEW q \in Procs, q # p, q # c PROVE Good(q)'
    BY <1>1, <1>2, <2>2, <2>3, <2>8, SameProcess
  <2>9. ForkOwnsChild'
    <3>1. \A q \in Procs : Has(q, Stack)' => Has(q, Stack)
      BY <2>3, SpacesOf DEF SameHas
    <3>2. \A q \in Procs : state[q] = "EMBRYO" => state'[q] = "EMBRYO" \/ q = job[p].child
      BY <2>2
    <3> QED BY <1>3, <2>2, <3>1, <3>2, SameForks
  <2> QED BY <2>3, <2>4, <2>5, <2>6, <2>7, <2>8, <2>9, Whole
<1>8. CASE free # {}
  <2>1. Take(c, Stack) /\ pc' = [pc EXCEPT ![p] = "dir"] /\ UNCHANGED <<state, job>>
    BY <1>8 DEF allocproc
  <2>2. /\ pc'[p] = "dir" /\ job' = job /\ state' = state
        /\ \A q \in Procs : q # p => pc'[q] = pc[q]
    BY <1>1, <2>1 DEF TypeOK
  <2>3. /\ Pool'
        /\ \A q \in Procs, t \in Slots : Has(q, t)' <=> Has(q, t) \/ (q = c /\ t = Stack)
    BY <1>1, <1>4, <1>8, <2>1, SpacesOf, TakeKeeps
  <2>4. TypeOK' /\ NoPanic'
    BY <1>1, <1>2, <2>1, <2>3 DEF TypeOK, Pool, Points, IInv, NoPanic
  <2>5. Good(c)'
    <3>1. Empty(c, "new")' /\ Empty(c, "vm")' /\ ~Has(c, Mem)'
      BY <1>4, <2>3, SpacesAreSlots DEF Empty
    <3> QED BY <1>4, <1>5, <2>2, <3>1, IdleIsGood
  <2>6. Good(p)'
    <3>1. SameHas(p)
      BY <1>4, <2>3 DEF SameHas
    <3>2. Empty(p, "new")' /\ ~Has(p, Mem)'
      BY <1>6, <3>1, SameEmpty, SpacesOf DEF SameHas
    <3>3. \A k : /\ Mapped(p, "vm", k)' <=> Mapped(p, "vm", k)
                 /\ Mapped(p, "new", k)' <=> Mapped(p, "new", k)
      BY <3>1, SameSpaces
    <3>4. BuiltSoFar(p)'
      <4>1. Area(p)' = Area(p) /\ Area(p) \in {"vm", "new"} /\ Here(p)' = Here(p)
        BY <2>2 DEF Area, Here
      <4> QED BY <1>1, <2>2, <3>3, <4>1 DEF Good, BuiltSoFar
    <3>5. OldSizeKept(p)'
      BY <1>1, <1>2, <2>2, <3>3 DEF Good, OldSizeKept, Here
    <3> QED BY <1>3, <2>2, <3>2, <3>4, <3>5 DEF Good, SizeMatches, JobInProgress, NothingSpare, Builds
  <2>7. ASSUME NEW q \in Procs, q # p, q # c PROVE Good(q)'
    <3>1. SameHas(q)
      BY <2>3, <2>7 DEF SameHas
    <3> QED BY <1>1, <1>2, <2>2, <2>7, <3>1, SameProcess
  <2>8. ForkOwnsChild'
    <3>1. \A q \in Procs : Has(q, Stack)' => Has(q, Stack) \/ q = job[p].child
      BY <2>3, SpacesOf
    <3> QED BY <1>2, <1>3, <2>2, <3>1, SameForks
  <2> QED BY <1>1, <2>2, <2>3, <2>4, <2>5, <2>6, <2>7, <2>8, Whole
<1> QED BY <1>7, <1>8

LEMMA ForkedInv ==
  ASSUME IInv, NEW p \in Procs, ncalls' \in 0 .. MaxCalls, forked(p)
  PROVE  IInv'
<1> SUFFICES ASSUME NEW c, c = job[p].child PROVE IInv'
  OBVIOUS
<1>1. /\ Pool /\ TypeOK /\ job \in [Procs -> Jobs]
      /\ \A q \in Procs : Good(q)
  BY Parts DEF IInv
<1>2. /\ pc[p] = "alloc" /\ job[p].op = "fork" /\ job[p].at >= job[p].to
      /\ Commit(p, c) /\ sz' = [sz EXCEPT ![c] = sz[p]] /\ parent' = [parent EXCEPT ![c] = p]
      /\ state' = [state EXCEPT ![c] = "RUNNABLE"]
      /\ pc' = [pc EXCEPT ![p] = "user"] /\ job' = [job EXCEPT ![p] = NoJob]
      /\ UNCHANGED panicked
  BY DEF forked, Allocated, Returns, Starts
<1>3. c \in Procs /\ c # p /\ state[c] = "EMBRYO" /\ pc[c] = "user"
  BY <1>2, ChildOf
<1>4. job[c].op = "none" /\ Empty(c, "new") /\ ~Has(c, Mem)
  BY <1>3, IdleIs
<1>5. state[p] = "RUNNABLE" /\ job[p].to = sz[p] /\ Mapped(p, "vm", sz[p]) /\ ~Has(p, Mem)
  BY <1>1, <1>2, InCall DEF Good, OldSizeKept, NothingSpare
<1>6. /\ pc'[p] = "user" /\ job'[p].op = "none"
      /\ \A q \in Procs : q # p => pc'[q] = pc[q] /\ job'[q] = job[q]
      /\ \A q \in Procs : state'[q] = IF q = c THEN "RUNNABLE" ELSE state[q]
      /\ \A q \in Procs : sz'[q] = IF q = c THEN sz[p] ELSE sz[q]
  BY <1>1, <1>2, NoJobIsJob DEF TypeOK
<1>7. /\ Pool'
      /\ \A r \in Procs, s \in Slots :
           Has(r, s)' <=> IF r = c /\ s \in Spaces("vm") THEN Has(p, <<"new", s[2], s[3]>>)
                          ELSE Has(r, s) /\ ~(r = p /\ s \in Spaces("new"))
  BY <1>1, <1>2, <1>3, CommitKeeps
<1>8. TypeOK' /\ NoPanic'
  BY <1>1, <1>2, <1>3, <1>7 DEF TypeOK, Pool, Points, IInv, NoPanic
<1>9. job' \in [Procs -> Jobs]
  BY <1>1, <1>2, NoJobIsJob
<1>10. Mapped(c, "vm", sz[c])' /\ Empty(c, "new")' /\ Empty(p, "new")'
  <2> SUFFICES ASSUME NEW n, n = sz[p] PROVE Mapped(c, "vm", sz[c])' /\ Empty(c, "new")' /\ Empty(p, "new")'
    OBVIOUS
  <2>1. Mapped(p, "new", n)
    BY <1>2, <1>5, AllBuilt DEF Area
  <2>2. Mapped(c, "vm", n)' /\ Empty(c, "new")' /\ Empty(p, "new")'
    BY <1>1, <1>2, <1>3, <1>4, <2>1, CommitGives
  <2> QED BY <1>3, <1>6, <2>2
<1>11. ~Has(c, Mem)' /\ ~Has(p, Mem)'
  BY <1>3, <1>4, <1>5, <1>7, SpacesAreSlots
<1>12. Good(c)'
  BY <1>3, <1>4, <1>6, <1>10, <1>11 DEF Good, SizeMatches, JobInProgress, NothingSpare, BuiltSoFar,
                                        OldSizeKept, Builds
<1>13. Good(p)'
  <2>1. \A v \in VPages : Has(p, Page("vm", v))' <=> Has(p, Page("vm", v))
    <3>1. \A v \in VPages : Page("vm", v) \in Slots /\ Page("vm", v) \notin Spaces("new")
      BY UserPages, SpacesAreSlots
    <3> QED BY <1>3, <1>7, <3>1
  <2>2. Mapped(p, "vm", sz[p])'
    BY <1>3, <1>5, <1>6, <2>1 DEF Mapped
  <2> QED BY <1>3, <1>5, <1>6, <1>10, <1>11, <2>2 DEF Good, SizeMatches, JobInProgress, NothingSpare,
                                                      BuiltSoFar, OldSizeKept, Builds
<1>14. ASSUME NEW q \in Procs, q # p, q # c PROVE Good(q)'
  <2>1. SameHas(q)
    BY <1>7, <1>14 DEF SameHas
  <2> QED BY <1>1, <1>6, <1>14, <2>1, SameProcess
<1>15. ForkOwnsChild'
  <2>1. \A q \in Procs : Has(q, Stack)' => Has(q, Stack)
    BY <1>7, SpacesAreSlots
  <2>2. \A q \in Procs : state[q] = "EMBRYO" => state'[q] = "EMBRYO" \/ q = job[p].child
    BY <1>6
  <2> QED BY <1>2, <1>6, <2>1, <2>2, SameForks
<1> QED BY <1>7, <1>8, <1>9, <1>12, <1>13, <1>14, <1>15, Whole

-------------------------------------------------------------------------------
LEMMA StutterInv ==
  ASSUME IInv, UNCHANGED vars
  PROVE  IInv'
<1>1. /\ Pool /\ TypeOK /\ job \in [Procs -> Jobs]
      /\ \A q \in Procs : Good(q)
  BY Parts DEF IInv
<1>2. UNCHANGED <<free, own, state, parent, sz, pc, job, panicked, ncalls>>
  BY DEF vars, memory
<1>3. Pool' /\ \A q \in Procs : SameHas(q)
  BY <1>1, <1>2, SamePages
<1>4. \A q \in Procs : Good(q)'
  BY <1>1, <1>2, <1>3, SameProcess
<1>5. TypeOK' /\ NoPanic' /\ job' \in [Procs -> Jobs]
  BY <1>1, <1>2 DEF TypeOK, IInv, NoPanic
<1>6. ForkOwnsChild'
  BY <1>2 DEF IInv, ForkOwnsChild, Has
<1> QED BY <1>3, <1>4, <1>5, <1>6, Whole

LEMMA NextInv == IInv /\ [Next]_vars => IInv'
<1> SUFFICES ASSUME IInv, [Next]_vars PROVE IInv'
  OBVIOUS
<1>1. ncalls \in 0 .. MaxCalls /\ MaxCalls \in Nat
  BY MemoryAssumption DEF IInv, TypeOK
<1>2. ASSUME NEW p \in Procs, User(p) PROVE IInv'
  <2>1. ncalls' \in 0 .. MaxCalls
    BY <1>1, <1>2 DEF User
  <2>2. ASSUME NEW n \in Deltas, sbrk(p, n) PROVE IInv'
    <3>1. n \in Int
      BY MemoryAssumption
    <3> QED BY <2>1, <2>2, <3>1, SbrkGrowsInv, SbrkShrinksInv DEF sbrk
  <2>3. ASSUME NEW c \in Procs, fork(p, c) PROVE IInv'
    BY <2>1, <2>3, ForkInv
  <2>4. ASSUME NEW image \in Images, exec(p, image) PROVE IInv'
    BY <2>1, <2>4, ExecInv
  <2>5. ASSUME NEW c \in Procs, wait(p, c) PROVE IInv'
    BY <2>1, <2>5, WaitInv
  <2>6. CASE exit(p)
    BY <2>1, <2>6, ExitInv
  <2> QED BY <1>2, <2>2, <2>3, <2>4, <2>5, <2>6 DEF User
<1>3. ASSUME NEW p \in Procs, Kernel(p) PROVE IInv'
  <2>1. ncalls' \in 0 .. MaxCalls
    BY <1>1, <1>3 DEF Kernel
  <2>2. allocproc(p) => IInv'
    BY <2>1, AllocprocInv
  <2>3. setupkvm(p) => IInv'
    BY <2>1, SetupkvmInv
  <2>4. kmap(p) => IInv'
    BY <2>1, KmapInv
  <2>5. kalloc(p) => IInv'
    BY <2>1, KallocInv
  <2>6. walkpgdir(p) => IInv'
    BY <2>1, WalkpgdirInv
  <2>7. mappages(p) => IInv'
    BY <2>1, MappagesInv
  <2>8. growproc(p) => IInv'
    BY <2>1, GrowprocInv
  <2>9. forked(p) => IInv'
    BY <2>1, ForkedInv
  <2>10. execSegment(p) => IInv'
    BY <2>1, ExecSegmentInv
  <2>11. execStack(p) => IInv'
    BY <2>1, ExecStackInv
  <2>12. execFails(p) => IInv'
    BY <2>1, ExecFailsInv
  <2>13. execCommits(p) => IInv'
    BY <2>1, ExecCommitsInv
  <2> QED BY <1>3, <2>2, <2>3, <2>4, <2>5, <2>6, <2>7, <2>8, <2>9, <2>10, <2>11, <2>12, <2>13
        DEF Kernel, InKernel
<1>4. CASE UNCHANGED vars
  BY <1>4, StutterInv
<1> QED BY <1>2, <1>3, <1>4 DEF Next

\* How far a call has come is how far its address space is built, and a fork() has its child to
\* itself, whatever calls run at once.
THEOREM IInvHolds == Spec => []IInv
BY InitInv, NextInv, PTL DEF Spec

\* No page is lost or given to two, sizes say which pages a program has, slots that are not used
\* hold none, and no panic of vm.c is reached: fork(), exec() and sbrk() that run out of memory
\* anywhere give back what they took.
THEOREM PagesCorrect == Spec => []MemoryIsConsistent
<1>1. IInv => MemoryIsConsistent
  <2> SUFFICES ASSUME IInv PROVE MemoryIsConsistent
    OBVIOUS
  <2>1. UnusedIsEmpty
    <3> SUFFICES ASSUME NEW p \in Procs, state[p] = "UNUSED", NEW s \in Slots PROVE ~Has(p, s)
      BY DEF UnusedIsEmpty
    <3>1. Empty(p, "new") /\ Empty(p, "vm") /\ ~Has(p, Mem) /\ ~Has(p, Stack)
      BY IdleIs
    <3> QED BY <3>1, SpacesAreSlots DEF Empty
  <2> QED BY <2>1 DEF IInv, MemoryIsConsistent, SizeMatchesPages
<1> QED BY <1>1, IInvHolds, PTL
===============================================================================
