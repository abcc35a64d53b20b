---------------------------- MODULE BlockIOProofs -----------------------------
(***************************************************************************)
(* The buffer cache and the disk driver, for every number of processes,    *)
(* buffers and blocks: IInv is inductive, sleep locks, cache and driver    *)
(* agree, and together they implement BlockStore.                          *)
(***************************************************************************)
EXTENDS BlockIO, WellFoundedInduction, TLAPS, FiniteSetTheorems, SequenceTheorems

-------------------------------------------------------------------------------
(* Sequences of buffers. *)

\* A set of slots that is not empty has a first one.
LEMMA FirstIsMember ==
  ASSUME NEW S \in SUBSET Nat, S # {}
  PROVE  Min(S) \in S /\ \A y \in S : Min(S) <= y
<1> DEFINE R == OpToRel(<, Nat)
<1>1. IsWellFoundedOn(R, Nat)
  BY NatLessThanWellFounded, Zenon
<1>2. \A x, y \in Nat : y < x => <<y, x>> \in R
  BY Zenon DEF OpToRel
<1> HIDE DEF R
<1>3. PICK x \in S : \A y \in S : ~ (<<y, x>> \in R)
  BY <1>1, WFMin
<1>4. \A y \in S : ~ (y < x)
  BY <1>2, <1>3, Zenon
<1>5. \E z \in S : \A y \in S : z <= y
  BY <1>4
<1> QED BY <1>5 DEF Min

\* A buffer is added to those that a process holds.
LEMMA AppendIsLast ==
  ASSUME NEW S, NEW s \in Seq(S), NEW x \in S
  PROVE  /\ Append(s, x) \in Seq(S) /\ Append(s, x) # <<>>
         /\ Last(Append(s, x)) = x
         /\ ToSet(Append(s, x)) = ToSet(s) \cup {x}
         /\ x \notin ToSet(s) /\ IsInjective(s) => IsInjective(Append(s, x))
<1>1. /\ Append(s, x) \in Seq(S) /\ Len(Append(s, x)) = Len(s) + 1
      /\ \A i \in 1 .. Len(s) : Append(s, x)[i] = s[i]
      /\ Append(s, x)[Len(s) + 1] = x
      /\ DOMAIN s = 1 .. Len(s) /\ DOMAIN Append(s, x) = 1 .. Len(s) + 1
      /\ Len(s) \in Nat
  OBVIOUS
<1>2. Append(s, x) # <<>> /\ Last(Append(s, x)) = x
  BY <1>1 DEF Last
<1>3. ToSet(Append(s, x)) = ToSet(s) \cup {x}
  <2>1. \A y \in ToSet(Append(s, x)) : y \in ToSet(s) \/ y = x
    BY <1>1 DEF ToSet
  <2>2. \A y \in ToSet(s) : y \in ToSet(Append(s, x))
    BY <1>1 DEF ToSet
  <2>3. x \in ToSet(Append(s, x))
    BY <1>1 DEF ToSet
  <2> QED BY <2>1, <2>2, <2>3
<1>4. ASSUME x \notin ToSet(s), IsInjective(s) PROVE IsInjective(Append(s, x))
  <2>1. \A i \in 1 .. Len(s) : s[i] # x
    BY <1>1, <1>4 DEF ToSet
  <2> QED BY <1>1, <1>4, <2>1 DEF IsInjective
<1> QED BY <1>1, <1>2, <1>3, <1>4

\* The last buffer that a process holds is given up.
LEMMA FrontDropsLast ==
  ASSUME NEW S, NEW s \in Seq(S), s # <<>>, IsInjective(s)
  PROVE  /\ Last(s) \in ToSet(s) /\ Last(s) \in S
         /\ Front(s) \in Seq(S) /\ IsInjective(Front(s))
         /\ ToSet(Front(s)) = ToSet(s) \ {Last(s)}
<1>1. /\ Len(s) \in Nat \ {0} /\ DOMAIN s = 1 .. Len(s)
      /\ Front(s) \in Seq(S) /\ Len(Front(s)) = Len(s) - 1
      /\ DOMAIN Front(s) = 1 .. Len(s) - 1
      /\ \A i \in 1 .. Len(s) - 1 : Front(s)[i] = s[i]
      /\ Last(s) = s[Len(s)]
  <2>1. Len(s) \in Nat \ {0} /\ DOMAIN s = 1 .. Len(s) /\ \A i \in 1 .. Len(s) - 1 : s[i] \in S
    OBVIOUS
  <2>2. /\ SubSeq(s, 1, Len(s) - 1) \in Seq(S)
        /\ Len(SubSeq(s, 1, Len(s) - 1)) = Len(s) - 1
        /\ \A i \in 1 .. Len(s) - 1 : SubSeq(s, 1, Len(s) - 1)[i] = s[i]
    <3>1. /\ SubSeq(s, 1, Len(s) - 1) \in Seq(S)
          /\ Len(SubSeq(s, 1, Len(s) - 1)) = IF 1 <= Len(s) - 1 THEN Len(s) - 1 - 1 + 1 ELSE 0
          /\ \A i \in 1 .. Len(s) - 1 - 1 + 1 : SubSeq(s, 1, Len(s) - 1)[i] = s[1 + i - 1]
      BY <2>1, SubSeqProperties
    <3> QED BY <2>1, <3>1
  <2> QED BY <2>1, <2>2 DEF Front, Last
<1>2. Last(s) \in ToSet(s) /\ Last(s) \in S
  BY <1>1 DEF ToSet
<1>3. IsInjective(Front(s))
  BY <1>1 DEF IsInjective
<1>4. \A i \in 1 .. Len(s) - 1 : s[i] # s[Len(s)]
  BY <1>1 DEF IsInjective
<1>5. ToSet(Front(s)) = ToSet(s) \ {Last(s)}
  <2>1. \A y \in ToSet(Front(s)) : y \in ToSet(s) /\ y # Last(s)
    BY <1>1, <1>4 DEF ToSet
  <2>2. \A y \in ToSet(s) : y # Last(s) => y \in ToSet(Front(s))
    BY <1>1 DEF ToSet
  <2> QED BY <2>1, <2>2
<1> QED BY <1>1, <1>2, <1>3, <1>5

\* The first buffer of the queue is served.
LEMMA TailDropsHead ==
  ASSUME NEW S, NEW s \in Seq(S), s # <<>>, IsInjective(s)
  PROVE  /\ s[1] \in ToSet(s) /\ s[1] \in S
         /\ Tail(s) \in Seq(S) /\ IsInjective(Tail(s))
         /\ ToSet(Tail(s)) = ToSet(s) \ {s[1]}
<1>1. /\ Len(s) \in Nat \ {0} /\ DOMAIN s = 1 .. Len(s)
      /\ Tail(s) \in Seq(S) /\ Len(Tail(s)) = Len(s) - 1
      /\ DOMAIN Tail(s) = 1 .. Len(s) - 1
      /\ \A i \in 1 .. Len(s) - 1 : Tail(s)[i] = s[i + 1]
  OBVIOUS
<1>2. s[1] \in ToSet(s) /\ s[1] \in S
  BY <1>1 DEF ToSet
<1>3. IsInjective(Tail(s))
  BY <1>1 DEF IsInjective
<1>4. \A i \in 2 .. Len(s) : s[i] # s[1]
  BY <1>1 DEF IsInjective
<1>5. ToSet(Tail(s)) = ToSet(s) \ {s[1]}
  <2>1. \A y \in ToSet(Tail(s)) : y \in ToSet(s) /\ y # s[1]
    BY <1>1, <1>4 DEF ToSet
  <2>2. \A i \in 2 .. Len(s) : s[i] = Tail(s)[i - 1] /\ i - 1 \in 1 .. Len(s) - 1
    BY <1>1
  <2>3. \A i \in 2 .. Len(s) : s[i] \in ToSet(Tail(s))
    BY <1>1, <2>2 DEF ToSet
  <2>4. \A y \in ToSet(s) : y # s[1] => \E i \in 2 .. Len(s) : y = s[i]
    BY <1>1 DEF ToSet
  <2> QED BY <2>1, <2>3, <2>4
<1> QED BY <1>1, <1>2, <1>3, <1>5

\* A scan of the list that finds nothing has seen all: of the buffers in the list there is none
\* among B.  One that finds a buffer finds one of B.
LEMMA ScanFinds ==
  ASSUME NEW S, NEW s \in Seq(S), NEW B
  PROVE  /\ FirstIn(s, B) \subseteq B \cap ToSet(s)
         /\ FirstIn(s, B) = {} => ToSet(s) \cap B = {}
<1>1. FirstIn(s, B) \subseteq B \cap ToSet(s)
  BY DEF FirstIn, ToSet
<1>2. ASSUME ToSet(s) \cap B # {} PROVE FirstIn(s, B) # {}
  <2> DEFINE I == {i \in DOMAIN s : s[i] \in B}
  <2>1. I # {} /\ I \in SUBSET Nat
    BY <1>2 DEF ToSet
  <2>2. PICK i \in I : \A j \in I : i <= j
    <3> HIDE DEF I
    <3> QED BY <2>1, FirstIsMember
  <2>3. i \in DOMAIN s /\ s[i] \in B
    OBVIOUS
  <2>4. \A k \in 1 .. i - 1 : s[k] \notin B
    <3> SUFFICES ASSUME NEW k \in 1 .. i - 1, s[k] \in B PROVE FALSE
      OBVIOUS
    <3>1. k \in DOMAIN s
      BY <2>3
    <3>2. k \in I
      BY <3>1
    <3> QED BY <2>2, <3>2, <2>3
  <2> QED BY <2>3, <2>4 DEF FirstIn
<1> QED BY <1>1, <1>2

\* From the tail of the list there are the same buffers to see.
LEMMA ReverseIsSame ==
  ASSUME NEW S, NEW s \in Seq(S)
  PROVE  Reverse(s) \in Seq(S) /\ ToSet(Reverse(s)) = ToSet(s)
<1>1. /\ Len(s) \in Nat /\ DOMAIN s = 1 .. Len(s)
      /\ Reverse(s) \in Seq(S) /\ DOMAIN Reverse(s) = 1 .. Len(s)
      /\ \A i \in 1 .. Len(s) : /\ Len(s) - i + 1 \in 1 .. Len(s)
                                /\ Reverse(s)[i] = s[Len(s) - i + 1]
                                /\ Reverse(s)[Len(s) - i + 1] = s[i]
  BY DEF Reverse
<1>2. \A y \in ToSet(Reverse(s)) : y \in ToSet(s)
  BY <1>1 DEF ToSet
<1>3. \A y \in ToSet(s) : y \in ToSet(Reverse(s))
  BY <1>1 DEF ToSet
<1> QED BY <1>1, <1>2, <1>3

\* A buffer that nobody refers to any more becomes the most recently used; the list keeps all.
LEMMA MovedToHead ==
  ASSUME lru \in Seq(Bufs), IsInjective(lru), ToSet(lru) = Bufs, NEW b \in Bufs
  PROVE  ToHead(b) \in Seq(Bufs) /\ IsInjective(ToHead(b)) /\ ToSet(ToHead(b)) = Bufs
<1> DEFINE n == CHOOSE i \in DOMAIN lru : lru[i] = b
           t == ToHead(b)
<1>1. Len(lru) \in Nat /\ DOMAIN lru = 1 .. Len(lru) /\ \A i \in DOMAIN lru : lru[i] \in Bufs
  OBVIOUS
<1>2. n \in DOMAIN lru /\ lru[n] = b
  <2>1. \E i \in DOMAIN lru : lru[i] = b
    BY DEF ToSet
  <2> QED BY <2>1
<1>3. /\ DOMAIN t = 1 .. Len(lru)
      /\ \A i \in 1 .. Len(lru) : t[i] = IF i = 1 THEN b ELSE IF i <= n THEN lru[i - 1] ELSE lru[i]
      /\ t = [i \in 1 .. Len(lru) |-> IF i = 1 THEN b ELSE IF i <= n THEN lru[i - 1] ELSE lru[i]]
  BY <1>1 DEF ToHead
<1> HIDE DEF n, t
<1>4. n \in 1 .. Len(lru)
  BY <1>1, <1>2
<1>5. \A i \in 1 .. Len(lru) : t[i] \in Bufs
  BY <1>1, <1>3, <1>4
<1>6. t \in Seq(Bufs)
  BY <1>1, <1>3, <1>5
<1>7. IsInjective(t)
  <2>1. \A i, j \in 1 .. Len(lru) : lru[i] = lru[j] => i = j
    BY <1>1 DEF IsInjective
  <2>2. \A i, j \in 1 .. Len(lru) : t[i] = t[j] => i = j
    BY <2>1, <1>2, <1>3, <1>4
  <2> QED BY <2>2, <1>3 DEF IsInjective
<1>8. ToSet(t) = Bufs
  <2>1. \A k \in 1 .. Len(lru) : \E i \in 1 .. Len(lru) : t[i] = lru[k]
    <3> SUFFICES ASSUME NEW k \in 1 .. Len(lru) PROVE \E i \in 1 .. Len(lru) : t[i] = lru[k]
      OBVIOUS
    <3>1. CASE k = n
      BY <3>1, <1>2, <1>3, <1>4
    <3>2. CASE k < n
      <4>1. k + 1 \in 1 .. Len(lru) /\ t[k + 1] = lru[k]
        BY <3>2, <1>3, <1>4, <1>1
      <4> QED BY <4>1
    <3>3. CASE k > n
      BY <3>3, <1>3, <1>4, <1>1
    <3> QED BY <3>1, <3>2, <3>3, <1>4
  <2>2. \A c \in ToSet(t) : c \in Bufs
    BY <1>3, <1>5 DEF ToSet
  <2>3. \A c \in Bufs : \E k \in 1 .. Len(lru) : c = lru[k]
    BY <1>1 DEF ToSet
  <2>4. ASSUME NEW c \in Bufs PROVE c \in ToSet(t)
    <3>1. PICK k \in 1 .. Len(lru) : c = lru[k]
      BY <2>3
    <3>2. PICK i \in 1 .. Len(lru) : t[i] = lru[k]
      BY <2>1
    <3> QED BY <1>3, <3>1, <3>2 DEF ToSet
  <2> QED BY <2>2, <2>4
<1> QED BY <1>6, <1>7, <1>8 DEF t

\* binit() puts every buffer into the list.
LEMMA InitialList ==
  LET s == SetToSeq(Bufs) IN s \in Seq(Bufs) /\ IsInjective(s) /\ ToSet(s) = Bufs
<1> DEFINE n == Cardinality(Bufs)
           s == SetToSeq(Bufs)
<1>1. n \in Nat /\ ExistsBijection(1 .. n, Bufs)
  BY FS_CardinalityType, BlockIOAssumption
<1>2. \E f \in [1 .. n -> Bufs] : IsInjective(f)
  BY <1>1 DEF ExistsBijection, Bijection, Injection
<1>3. s \in [1 .. n -> Bufs] /\ IsInjective(s)
  BY <1>2 DEF SetToSeq
<1> HIDE DEF s
<1>4. s \in Injection(1 .. n, Bufs)
  BY <1>3 DEF Injection
<1>5. IsFiniteSet(1 .. n) /\ Cardinality(1 .. n) = n
  BY <1>1, FS_Interval
<1>6. s \in Surjection(1 .. n, Bufs)
  BY <1>4, <1>5, FS_Injection, BlockIOAssumption
<1>7. ToSet(s) = Bufs
  BY <1>3, <1>6 DEF Surjection, ToSet
<1>8. s \in Seq(Bufs)
  BY <1>1, <1>3
<1> QED BY <1>3, <1>7, <1>8 DEF s

-------------------------------------------------------------------------------
(* Counting the processes that hold a buffer. *)

WhoHolds(h, b) == {q \in Procs : b \in ToSet(h[q])}

LEMMA HoldersCounted ==
  ASSUME NEW h, NEW b
  PROVE  /\ Cardinality(WhoHolds(h, b)) \in 0 .. Cardinality(Procs)
         /\ Cardinality(WhoHolds(h, b)) = 0 <=> \A q \in Procs : b \notin ToSet(h[q])
<1> DEFINE H == WhoHolds(h, b)
<1>1. H \in SUBSET Procs /\ (H = {} <=> \A q \in Procs : b \notin ToSet(h[q]))
  BY DEF WhoHolds
<1> HIDE DEF H
<1>2. IsFiniteSet(H) /\ Cardinality(H) <= Cardinality(Procs)
  BY <1>1, FS_Subset, BlockIOAssumption
<1>3. Cardinality(H) \in Nat /\ Cardinality(Procs) \in Nat
  BY <1>2, FS_CardinalityType, BlockIOAssumption
<1>4. Cardinality(H) = 0 <=> H = {}
  BY <1>2, FS_EmptySet
<1>5. Cardinality(H) \in 0 .. Cardinality(Procs)
  BY <1>2, <1>3
<1> QED BY <1>1, <1>4, <1>5 DEF H

\* One process gets or gives up a buffer.
LEMMA HoldersChange ==
  ASSUME NEW h, NEW g, NEW p \in Procs, NEW b, \A q \in Procs : q # p => g[q] = h[q]
  PROVE  LET m == Cardinality(WhoHolds(h, b))
             n == Cardinality(WhoHolds(g, b))
         IN  /\ (b \in ToSet(h[p]) <=> b \in ToSet(g[p])) => n = m
             /\ b \notin ToSet(h[p]) /\ b \in ToSet(g[p]) => n = m + 1
             /\ b \in ToSet(h[p]) /\ b \notin ToSet(g[p]) => n = m - 1
<1> DEFINE H == WhoHolds(h, b)
           G == WhoHolds(g, b)
<1>1. IsFiniteSet(H)
  BY FS_Subset, BlockIOAssumption DEF WhoHolds
<1>2. ASSUME b \in ToSet(h[p]) <=> b \in ToSet(g[p]) PROVE G = H
  BY <1>2 DEF WhoHolds
<1>3. ASSUME b \notin ToSet(h[p]), b \in ToSet(g[p]) PROVE G = H \cup {p} /\ p \notin H
  BY <1>3 DEF WhoHolds
<1>4. ASSUME b \in ToSet(h[p]), b \notin ToSet(g[p]) PROVE G = H \ {p} /\ p \in H
  BY <1>4 DEF WhoHolds
<1> HIDE DEF H, G
<1>5. /\ Cardinality(H \cup {p}) = IF p \in H THEN Cardinality(H) ELSE Cardinality(H) + 1
      /\ Cardinality(H \ {p}) = IF p \in H THEN Cardinality(H) - 1 ELSE Cardinality(H)
  BY <1>1, FS_AddElement, FS_RemoveElement
<1>6. /\ (b \in ToSet(h[p]) <=> b \in ToSet(g[p])) => Cardinality(G) = Cardinality(H)
      /\ b \notin ToSet(h[p]) /\ b \in ToSet(g[p]) => Cardinality(G) = Cardinality(H) + 1
      /\ b \in ToSet(h[p]) /\ b \notin ToSet(g[p]) => Cardinality(G) = Cardinality(H) - 1
  BY <1>2, <1>3, <1>4, <1>5
<1> QED BY <1>6 DEF H, G

-------------------------------------------------------------------------------
(* What IInv says of one buffer. *)

\* The last buffer that a process has asked for.
LEMMA InHand ==
  ASSUME IInv, NEW p \in Procs, hold[p] # <<>>
  PROVE  /\ Buf(p) \in Bufs /\ Buf(p) \in ToSet(hold[p])
         /\ blockno[Buf(p)] \in Blocks
         /\ refcnt[Buf(p)] # 0
<1>1. hold[p] \in Seq(Bufs) /\ IsInjective(hold[p])
  BY DEF IInv, TypeOK, HeldOnce
<1>2. Buf(p) \in Bufs /\ Buf(p) \in ToSet(hold[p])
  BY <1>1, FrontDropsLast DEF Buf
<1>3. blockno[Buf(p)] \in Blocks
  BY <1>2 DEF IInv, HeldOnce
<1>4. refcnt[Buf(p)] # 0
  BY <1>2, HoldersCounted DEF IInv, RefcntIsExact, WhoHolds
<1> QED BY <1>2, <1>3, <1>4

\* What is in the hands of a process is a buffer.
LEMMA HeldIsBuffer ==
  ASSUME IInv, NEW p \in Procs
  PROVE  ToSet(hold[p]) \subseteq Bufs /\ Locked(p) \subseteq Bufs
BY SMTT(30) DEF IInv, TypeOK, ToSet, Locked

\* A sleep lock keeps others out.
LEMMA Exclusive ==
  ASSUME IInv, NEW p \in Procs, NEW q \in Procs, NEW b, b \in Locked(p), b \in Locked(q)
  PROVE  p = q
<1>1. b \in Bufs
  BY HeldIsBuffer
<1> QED BY <1>1 DEF IInv, OwnersHold

\* A buffer in the queue of the drive belongs to the one who waits for it.
LEMMA QueuedIsLocked ==
  ASSUME IInv, NEW b \in ToSet(idequeue)
  PROVE  \E q \in Procs : /\ Waits(q) /\ Buf(q) = b /\ hold[q] # <<>>
                          /\ b \in Locked(q) /\ b \in Bufs
<1>1. PICK q \in Procs : Waits(q) /\ Buf(q) = b
  BY DEF IInv, QueueIsWaitedFor
<1>2. hold[q] # <<>>
  BY <1>1 DEF IInv, HeldOnce, Waits
<1>3. b \in Bufs /\ b \in ToSet(hold[q])
  BY <1>1, <1>2, InHand
<1>4. b \in Locked(q)
  BY <1>1, <1>3 DEF Locked, Waits, Outside
<1> QED BY <1>1, <1>2, <1>3, <1>4

\* While a process uses its buffer and does not wait for the disk, the drive leaves it alone.
LEMMA NotQueued ==
  ASSUME IInv, NEW p \in Procs, NEW b \in Locked(p), pc[p] \notin {"ioSleeps", "ioWoken"}
  PROVE  b \notin ToSet(idequeue)
<1> SUFFICES ASSUME b \in ToSet(idequeue) PROVE FALSE
  OBVIOUS
<1>1. PICK q \in Procs : Waits(q) /\ b \in Locked(q)
  BY QueuedIsLocked
<1>2. p = q
  BY <1>1, Exclusive
<1> QED BY <1>1, <1>2 DEF Waits

\* While p has a buffer locked, no other process reads, writes or waits for it.
LEMMA OthersUseOthers ==
  ASSUME IInv, NEW p \in Procs, NEW b \in Locked(p), NEW q \in Procs, q # p,
         Waits(q) \/ pc[q] = "iderw"
  PROVE  Buf(q) \in Bufs /\ Buf(q) # b
<1>1. hold[q] # <<>> /\ pc[q] \notin Outside
  BY DEF IInv, HeldOnce, Waits, Outside
<1>2. Buf(q) \in Bufs /\ Buf(q) \in Locked(q)
  BY <1>1, InHand DEF Locked
<1> QED BY <1>2, Exclusive

\* A buffer without references is in nobody's hands and not in the queue.
LEMMA Unreferenced ==
  ASSUME IInv, NEW b \in Bufs, refcnt[b] = 0
  PROVE  /\ \A q \in Procs : b \notin ToSet(hold[q])
         /\ owner[b] = Nobody
         /\ b \notin ToSet(idequeue)
<1>1. \A q \in Procs : b \notin ToSet(hold[q])
  BY HoldersCounted DEF IInv, RefcntIsExact, WhoHolds
<1>2. \A q \in Procs : b \notin Locked(q)
  BY <1>1 DEF Locked
<1>3. owner[b] = Nobody
  BY <1>2 DEF IInv, TypeOK, OwnersHold
<1>4. b \notin ToSet(idequeue)
  BY <1>2, QueuedIsLocked
<1> QED BY <1>1, <1>3, <1>4

\* What the drive works on.
LEMMA HeadInHand ==
  ASSUME IInv, idequeue # <<>>
  PROVE  /\ idequeue[1] \in Bufs /\ idequeue[1] \in ToSet(idequeue)
         /\ blockno[idequeue[1]] \in Blocks
<1>1. idequeue[1] \in ToSet(idequeue)
  BY TailDropsHead DEF IInv, TypeOK
<1>2. PICK q \in Procs : Buf(q) = idequeue[1] /\ hold[q] # <<>>
  BY <1>1, QueuedIsLocked
<1> QED BY <1>1, <1>2, InHand

-------------------------------------------------------------------------------
(* The parts of IInv that a step leaves alone. *)

LEMMA SameBuffers ==
  ASSUME IInv, UNCHANGED <<blockno, refcnt, hold>>,
         \A q \in Procs : pc'[q] = pc[q] \/ hold[q] # <<>>
  PROVE  OneBufferPerBlock' /\ RefcntIsExact' /\ HeldOnce'
<1>1. OneBufferPerBlock' /\ RefcntIsExact'
  BY DEF IInv, OneBufferPerBlock, RefcntIsExact
<1>2. HeldOnce'
  BY DEF IInv, HeldOnce
<1> QED BY <1>1, <1>2

LEMMA SameLocks ==
  ASSUME IInv, UNCHANGED <<owner, hold>>,
         \A q \in Procs : pc'[q] \in Outside <=> pc[q] \in Outside
  PROVE  OwnersHold'
<1>1. \A q \in Procs : Locked(q)' = Locked(q)
  BY DEF Locked, Buf
<1> QED BY <1>1 DEF IInv, OwnersHold

LEMMA SameQueue ==
  ASSUME IInv, UNCHANGED <<idequeue, hold, valid, dirty>>,
         \A q \in Procs : \/ pc'[q] = pc[q]
                          \/ {pc[q], pc'[q]} \cap {"iderw", "ioSleeps", "ioWoken"} = {}
  PROVE  QueueIsWaitedFor'
<1>1. \A q \in Procs : (Waits(q)' <=> Waits(q)) /\ (pc'[q] = "iderw" <=> pc[q] = "iderw")
                       /\ (pc'[q] = "ioSleeps" <=> pc[q] = "ioSleeps")
                       /\ Buf(q)' = Buf(q)
  BY DEF Waits, Buf
<1>2. \A b : Synced(b)' = Synced(b)
  BY DEF Synced
<1>3. ToSet(idequeue)' = ToSet(idequeue)
  OBVIOUS
<1> QED BY <1>1, <1>2, <1>3 DEF IInv, QueueIsWaitedFor

LEMMA SameContents ==
  ASSUME IInv, UNCHANGED <<valid, dirty, blockno, data, disk>>
  PROVE  OnlyReadIsWritten' /\ (DiskErrors \/ CleanIsDisk')
BY DEF IInv, OnlyReadIsWritten, CleanIsDisk, Synced

LEMMA SameDrive ==
  ASSUME IInv, UNCHANGED <<idequeue, drive>>,
         \A b \in ToSet(idequeue) : /\ blockno'[b] = blockno[b] /\ dirty'[b] = dirty[b]
                                    /\ data'[b] = data[b] /\ disk'[blockno[b]] = disk[blockno[b]]
  PROVE  DriveKnowsHead'
<1>1. idequeue # <<>> => idequeue[1] \in ToSet(idequeue)
  BY TailDropsHead DEF IInv, TypeOK
<1> QED BY <1>1 DEF IInv, DriveKnowsHead

\* Those who have not come to the point where they use their buffer have not moved.
LEMMA SameReads ==
  ASSUME IInv, UNCHANGED <<hold, valid>>,
         \A q \in Procs : pc'[q] = pc[q] \/ pc'[q] # "run" \/ valid[Buf(q)]
  PROVE  ReadBeforeUse'
BY DEF IInv, ReadBeforeUse, Buf

-------------------------------------------------------------------------------
(* One lemma for each action: IInv is inductive. *)

LEMMA AcquireKeeps ==
  ASSUME IInv, NEW p \in Procs, acquiresleep(p)
  PROVE  IInv'
<1> DEFINE b == Buf(p)
<1>1. /\ pc[p] = "lock" /\ hold[p] # <<>> /\ b \in Bufs /\ b \in ToSet(hold[p])
      /\ pc \in [Procs -> Points] /\ owner \in [Bufs -> Procs \cup {Nobody}]
  BY InHand DEF acquiresleep, IInv, HeldOnce, TypeOK
<1> HIDE DEF b
<1>2. /\ UNCHANGED <<bufVars, data, flags, ideVars, driver, hold, panicked>>
      /\ \A q \in Procs : q # p => pc'[q] = pc[q]
      /\ pc'[p] \in {"locked", "lockSleeps"} /\ pc' \in [Procs -> Points]
      /\ pc'[p] = "locked" => owner[b] = Nobody
      /\ \A c \in Bufs : owner'[c] = IF c = b /\ pc'[p] = "locked" THEN p ELSE owner[c]
      /\ owner' \in [Bufs -> Procs \cup {Nobody}]
  BY <1>1 DEF acquiresleep, MayLock, Points, b
<1>3. TypeOK'
  BY <1>2 DEF IInv, TypeOK, bufVars, flags, ideVars
<1>4. NoPanic'
  BY <1>2 DEF IInv, NoPanic, bufVars, flags
<1>5. OneBufferPerBlock' /\ RefcntIsExact' /\ HeldOnce'
  BY <1>1, <1>2, SameBuffers DEF bufVars
<1>6. OwnersHold'
  <2>1. \A q \in Procs : q # p => Locked(q)' = Locked(q)
    BY <1>2 DEF Locked, Buf
  <2>2. Locked(p)' = IF pc'[p] = "locked" THEN ToSet(hold[p]) ELSE ToSet(hold[p]) \ {b}
    BY <1>2 DEF Locked, Buf, Outside, b
  <2>3. Locked(p) = ToSet(hold[p]) \ {b}
    BY <1>1 DEF Locked, Outside, b
  <2>4. \A q \in Procs, c \in Bufs : owner[c] = q <=> c \in Locked(q)
    BY DEF IInv, OwnersHold
  <2>5. Nobody \notin Procs
    BY BlockIOAssumption
  <2>6. \A q \in Procs, c \in Bufs : owner'[c] = q <=> c \in Locked(q)'
    BY <1>1, <1>2, <2>1, <2>2, <2>3, <2>4, <2>5
  <2> QED BY <2>6 DEF OwnersHold
<1>7. ReadBeforeUse'
  BY <1>1, <1>2, SameReads DEF flags
<1>8. QueueIsWaitedFor'
  BY <1>1, <1>2, SameQueue DEF ideVars, flags
<1>9. OnlyReadIsWritten' /\ DriveKnowsHead' /\ (DiskErrors \/ CleanIsDisk')
  BY <1>2, SameContents, SameDrive DEF bufVars, flags, ideVars
<1> QED BY <1>3, <1>4, <1>5, <1>6, <1>7, <1>8, <1>9 DEF IInv

\* A step that only moves the process.
LEMMA MoveKeeps ==
  ASSUME IInv, NEW p \in Procs, hold[p] # <<>>,
         UNCHANGED <<bufVars, data, flags, owner, ideVars, driver, hold, panicked>>,
         pc' \in [Procs -> Points], \A q \in Procs : q # p => pc'[q] = pc[q],
         pc'[p] \in Outside <=> pc[p] \in Outside,
         pc'[p] = "run" => valid[Buf(p)],
         QueueIsWaitedFor'
  PROVE  IInv'
<1>1. TypeOK'
  BY DEF IInv, TypeOK, bufVars, flags, ideVars
<1>2. NoPanic'
  BY DEF IInv, NoPanic, bufVars, flags
<1>3. OneBufferPerBlock' /\ RefcntIsExact' /\ HeldOnce'
  BY SameBuffers DEF bufVars
<1>4. OwnersHold' /\ ReadBeforeUse'
  BY SameLocks, SameReads DEF flags
<1>5. OnlyReadIsWritten' /\ DriveKnowsHead' /\ (DiskErrors \/ CleanIsDisk')
  BY SameContents, SameDrive DEF bufVars, flags, ideVars
<1> QED BY <1>1, <1>2, <1>3, <1>4, <1>5 DEF IInv

LEMMA KillKeeps ==
  ASSUME IInv, NEW p \in Procs, kill(p)
  PROVE  IInv'
<1>1. /\ pc[p] \in {"lockSleeps", "ioSleeps"} /\ hold[p] # <<>>
      /\ UNCHANGED <<bufVars, data, flags, owner, ideVars, driver, hold, panicked>>
      /\ pc' \in [Procs -> Points] /\ \A q \in Procs : q # p => pc'[q] = pc[q]
      /\ pc'[p] = IF pc[p] = "lockSleeps" THEN "lock" ELSE "ioWoken"
  BY DEF kill, IInv, HeldOnce, TypeOK, Points
<1>2. pc'[p] \in Outside <=> pc[p] \in Outside
  BY <1>1 DEF Outside
<1>3. QueueIsWaitedFor'
  <2>1. \A q \in Procs : /\ Waits(q)' <=> Waits(q)
                         /\ pc'[q] = "iderw" <=> pc[q] = "iderw"
                         /\ pc'[q] = "ioSleeps" => pc[q] = "ioSleeps"
                         /\ Buf(q)' = Buf(q)
    BY <1>1 DEF Waits, Buf
  <2>2. \A b : Synced(b)' = Synced(b)
    BY <1>1 DEF Synced, flags
  <2>3. ToSet(idequeue)' = ToSet(idequeue)
    BY <1>1 DEF ideVars
  <2> QED BY <2>1, <2>2, <2>3 DEF IInv, QueueIsWaitedFor
<1> QED BY <1>1, <1>2, <1>3, MoveKeeps

LEMMA ReadKeeps ==
  ASSUME IInv, NEW p \in Procs, bread(p)
  PROVE  IInv'
<1>1. /\ pc[p] = "locked" /\ hold[p] # <<>>
      /\ UNCHANGED <<bufVars, data, flags, owner, ideVars, driver, hold, panicked>>
      /\ pc' \in [Procs -> Points] /\ \A q \in Procs : q # p => pc'[q] = pc[q]
      /\ pc'[p] = IF valid[Buf(p)] THEN "run" ELSE "iderw"
  BY DEF bread, NeedsRead, IInv, HeldOnce, TypeOK, Points
<1>2. pc'[p] \in Outside <=> pc[p] \in Outside
  BY <1>1 DEF Outside
<1>3. QueueIsWaitedFor'
  <2>1. \A q \in Procs : /\ Waits(q)' <=> Waits(q)
                         /\ pc'[q] = "iderw" => pc[q] = "iderw" \/ ~valid[Buf(q)]
                         /\ pc'[q] = "ioSleeps" => pc[q] = "ioSleeps"
                         /\ Buf(q)' = Buf(q)
    BY <1>1 DEF Waits, Buf
  <2>2. \A b : Synced(b)' = Synced(b) /\ (Synced(b) => valid[b])
    BY <1>1 DEF Synced, flags
  <2>3. ToSet(idequeue)' = ToSet(idequeue)
    BY <1>1 DEF ideVars
  <2> QED BY <2>1, <2>2, <2>3 DEF IInv, QueueIsWaitedFor
<1> QED BY <1>1, <1>2, <1>3, MoveKeeps

LEMMA AgainKeeps ==
  ASSUME IInv, NEW p \in Procs, iderwAgain(p)
  PROVE  IInv'
<1>1. /\ pc[p] = "ioWoken" /\ hold[p] # <<>>
      /\ UNCHANGED <<bufVars, data, flags, owner, ideVars, driver, hold, panicked>>
      /\ pc' \in [Procs -> Points] /\ \A q \in Procs : q # p => pc'[q] = pc[q]
      /\ pc'[p] = IF Synced(Buf(p)) THEN "run" ELSE "ioSleeps"
  BY DEF iderwAgain, IoDone, IInv, HeldOnce, TypeOK, Points
<1>2. pc'[p] \in Outside <=> pc[p] \in Outside
  BY <1>1 DEF Outside
<1>3. QueueIsWaitedFor'
  <2>1. \A q \in Procs : /\ Waits(q)' => Waits(q)
                         /\ Waits(q) /\ Buf(q) \in ToSet(idequeue) => Waits(q)'
                         /\ pc'[q] = "iderw" => pc[q] = "iderw"
                         /\ pc'[q] = "ioSleeps" => Buf(q) \in ToSet(idequeue)
                         /\ Buf(q)' = Buf(q)
    BY <1>1 DEF Waits, Buf, IInv, QueueIsWaitedFor
  <2>2. \A b : Synced(b)' = Synced(b)
    BY <1>1 DEF Synced, flags
  <2>3. ToSet(idequeue)' = ToSet(idequeue)
    BY <1>1 DEF ideVars
  <2> QED BY <2>1, <2>2, <2>3 DEF IInv, QueueIsWaitedFor
<1>4. pc'[p] = "run" => valid[Buf(p)]
  BY <1>1 DEF Synced
<1> QED BY <1>1, <1>2, <1>3, <1>4, MoveKeeps

\* releasesleep() of the last buffer.
LEMMA ReleaseKeeps ==
  ASSUME IInv, NEW p \in Procs, releasesleep(p)
  PROVE  IInv'
<1> DEFINE b == Buf(p)
<1>1. /\ pc[p] = "run" /\ hold[p] # <<>> /\ b \in Bufs /\ b \in ToSet(hold[p])
      /\ pc \in [Procs -> Points] /\ owner \in [Bufs -> Procs \cup {Nobody}]
  BY InHand DEF releasesleep, IInv, TypeOK
<1>2. owner[b] = p
  <2>1. b \in Locked(p)
    BY <1>1 DEF Locked, Outside
  <2> QED BY <1>1, <2>1 DEF IInv, OwnersHold
<1> HIDE DEF b
<1>3. /\ UNCHANGED <<bufVars, data, flags, ideVars, driver, hold, panicked>>
      /\ owner' = [owner EXCEPT ![b] = Nobody]
      /\ pc' = Unlocked(p)
  BY <1>2 DEF releasesleep, holdingsleep, b
<1>4. /\ pc' \in [Procs -> Points] /\ pc'[p] = "brelse"
      /\ \A q \in Procs : q # p => pc'[q] = pc[q] \/ (pc[q] = "lockSleeps" /\ pc'[q] = "lock")
  BY <1>1, <1>3 DEF Unlocked, Wakeup, Points
<1>5. TypeOK'
  BY <1>3, <1>4 DEF IInv, TypeOK, bufVars, flags, ideVars
<1>6. NoPanic'
  BY <1>3 DEF IInv, NoPanic, bufVars, flags
<1>7. \A q \in Procs : pc'[q] = pc[q] \/ hold[q] # <<>>
  BY <1>1, <1>4 DEF IInv, HeldOnce
<1>8. OneBufferPerBlock' /\ RefcntIsExact' /\ HeldOnce'
  BY <1>3, <1>7, SameBuffers DEF bufVars
<1>9. OwnersHold'
  <2>1. \A q \in Procs : q # p => Locked(q)' = Locked(q)
    BY <1>3, <1>4 DEF Locked, Buf, Outside
  <2>2. Locked(p)' = Locked(p) \ {b}
    BY <1>1, <1>3, <1>4 DEF Locked, Buf, Outside, b
  <2>3. \A q \in Procs, c \in Bufs : owner[c] = q <=> c \in Locked(q)
    BY DEF IInv, OwnersHold
  <2>4. \A c \in Bufs : owner'[c] = IF c = b THEN Nobody ELSE owner[c]
    BY <1>1, <1>3
  <2>5. \A q \in Procs, c \in Bufs : owner'[c] = q <=> c \in Locked(q)'
    BY <1>1, <1>2, <2>1, <2>2, <2>3, <2>4, BlockIOAssumption
  <2> QED BY <2>5 DEF OwnersHold
<1>10. ReadBeforeUse'
  <2>1. \A q \in Procs : pc'[q] = pc[q] \/ pc'[q] # "run"
    BY <1>4
  <2> QED BY <1>3, <2>1, SameReads DEF flags
<1>11. QueueIsWaitedFor'
  <2>1. \A q \in Procs : \/ pc'[q] = pc[q]
                         \/ {pc[q], pc'[q]} \cap {"iderw", "ioSleeps", "ioWoken"} = {}
    BY <1>1, <1>4
  <2> QED BY <1>3, <2>1, SameQueue DEF ideVars, flags
<1>12. OnlyReadIsWritten' /\ DriveKnowsHead' /\ (DiskErrors \/ CleanIsDisk')
  BY <1>3, SameContents, SameDrive DEF bufVars, flags, ideVars
<1> QED BY <1>5, <1>6, <1>8, <1>9, <1>10, <1>11, <1>12 DEF IInv

\* A holder changes what is in the buffer, by bwrite() or log_write().
LEMMA WriteKeeps ==
  ASSUME IInv, NEW p \in Procs, NEW v \in Values, bwrite(p, v) \/ log_write(p, v)
  PROVE  IInv'
<1> DEFINE b == Buf(p)
<1>1. /\ pc[p] = "run" /\ hold[p] # <<>> /\ b \in Bufs /\ b \in ToSet(hold[p])
      /\ blockno[b] \in Blocks
      /\ pc \in [Procs -> Points] /\ data \in [Bufs -> Contents] /\ dirty \in [Bufs -> BOOLEAN]
  BY InHand DEF bwrite, log_write, IInv, TypeOK
<1>2. /\ owner[b] = p /\ valid[b] /\ b \notin ToSet(idequeue) /\ b \in Locked(p)
  <2>1. b \in Locked(p)
    BY <1>1 DEF Locked, Outside
  <2>2. b \notin ToSet(idequeue)
    BY <1>1, <2>1, NotQueued
  <2> QED BY <1>1, <2>1, <2>2 DEF IInv, OwnersHold, ReadBeforeUse
<1> HIDE DEF b
<1>3. /\ UNCHANGED <<bufVars, valid, owner, ideVars, driver, hold, panicked>>
      /\ data' = [data EXCEPT ![b] = v] /\ dirty' = [dirty EXCEPT ![b] = TRUE]
      /\ pc' \in [Procs -> Points]
      /\ \A q \in Procs : q # p => pc'[q] = pc[q]
      /\ pc'[p] \in {"run", "iderw"}
  BY <1>1, <1>2 DEF bwrite, log_write, holdingsleep, b, procVars, Points
<1>4. /\ data' \in [Bufs -> Contents] /\ dirty' \in [Bufs -> BOOLEAN] /\ dirty'[b]
      /\ \A c \in Bufs : c # b => data'[c] = data[c] /\ dirty'[c] = dirty[c]
      /\ \A c \in Bufs : dirty[c] => dirty'[c]
  BY <1>1, <1>3 DEF Contents
<1>5. TypeOK'
  BY <1>3, <1>4 DEF IInv, TypeOK, bufVars, ideVars
<1>6. NoPanic'
  BY <1>3, <1>4 DEF IInv, NoPanic
<1>7. OneBufferPerBlock' /\ RefcntIsExact' /\ HeldOnce'
  BY <1>1, <1>3, SameBuffers DEF bufVars
<1>8. OwnersHold'
  BY <1>1, <1>3, SameLocks DEF Outside
<1>9. ReadBeforeUse'
  <2>1. \A q \in Procs : pc'[q] = pc[q] \/ pc'[q] # "run" \/ valid[Buf(q)]
    BY <1>2, <1>3 DEF b
  <2> QED BY <1>3, <2>1, SameReads
<1>10. QueueIsWaitedFor'
  <2>1. \A q \in Procs : /\ Waits(q)' <=> Waits(q)
                         /\ pc'[q] = "iderw" => pc[q] = "iderw" \/ q = p
                         /\ pc'[q] = "ioSleeps" => pc[q] = "ioSleeps"
                         /\ Buf(q)' = Buf(q)
    BY <1>1, <1>3 DEF Waits, Buf
  <2>2. \A c \in Bufs : Synced(c)' <=> Synced(c) /\ c # b
    BY <1>3, <1>4 DEF Synced
  <2>3. ToSet(idequeue)' = ToSet(idequeue)
    BY <1>3 DEF ideVars
  <2>4. \A q \in Procs : Waits(q) \/ pc[q] = "iderw" => (Buf(q) \in Bufs /\ Buf(q) # b) \/ q = p
    BY <1>2, OthersUseOthers
  <2>5. b = Buf(p) /\ b \in Bufs /\ ~ Waits(p) /\ pc[p] # "iderw" /\ b \notin ToSet(idequeue)
    BY <1>1, <1>2 DEF b, Waits
  <2> QED BY <2>1, <2>2, <2>3, <2>4, <2>5 DEF IInv, QueueIsWaitedFor
<1>11. OnlyReadIsWritten'
  BY <1>1, <1>2, <1>3, <1>4 DEF IInv, OnlyReadIsWritten, bufVars
<1>12. DriveKnowsHead'
  <2>1. \A c \in ToSet(idequeue) : c \in Bufs /\ c # b
    BY <1>2, QueuedIsLocked
  <2> QED BY <1>3, <1>4, <2>1, SameDrive DEF ideVars, bufVars
<1>13. DiskErrors \/ CleanIsDisk'
  BY <1>1, <1>3, <1>4 DEF IInv, CleanIsDisk, Synced, bufVars, ideVars
<1> QED BY <1>5, <1>6, <1>7, <1>8, <1>9, <1>10, <1>11, <1>12, <1>13 DEF IInv

\* iderw() of ide.c puts the buffer at the end of the queue and may start the drive.
LEMMA StartKeeps ==
  ASSUME IInv, NEW p \in Procs, iderw(p)
  PROVE  IInv'
<1> DEFINE b == Buf(p)
<1>1. /\ pc[p] = "iderw" /\ hold[p] # <<>> /\ b \in Bufs /\ b \in ToSet(hold[p])
      /\ blockno[b] \in Blocks /\ b \in Locked(p) /\ owner[b] = p /\ ~Synced(b)
      /\ pc \in [Procs -> Points]
  <2>1. /\ pc[p] = "iderw" /\ hold[p] # <<>> /\ pc \in [Procs -> Points]
    BY DEF iderw, IInv, HeldOnce, TypeOK
  <2>2. b \in Bufs /\ b \in ToSet(hold[p]) /\ blockno[b] \in Blocks
    BY <2>1, InHand
  <2>3. b \in Locked(p)
    BY <2>1, <2>2 DEF Locked, Outside
  <2> QED BY <2>1, <2>2, <2>3 DEF IInv, OwnersHold, QueueIsWaitedFor
<1>2. /\ idequeue \in Seq(Bufs) /\ IsInjective(idequeue) /\ b \notin ToSet(idequeue)
  BY <1>1, NotQueued DEF IInv, TypeOK
<1> HIDE DEF b
<1>3. /\ UNCHANGED <<bufVars, data, flags, owner, disk, driver, hold, panicked>>
      /\ idequeue' = Append(idequeue, b)
      /\ drive' = IF idequeue = <<>> THEN Command(b) ELSE drive
      /\ pc' \in [Procs -> Points] /\ pc'[p] = "ioSleeps"
      /\ \A q \in Procs : q # p => pc'[q] = pc[q]
  BY <1>1 DEF iderw, holdingsleep, Queued, b, Points
<1>4. /\ idequeue' \in Seq(Bufs) /\ IsInjective(idequeue') /\ idequeue' # <<>>
      /\ ToSet(idequeue)' = ToSet(idequeue) \cup {b}
  BY <1>1, <1>2, <1>3, AppendIsLast
<1>5. /\ Command(b).state = "busy" /\ Command(b) \in Commands
      /\ Command(b).op = (IF dirty[b] THEN "write" ELSE "read")
      /\ Command(b).block = blockno[b] /\ Command(b).data = data[b]
  BY <1>1 DEF Command, Commands, IInv, TypeOK
<1>6. TypeOK'
  BY <1>3, <1>4, <1>5 DEF IInv, TypeOK, bufVars, flags
<1>7. NoPanic'
  BY <1>3 DEF IInv, NoPanic, flags
<1>8. OneBufferPerBlock' /\ RefcntIsExact' /\ HeldOnce'
  BY <1>1, <1>3, SameBuffers DEF bufVars
<1>9. OwnersHold'
  BY <1>1, <1>3, SameLocks DEF Outside
<1>10. ReadBeforeUse'
  BY <1>1, <1>3, SameReads DEF flags
<1>11. QueueIsWaitedFor'
  <2>1. \A q \in Procs : /\ Waits(q)' <=> Waits(q) \/ q = p
                         /\ pc'[q] = "iderw" => pc[q] = "iderw"
                         /\ pc'[q] = "ioSleeps" => pc[q] = "ioSleeps" \/ q = p
                         /\ Buf(q)' = Buf(q)
    BY <1>1, <1>3 DEF Waits, Buf
  <2>2. \A c : Synced(c)' <=> Synced(c)
    BY <1>3 DEF Synced, flags
  <2>3. \A q \in Procs : Waits(q) => Buf(q) # b \/ q = p
    BY <1>1, OthersUseOthers
  <2>4. Buf(p) = b
    BY DEF b
  <2> QED BY <1>1, <1>4, <2>1, <2>2, <2>3, <2>4 DEF IInv, QueueIsWaitedFor
<1>12. OnlyReadIsWritten' /\ (DiskErrors \/ CleanIsDisk')
  BY <1>3, SameContents DEF bufVars, flags
<1>13. DriveKnowsHead'
  <2>1. /\ idequeue = <<>> => idequeue'[1] = b
        /\ idequeue # <<>> => idequeue'[1] = idequeue[1]
    BY <1>2, <1>3
  <2>2. Command(b) # Idle
    BY <1>5 DEF Idle
  <2>3. CASE idequeue = <<>>
    BY <1>3, <1>4, <1>5, <2>1, <2>2, <2>3 DEF DriveKnowsHead, bufVars, flags
  <2>4. CASE idequeue # <<>>
    BY <1>3, <1>4, <2>1, <2>4 DEF IInv, DriveKnowsHead, bufVars, flags
  <2> QED BY <2>3, <2>4
<1> QED BY <1>6, <1>7, <1>8, <1>9, <1>10, <1>11, <1>12, <1>13 DEF IInv

\* iderw() of memide.c copies between the buffer and the disk at once.
LEMMA CopyKeeps ==
  ASSUME IInv, panicked = "none", NEW p \in Procs, iderwMem(p)
  PROVE  IInv'
<1> DEFINE b == Buf(p)
<1>1. /\ pc[p] = "iderw" /\ hold[p] # <<>> /\ b \in Bufs /\ b \in ToSet(hold[p])
      /\ blockno[b] \in Blocks /\ b \in Locked(p) /\ owner[b] = p /\ ~Synced(b)
      /\ pc \in [Procs -> Points]
  <2>1. /\ pc[p] = "iderw" /\ hold[p] # <<>> /\ pc \in [Procs -> Points]
    BY DEF iderwMem, IInv, HeldOnce, TypeOK
  <2>2. b \in Bufs /\ b \in ToSet(hold[p]) /\ blockno[b] \in Blocks
    BY <2>1, InHand
  <2>3. b \in Locked(p)
    BY <2>1, <2>2 DEF Locked, Outside
  <2> QED BY <2>1, <2>2, <2>3 DEF IInv, OwnersHold, QueueIsWaitedFor
<1>2. b \notin ToSet(idequeue)
  BY <1>1, NotQueued
<1> HIDE DEF b
<1>3. /\ UNCHANGED <<bufVars, owner, idequeue, drive, driver, hold, panicked>>
      /\ disk' = IF dirty[b] THEN [disk EXCEPT ![blockno[b]] = data[b]] ELSE disk
      /\ data' = IF dirty[b] THEN data ELSE [data EXCEPT ![b] = disk[blockno[b]]]
      /\ dirty' = [dirty EXCEPT ![b] = FALSE]
      /\ valid' = [valid EXCEPT ![b] = TRUE]
      /\ pc' \in [Procs -> Points] /\ pc'[p] = "run"
      /\ \A q \in Procs : q # p => pc'[q] = pc[q]
  BY <1>1 DEF iderwMem, holdingsleep, b, Points
<1>4. /\ data \in [Bufs -> Contents] /\ disk \in [Blocks -> Contents]
      /\ valid \in [Bufs -> BOOLEAN] /\ dirty \in [Bufs -> BOOLEAN]
  BY DEF IInv, TypeOK
<1>5. /\ data' \in [Bufs -> Contents] /\ disk' \in [Blocks -> Contents]
      /\ valid' \in [Bufs -> BOOLEAN] /\ dirty' \in [Bufs -> BOOLEAN]
      /\ \A c \in Bufs : c # b => data'[c] = data[c] /\ dirty'[c] = dirty[c] /\ valid'[c] = valid[c]
      /\ \A blk \in Blocks : blk # blockno[b] => disk'[blk] = disk[blk]
      /\ valid'[b] /\ ~dirty'[b] /\ data'[b] = disk'[blockno[b]]
  BY <1>1, <1>3, <1>4
<1>6. \A c \in Bufs : c # b => blockno[c] # blockno[b]
  BY <1>1, BlockIOAssumption DEF IInv, OneBufferPerBlock
<1>7. TypeOK'
  BY <1>3, <1>5 DEF IInv, TypeOK, bufVars
<1>8. NoPanic'
  BY <1>3 DEF NoPanic
<1>9. OneBufferPerBlock' /\ RefcntIsExact' /\ HeldOnce'
  BY <1>1, <1>3, SameBuffers DEF bufVars
<1>10. OwnersHold'
  BY <1>1, <1>3, SameLocks DEF Outside
<1>11. ReadBeforeUse'
  <2>1. \A q \in Procs : ToSet(hold[q]) \subseteq Bufs
    BY HeldIsBuffer
  <2>2. \A q \in Procs : Buf(q)' = Buf(q)
    BY <1>3 DEF Buf
  <2>3. Buf(p) = b
    BY DEF b
  <2> QED BY <1>1, <1>3, <1>5, <2>1, <2>2, <2>3 DEF IInv, ReadBeforeUse
<1>12. QueueIsWaitedFor'
  <2>1. \A q \in Procs : /\ Waits(q)' <=> Waits(q)
                         /\ pc'[q] = "iderw" => pc[q] = "iderw" /\ q # p
                         /\ pc'[q] = "ioSleeps" => pc[q] = "ioSleeps"
                         /\ Buf(q)' = Buf(q)
    BY <1>1, <1>3 DEF Waits, Buf
  <2>2. \A c \in Bufs : c # b => Synced(c)' = Synced(c)
    BY <1>5 DEF Synced
  <2>3. \A q \in Procs : Waits(q) \/ (pc[q] = "iderw" /\ q # p) => Buf(q) \in Bufs /\ Buf(q) # b
    <3>1. ~Waits(p)
      BY <1>1 DEF Waits
    <3> QED BY <3>1, <1>1, OthersUseOthers
  <2>4. ToSet(idequeue)' = ToSet(idequeue)
    BY <1>3
  <2> QED BY <2>1, <2>2, <2>3, <2>4 DEF IInv, QueueIsWaitedFor
<1>13. OnlyReadIsWritten'
  BY <1>1, <1>3, <1>5 DEF IInv, OnlyReadIsWritten, bufVars
<1>14. DriveKnowsHead'
  <2>1. \A c \in ToSet(idequeue) : c \in Bufs /\ c # b /\ blockno[c] \in Blocks
    <3>1. \A c \in ToSet(idequeue) : \E q \in Procs : Buf(q) = c /\ hold[q] # <<>>
      BY QueuedIsLocked
    <3> QED BY <3>1, <1>2, InHand
  <2> QED BY <1>3, <1>5, <1>6, <2>1, SameDrive DEF bufVars
<1>15. DiskErrors \/ CleanIsDisk'
  <2> SUFFICES ASSUME ~DiskErrors, NEW c \in Bufs, Synced(c)'
               PROVE  data'[c] = disk'[blockno'[c]]
    BY DEF CleanIsDisk
  <2>1. CASE c = b
    BY <1>3, <1>5, <2>1 DEF bufVars
  <2>2. CASE c # b
    <3>1. Synced(c) /\ blockno[c] \in Blocks
      BY <1>5, <2>2 DEF Synced, IInv, OnlyReadIsWritten
    <3> QED BY <1>3, <1>5, <1>6, <2>2, <3>1 DEF bufVars, IInv, CleanIsDisk
  <2> QED BY <2>1, <2>2
<1> QED BY <1>7, <1>8, <1>9, <1>10, <1>11, <1>12, <1>13, <1>14, <1>15 DEF IInv

\* The drive carries out the command, or fails to.
LEMMA AnswerKeeps ==
  ASSUME IInv, driveAnswers
  PROVE  IInv'
<1> DEFINE b == idequeue[1]
<1>1. /\ drive \in Commands /\ idequeue # <<>> /\ drive.state = "busy"
      /\ drive.block = blockno[b] /\ (drive.op = "write" <=> dirty[b])
      /\ drive.op = "write" => drive.data = data[b]
      /\ drive.op = "error" => DiskErrors
  BY DEF driveAnswers, IInv, DriveKnowsHead, Idle
<1>2. b \in Bufs /\ blockno[b] \in Blocks
  BY <1>1, HeadInHand
<1> HIDE DEF b
<1>3. /\ disk \in [Blocks -> Contents] /\ drive.data \in Contents
      /\ disk[blockno[b]] \in Contents
  BY <1>1, <1>2 DEF IInv, TypeOK, Commands
<1>4. /\ UNCHANGED <<bufVars, data, flags, owner, idequeue, driver, procVars, panicked>>
      /\ drive' \in Commands /\ drive'.state = "done" /\ drive'.block = drive.block
      /\ disk' = IF dirty[b] THEN [disk EXCEPT ![blockno[b]] = data[b]] ELSE disk
      /\ drive'.op = "write" <=> dirty[b]
      /\ drive'.op = "write" => drive'.data = data[b]
      /\ drive'.op = "read" => drive'.data = disk[blockno[b]]
      /\ drive'.op = "error" => DiskErrors
  <2>1. CASE drive.op = "write"
    BY <1>1, <1>2, <1>3, <2>1 DEF driveAnswers, Commands
  <2>2. CASE drive.op # "write"
    BY <1>1, <1>2, <1>3, <2>2 DEF driveAnswers, Commands
  <2> QED BY <2>1, <2>2
<1>5. TypeOK'
  BY <1>1, <1>2, <1>3, <1>4 DEF IInv, TypeOK, bufVars, flags, procVars, Commands
<1>6. NoPanic' /\ OwnersHold' /\ ReadBeforeUse'
  BY <1>4, SameLocks, SameReads DEF IInv, NoPanic, flags, procVars
<1>7. OneBufferPerBlock' /\ RefcntIsExact' /\ HeldOnce'
  BY <1>4, SameBuffers DEF bufVars, procVars
<1>8. QueueIsWaitedFor'
  BY <1>4, SameQueue DEF flags, procVars
<1>9. OnlyReadIsWritten'
  BY <1>4 DEF IInv, OnlyReadIsWritten, bufVars, flags
<1>10. DriveKnowsHead'
  <2>1. drive' # Idle
    BY <1>4 DEF Idle
  <2> QED BY <1>1, <1>2, <1>3, <1>4, <2>1 DEF DriveKnowsHead, b, bufVars, flags
<1>11. DiskErrors \/ CleanIsDisk'
  <2> SUFFICES ASSUME ~DiskErrors, NEW c \in Bufs, Synced(c)'
               PROVE  data'[c] = disk'[blockno'[c]]
    BY DEF CleanIsDisk
  <2>1. Synced(c) /\ blockno[c] \in Blocks /\ data[c] = disk[blockno[c]]
    BY <1>4 DEF Synced, flags, IInv, OnlyReadIsWritten, CleanIsDisk
  <2>2. dirty[b] => blockno[c] # blockno[b]
    BY <1>2, <2>1, BlockIOAssumption DEF IInv, OneBufferPerBlock, Synced
  <2> QED BY <1>2, <1>3, <1>4, <2>1, <2>2 DEF bufVars
<1> QED BY <1>5, <1>6, <1>7, <1>8, <1>9, <1>10, <1>11 DEF IInv

\* The interrupt of the disk.
LEMMA InterruptKeeps ==
  ASSUME IInv, panicked = "none", ideintr
  PROVE  IInv'
<1> DEFINE b == idequeue[1]
<1>1. /\ drive \in Commands /\ idequeue # <<>> /\ drive.state = "done"
      /\ drive.op = "write" <=> dirty[b]
      /\ drive.op = "write" => disk[blockno[b]] = data[b]
      /\ drive.op = "read" => drive.data = disk[blockno[b]]
      /\ drive.op = "error" => DiskErrors
  BY DEF ideintr, IInv, DriveKnowsHead, Idle
<1>2. b \in Bufs /\ blockno[b] \in Blocks /\ b \in ToSet(idequeue)
  BY <1>1, HeadInHand
<1>3. PICK w \in Procs : Waits(w) /\ Buf(w) = b /\ b \in Locked(w)
  BY <1>2, QueuedIsLocked
<1>4. /\ UNCHANGED <<bufVars, owner, disk, driver, hold, panicked>>
      /\ idequeue' = Tail(idequeue) /\ drive' = Started(Tail(idequeue))
      /\ data' = IF ~dirty[b] /\ drive.op # "error" THEN [data EXCEPT ![b] = drive.data] ELSE data
      /\ valid' = [valid EXCEPT ![b] = TRUE]
      /\ dirty' = [dirty EXCEPT ![b] = FALSE]
      /\ pc' = Wakeup("ioSleeps", b, "ioWoken")
  BY DEF ideintr, NextCommand
<1> HIDE DEF b
<1>5. /\ idequeue \in Seq(Bufs) /\ IsInjective(idequeue) /\ pc \in [Procs -> Points]
      /\ data \in [Bufs -> Contents] /\ drive.data \in Contents
      /\ valid \in [Bufs -> BOOLEAN] /\ dirty \in [Bufs -> BOOLEAN]
  BY <1>1 DEF IInv, TypeOK, Commands
<1>6. /\ idequeue' \in Seq(Bufs) /\ IsInjective(idequeue')
      /\ ToSet(idequeue)' = ToSet(idequeue) \ {b}
  BY <1>1, <1>4, <1>5, TailDropsHead DEF b
<1>7. /\ data' \in [Bufs -> Contents] /\ valid' \in [Bufs -> BOOLEAN] /\ dirty' \in [Bufs -> BOOLEAN]
      /\ \A c \in Bufs : c # b => data'[c] = data[c] /\ dirty'[c] = dirty[c] /\ valid'[c] = valid[c]
      /\ valid'[b] /\ ~dirty'[b]
      /\ data'[b] = IF ~dirty[b] /\ drive.op # "error" THEN drive.data ELSE data[b]
  BY <1>2, <1>4, <1>5
<1>8. /\ pc' \in [Procs -> Points]
      /\ \A q \in Procs : pc'[q] = IF pc[q] = "ioSleeps" /\ Buf(q) = b THEN "ioWoken" ELSE pc[q]
  BY <1>4, <1>5 DEF Wakeup, Points
<1>9. \A q \in Procs : /\ Waits(q)' <=> Waits(q)
                       /\ pc'[q] \in Outside <=> pc[q] \in Outside
                       /\ pc'[q] = pc[q] \/ (hold[q] # <<>> /\ pc'[q] # "run")
                       /\ pc'[q] = "iderw" => pc[q] = "iderw"
                       /\ pc'[q] = "ioSleeps" => pc[q] = "ioSleeps" /\ Buf(q) # b
                       /\ Buf(q)' = Buf(q)
  BY <1>4, <1>8 DEF Waits, Outside, Buf, IInv, HeldOnce
<1>10. \A c \in Bufs : Synced(c)' <=> Synced(c) \/ c = b
  BY <1>2, <1>7 DEF Synced
<1>11. idequeue' # <<>> => LET c == idequeue'[1] IN c \in Bufs /\ c # b /\ blockno[c] \in Blocks
  <2> DEFINE c == idequeue'[1]
  <2> SUFFICES ASSUME idequeue' # <<>> PROVE c \in Bufs /\ c # b /\ blockno[c] \in Blocks
    OBVIOUS
  <2>1. c \in ToSet(idequeue) /\ c # b
    BY <1>6, TailDropsHead
  <2> HIDE DEF c
  <2>2. PICK q \in Procs : Buf(q) = c /\ hold[q] # <<>>
    BY <2>1, QueuedIsLocked
  <2> QED BY <2>1, <2>2, InHand
<1>12. /\ drive' = IF idequeue' = <<>> THEN Idle ELSE Command(idequeue'[1])
       /\ idequeue' # <<>> => Command(idequeue'[1]) \in Commands
  BY <1>4, <1>5, <1>11 DEF Started, Command, Commands, IInv, TypeOK
<1>13. TypeOK'
  <2>1. drive'.state \in {"idle", "busy", "done"}
    BY <1>12 DEF Idle, Command
  <2> QED BY <1>4, <1>6, <1>7, <1>8, <2>1 DEF IInv, TypeOK, bufVars
<1>14. NoPanic'
  BY <1>4 DEF NoPanic
<1>15. OneBufferPerBlock' /\ RefcntIsExact' /\ HeldOnce'
  BY <1>4, <1>9, SameBuffers DEF bufVars
<1>16. OwnersHold'
  BY <1>4, <1>9, SameLocks
<1>17. ReadBeforeUse'
  <2>1. \A q \in Procs : ToSet(hold[q]) \subseteq Bufs
    BY HeldIsBuffer
  <2>2. \A c \in Bufs : valid[c] => valid'[c]
    BY <1>7
  <2> QED BY <1>4, <1>9, <2>1, <2>2 DEF IInv, ReadBeforeUse
<1>18. QueueIsWaitedFor'
  <2>1. \A q \in Procs : Waits(q) \/ pc[q] = "iderw" => Buf(q) \in Bufs
    BY InHand DEF Waits, IInv, HeldOnce
  <2>2. \A q \in Procs : pc[q] = "iderw" => Buf(q) # b
    <3> SUFFICES ASSUME NEW q \in Procs, pc[q] = "iderw" PROVE Buf(q) # b
      OBVIOUS
    <3>1. q # w
      BY <1>3 DEF Waits
    <3> QED BY <1>3, <3>1, OthersUseOthers
  <2> QED BY <1>6, <1>9, <1>10, <2>1, <2>2 DEF IInv, QueueIsWaitedFor
<1>19. OnlyReadIsWritten'
  BY <1>2, <1>4, <1>7 DEF IInv, OnlyReadIsWritten, bufVars
<1>20. DriveKnowsHead'
  <2>1. CASE idequeue' = <<>>
    BY <1>12, <2>1 DEF DriveKnowsHead
  <2>2. CASE idequeue' # <<>>
    <3> DEFINE c == idequeue'[1]
    <3>1. c \in Bufs /\ c # b /\ drive' = Command(c) /\ Command(c) \in Commands
      BY <1>11, <1>12, <2>2
    <3> HIDE DEF c
    <3>2. /\ drive'.state = "busy" /\ drive'.block = blockno[c] /\ drive'.data = data[c]
          /\ drive'.op = (IF dirty[c] THEN "write" ELSE "read")
      BY <3>1 DEF Command
    <3>3. drive' # Idle
      BY <3>2 DEF Idle
    <3> QED BY <1>4, <1>7, <2>2, <3>1, <3>2, <3>3 DEF DriveKnowsHead, c, bufVars
  <2> QED BY <2>1, <2>2
<1>21. DiskErrors \/ CleanIsDisk'
  <2> SUFFICES ASSUME ~DiskErrors, NEW c \in Bufs, Synced(c)'
               PROVE  data'[c] = disk'[blockno'[c]]
    BY DEF CleanIsDisk
  <2>1. CASE c = b
    BY <1>1, <1>4, <1>7, <2>1 DEF bufVars, Commands
  <2>2. CASE c # b
    BY <1>4, <1>7, <1>10, <2>2 DEF bufVars, IInv, CleanIsDisk
  <2> QED BY <2>1, <2>2
<1> QED BY <1>13, <1>14, <1>15, <1>16, <1>17, <1>18, <1>19, <1>20, <1>21 DEF IInv

\* brelse() after releasesleep(): one reference less.
LEMMA DereferenceKeeps ==
  ASSUME IInv, panicked = "none", NEW p \in Procs, brelse(p)
  PROVE  IInv'
<1> DEFINE b == Buf(p)
<1>1. /\ pc[p] = "brelse" /\ hold[p] # <<>> /\ b \in Bufs /\ b \in ToSet(hold[p])
      /\ pc \in [Procs -> Points] /\ hold \in [Procs -> Seq(Bufs)]
      /\ refcnt \in [Bufs -> 0 .. Cardinality(Procs)]
      /\ IsInjective(hold[p]) /\ Last(hold[p]) = b
  BY InHand DEF brelse, IInv, HeldOnce, TypeOK, Buf
<1> HIDE DEF b
<1>2. /\ UNCHANGED <<blockno, data, flags, owner, ideVars, driver, panicked>>
      /\ refcnt' = [refcnt EXCEPT ![b] = refcnt[b] - 1]
      /\ lru' = (IF refcnt[b] = 1 THEN ToHead(b) ELSE lru)
      /\ pc' = [pc EXCEPT ![p] = "run"] /\ hold' = [hold EXCEPT ![p] = Front(hold[p])]
  BY <1>1 DEF brelse, Dereference, b
<1>3. /\ pc' \in [Procs -> Points] /\ pc'[p] = "run" /\ hold' \in [Procs -> Seq(Bufs)]
      /\ IsInjective(hold'[p]) /\ ToSet(hold'[p]) = ToSet(hold[p]) \ {b}
      /\ \A q \in Procs : q # p => pc'[q] = pc[q] /\ hold'[q] = hold[q] /\ Buf(q)' = Buf(q)
  <2>1. /\ Front(hold[p]) \in Seq(Bufs) /\ IsInjective(Front(hold[p]))
        /\ ToSet(Front(hold[p])) = ToSet(hold[p]) \ {b}
    BY <1>1, FrontDropsLast
  <2> QED BY <1>1, <1>2, <2>1 DEF Points, Buf
<1>4. RefcntIsExact' /\ refcnt' \in [Bufs -> 0 .. Cardinality(Procs)]
  <2> DEFINE H(c) == WhoHolds(hold, c)
             G(c) == WhoHolds(hold', c)
  <2>1. /\ \A c \in Bufs : c # b => Cardinality(G(c)) = Cardinality(H(c))
        /\ Cardinality(G(b)) = Cardinality(H(b)) - 1
    <3>1. /\ \A c \in Bufs : c # b => (c \in ToSet(hold[p]) <=> c \in ToSet(hold'[p]))
          /\ b \notin ToSet(hold'[p]) /\ b \in ToSet(hold[p])
      BY <1>1, <1>3
    <3>2. \A q \in Procs : q # p => hold'[q] = hold[q]
      BY <1>3
    <3>3. \A c : LET m == Cardinality(WhoHolds(hold, c))
                     n == Cardinality(WhoHolds(hold', c))
                 IN  /\ (c \in ToSet(hold[p]) <=> c \in ToSet(hold'[p])) => n = m
                     /\ c \notin ToSet(hold[p]) /\ c \in ToSet(hold'[p]) => n = m + 1
                     /\ c \in ToSet(hold[p]) /\ c \notin ToSet(hold'[p]) => n = m - 1
      BY <3>2, HoldersChange, ZenonT(60)
    <3> HIDE DEF G, H
    <3>4. \A c \in Bufs : c # b => Cardinality(G(c)) = Cardinality(H(c))
      BY <3>1, <3>3 DEF G, H
    <3>5. Cardinality(G(b)) = Cardinality(H(b)) - 1
      BY <3>1, <3>3 DEF G, H
    <3> QED BY <3>4, <3>5
  <2>2. \A c \in Bufs : refcnt[c] = Cardinality(H(c))
    BY DEF IInv, RefcntIsExact, WhoHolds
  <2>3. \A c \in Bufs : Cardinality(G(c)) \in 0 .. Cardinality(Procs)
    BY HoldersCounted
  <2> HIDE DEF G, H
  <2>4. \A c \in Bufs : refcnt'[c] = Cardinality(G(c))
    <3>1. \A c \in Bufs : refcnt'[c] = IF c = b THEN refcnt[b] - 1 ELSE refcnt[c]
      BY <1>1, <1>2
    <3> QED BY <1>1, <2>1, <2>2, <3>1
  <2>5. refcnt' \in [Bufs -> 0 .. Cardinality(Procs)]
    BY <1>1, <1>2, <2>3, <2>4
  <2> QED BY <2>4, <2>5 DEF G, WhoHolds, RefcntIsExact
<1>5. lru' \in Seq(Bufs) /\ IsInjective(lru') /\ ToSet(lru') = Bufs
  BY <1>1, <1>2, MovedToHead DEF IInv, TypeOK
<1>6. TypeOK'
  BY <1>2, <1>3, <1>4, <1>5 DEF IInv, TypeOK, flags, ideVars
<1>7. NoPanic'
  BY <1>2 DEF NoPanic
<1>8. OneBufferPerBlock' /\ HeldOnce'
  <2>1. \A q \in Procs : ToSet(hold'[q]) \subseteq ToSet(hold[q])
    BY <1>3
  <2> QED BY <1>2, <1>3, <2>1 DEF IInv, OneBufferPerBlock, HeldOnce
<1>9. OwnersHold'
  <2>1. \A q \in Procs : q # p => Locked(q)' = Locked(q)
    BY <1>3 DEF Locked
  <2>2. Locked(p)' = Locked(p)
    BY <1>1, <1>3 DEF Locked, Outside, b
  <2> QED BY <1>2, <2>1, <2>2 DEF IInv, OwnersHold
<1>10. ReadBeforeUse'
  <2>1. \A c \in ToSet(hold'[p]) : valid[c]
    BY <1>3 DEF IInv, ReadBeforeUse, b
  <2> QED BY <1>2, <1>3, <2>1 DEF IInv, ReadBeforeUse, flags
<1>11. QueueIsWaitedFor'
  <2>1. \A q \in Procs : /\ Waits(q)' <=> Waits(q)
                         /\ pc'[q] = "iderw" <=> pc[q] = "iderw"
                         /\ pc'[q] = "ioSleeps" <=> pc[q] = "ioSleeps"
                         /\ Waits(q) \/ pc[q] = "iderw" => Buf(q)' = Buf(q)
    BY <1>1, <1>3 DEF Waits
  <2>2. \A c : Synced(c)' = Synced(c)
    BY <1>2 DEF Synced, flags
  <2>3. ToSet(idequeue)' = ToSet(idequeue) /\ \A q \in Procs : pc[q] = "ioSleeps" => Waits(q)
    BY <1>2 DEF ideVars, Waits
  <2> QED BY <2>1, <2>2, <2>3 DEF IInv, QueueIsWaitedFor
<1>12. OnlyReadIsWritten' /\ DriveKnowsHead' /\ (DiskErrors \/ CleanIsDisk')
  BY <1>2, SameContents, SameDrive DEF flags, ideVars
<1> QED BY <1>4, <1>6, <1>7, <1>8, <1>9, <1>10, <1>11, <1>12 DEF IInv

\* bget(): one reference more, to the buffer that has the block or to one that nobody has.
LEMMA RequestKeeps ==
  ASSUME IInv, panicked = "none", NEW p \in Procs, NEW blk \in Blocks,
         bgetCached(p, blk) \/ bgetRecycles(p, blk)
  PROVE  IInv'
<1>1. /\ pc[p] = "run" /\ \A c \in ToSet(hold[p]) : blockno[c] < blk
      /\ pc \in [Procs -> Points] /\ hold \in [Procs -> Seq(Bufs)]
      /\ refcnt \in [Bufs -> 0 .. Cardinality(Procs)] /\ IsInjective(hold[p])
      /\ blockno \in [Bufs -> Blocks \cup {NoBlock}]
      /\ valid \in [Bufs -> BOOLEAN] /\ dirty \in [Bufs -> BOOLEAN]
      /\ lru \in Seq(Bufs) /\ ToSet(lru) = Bufs
  BY DEF bgetCached, bgetRecycles, Asks, IInv, TypeOK, HeldOnce
\* The buffer that bget() returns.
<1>2. PICK b \in Bufs :
        /\ b \notin ToSet(hold[p])
        /\ refcnt' = [refcnt EXCEPT ![b] = refcnt[b] + 1]
        /\ pc' = [pc EXCEPT ![p] = "lock"] /\ hold' = [hold EXCEPT ![p] = Append(hold[p], b)]
        /\ blockno' = [blockno EXCEPT ![b] = blk] /\ dirty' = dirty
        /\ \/ valid' = valid /\ blockno[b] = blk
           \/ /\ refcnt[b] = 0 /\ ~dirty[b] /\ valid' = [valid EXCEPT ![b] = FALSE]
              /\ \A c \in Bufs : blockno[c] # blk
  <2>1. CASE bgetCached(p, blk)
    <3>1. PICK b \in Cached(blk) : refcnt' = [refcnt EXCEPT ![b] = @ + 1] /\ Take(p, b)
      BY <2>1 DEF bgetCached
    <3>2. b \in Bufs /\ blockno[b] = blk
      BY <1>1, ScanFinds DEF Cached
    <3>3. b \notin ToSet(hold[p])
      BY <1>1, <3>2, BlockIOAssumption
    <3>4. blockno' = [blockno EXCEPT ![b] = blk] /\ valid' = valid /\ dirty' = dirty
      BY <1>1, <2>1, <3>2 DEF bgetCached, flags
    <3> QED BY <1>1, <3>1, <3>2, <3>3, <3>4 DEF Take
  <2>2. CASE bgetRecycles(p, blk)
    <3>1. PICK b \in Recyclable : Recycle(b, blk) /\ Take(p, b)
      BY <2>2 DEF bgetRecycles
    <3>2. b \in Bufs /\ refcnt[b] = 0 /\ ~dirty[b]
      BY <1>1, ScanFinds, ReverseIsSame DEF Recyclable
    <3>3. b \notin ToSet(hold[p])
      BY <3>2, Unreferenced
    <3>4. \A c \in Bufs : blockno[c] # blk
      <4>1. FirstIn(lru, {c \in Bufs : blockno[c] = blk}) = {}
        BY <2>2 DEF bgetRecycles, Uncached, Cached
      <4>2. Bufs \cap {c \in Bufs : blockno[c] = blk} = {}
        BY <1>1, <4>1, ScanFinds
      <4> QED BY <4>2
    <3>5. /\ blockno' = [blockno EXCEPT ![b] = blk] /\ dirty' = dirty
          /\ valid' = [valid EXCEPT ![b] = FALSE] /\ refcnt' = [refcnt EXCEPT ![b] = refcnt[b] + 1]
      BY <1>1, <3>1, <3>2 DEF Recycle
    <3>6. pc' = [pc EXCEPT ![p] = "lock"] /\ hold' = [hold EXCEPT ![p] = Append(hold[p], b)]
      BY <1>1, <3>1 DEF Take
    <3> QED BY <3>2, <3>3, <3>4, <3>5, <3>6
  <2> QED BY <2>1, <2>2
<1>3. UNCHANGED <<lru, data, owner, ideVars, driver, panicked>>
  BY DEF bgetCached, bgetRecycles
<1>4. /\ pc' \in [Procs -> Points] /\ pc'[p] = "lock" /\ hold' \in [Procs -> Seq(Bufs)]
      /\ hold'[p] # <<>> /\ Buf(p)' = b
      /\ IsInjective(hold'[p]) /\ ToSet(hold'[p]) = ToSet(hold[p]) \cup {b}
      /\ \A q \in Procs : q # p => pc'[q] = pc[q] /\ hold'[q] = hold[q] /\ Buf(q)' = Buf(q)
  <2>1. /\ Append(hold[p], b) \in Seq(Bufs) /\ IsInjective(Append(hold[p], b))
        /\ Append(hold[p], b) # <<>> /\ Last(Append(hold[p], b)) = b
        /\ ToSet(Append(hold[p], b)) = ToSet(hold[p]) \cup {b}
    <3>1. hold[p] \in Seq(Bufs) /\ IsInjective(hold[p]) /\ b \notin ToSet(hold[p])
      BY <1>1, <1>2
    <3> QED BY <3>1, AppendIsLast
  <2> QED BY <1>1, <1>2, <2>1 DEF Points, Buf
<1>5. /\ blockno' \in [Bufs -> Blocks \cup {NoBlock}] /\ valid' \in [Bufs -> BOOLEAN]
      /\ \A c \in Bufs : c # b => blockno'[c] = blockno[c] /\ valid'[c] = valid[c]
      /\ blockno'[b] = blk
      /\ \A c \in Bufs : valid'[c] => valid[c] /\ blockno'[c] = blockno[c]
      /\ \A c \in Bufs : c # b => blockno[c] # blk
  <2>1. \A c \in Bufs : c # b /\ blockno[b] = blk => blockno[c] # blk
    BY BlockIOAssumption DEF IInv, OneBufferPerBlock
  <2> QED BY <1>1, <1>2, <2>1
\* Who uses a buffer, or waits for it, keeps it as it is.
<1>6. \A q \in Procs : \A c \in ToSet(hold[q]) :
        c \in Bufs /\ blockno'[c] = blockno[c] /\ valid'[c] = valid[c]
  <2> SUFFICES ASSUME NEW q \in Procs, NEW c \in ToSet(hold[q])
               PROVE  c \in Bufs /\ blockno'[c] = blockno[c] /\ valid'[c] = valid[c]
    OBVIOUS
  <2>1. c \in Bufs
    BY HeldIsBuffer
  <2>2. refcnt[c] # 0
    BY <2>1, Unreferenced
  <2> QED BY <1>1, <1>2, <2>1, <2>2
<1>7. RefcntIsExact' /\ refcnt' \in [Bufs -> 0 .. Cardinality(Procs)]
  <2> DEFINE H(c) == WhoHolds(hold, c)
             G(c) == WhoHolds(hold', c)
  <2>1. /\ \A c \in Bufs : c # b => Cardinality(G(c)) = Cardinality(H(c))
        /\ Cardinality(G(b)) = Cardinality(H(b)) + 1
    <3>1. /\ \A c \in Bufs : c # b => (c \in ToSet(hold[p]) <=> c \in ToSet(hold'[p]))
          /\ b \notin ToSet(hold[p]) /\ b \in ToSet(hold'[p])
      BY <1>2, <1>4
    <3>2. \A q \in Procs : q # p => hold'[q] = hold[q]
      BY <1>4
    <3>3. \A c : LET m == Cardinality(WhoHolds(hold, c))
                     n == Cardinality(WhoHolds(hold', c))
                 IN  /\ (c \in ToSet(hold[p]) <=> c \in ToSet(hold'[p])) => n = m
                     /\ c \notin ToSet(hold[p]) /\ c \in ToSet(hold'[p]) => n = m + 1
                     /\ c \in ToSet(hold[p]) /\ c \notin ToSet(hold'[p]) => n = m - 1
      BY <3>2, HoldersChange, ZenonT(60)
    <3> HIDE DEF G, H
    <3>4. \A c \in Bufs : c # b => Cardinality(G(c)) = Cardinality(H(c))
      BY <3>1, <3>3 DEF G, H
    <3>5. Cardinality(G(b)) = Cardinality(H(b)) + 1
      BY <3>1, <3>3 DEF G, H
    <3> QED BY <3>4, <3>5
  <2>2. \A c \in Bufs : refcnt[c] = Cardinality(H(c))
    BY DEF IInv, RefcntIsExact, WhoHolds
  <2>3. \A c \in Bufs : Cardinality(G(c)) \in 0 .. Cardinality(Procs)
    BY HoldersCounted
  <2> HIDE DEF G, H
  <2>4. \A c \in Bufs : refcnt'[c] = Cardinality(G(c))
    <3>1. \A c \in Bufs : refcnt'[c] = IF c = b THEN refcnt[b] + 1 ELSE refcnt[c]
      BY <1>1, <1>2
    <3> QED BY <2>1, <2>2, <3>1
  <2>5. refcnt' \in [Bufs -> 0 .. Cardinality(Procs)]
    BY <1>1, <1>2, <2>3, <2>4
  <2> QED BY <2>4, <2>5 DEF G, WhoHolds, RefcntIsExact
<1>8. TypeOK'
  BY <1>2, <1>3, <1>4, <1>5, <1>7 DEF IInv, TypeOK, ideVars
<1>9. NoPanic'
  BY <1>3 DEF NoPanic
<1>10. OneBufferPerBlock'
  BY <1>5 DEF IInv, OneBufferPerBlock
<1>11. HeldOnce'
  BY <1>4, <1>5, <1>6, ZenonT(30) DEF IInv, HeldOnce
<1>12. OwnersHold'
  <2>1. \A q \in Procs : q # p => Locked(q)' = Locked(q)
    BY <1>4 DEF Locked
  <2>2. Locked(p)' = Locked(p)
    BY <1>1, <1>2, <1>4 DEF Locked, Outside
  <2> QED BY <1>3, <2>1, <2>2 DEF IInv, OwnersHold
<1>13. ReadBeforeUse'
  <2>1. \A c \in ToSet(hold'[p]) : valid'[c] \/ c = b
    BY <1>1, <1>4, <1>6 DEF IInv, ReadBeforeUse
  <2>2. \A q \in Procs : q # p => \A c \in ToSet(hold'[q]) : valid'[c] = valid[c]
    BY <1>4, <1>6
  <2> QED BY <1>4, <2>1, <2>2 DEF IInv, ReadBeforeUse
<1>14. QueueIsWaitedFor'
  <2>1. \A q \in Procs : /\ Waits(q)' <=> Waits(q)
                         /\ pc'[q] = "iderw" <=> pc[q] = "iderw"
                         /\ pc'[q] = "ioSleeps" <=> pc[q] = "ioSleeps"
                         /\ Waits(q) \/ pc[q] = "iderw" => Buf(q)' = Buf(q)
    BY <1>1, <1>4 DEF Waits
  <2>2. \A q \in Procs : Waits(q) \/ pc[q] = "iderw" => Synced(Buf(q))' = Synced(Buf(q))
    <3> SUFFICES ASSUME NEW q \in Procs, Waits(q) \/ pc[q] = "iderw"
                 PROVE  Synced(Buf(q))' = Synced(Buf(q))
      OBVIOUS
    <3>1. Buf(q) \in ToSet(hold[q])
      BY InHand DEF IInv, HeldOnce, Waits
    <3>2. valid'[Buf(q)] = valid[Buf(q)] /\ Buf(q)' = Buf(q)
      BY <1>6, <2>1, <3>1
    <3> QED BY <1>2, <3>2 DEF Synced
  <2>3. ToSet(idequeue)' = ToSet(idequeue) /\ \A q \in Procs : pc[q] = "ioSleeps" => Waits(q)
    BY <1>3 DEF ideVars, Waits
  <2>4. \A q \in Procs : Waits(q) => (Buf(q)' \in ToSet(idequeue)' <=> ~Synced(Buf(q))')
    BY <2>1, <2>2, <2>3 DEF IInv, QueueIsWaitedFor
  <2>5. \A q \in Procs : pc[q] = "iderw" => ~Synced(Buf(q))'
    BY <2>2 DEF IInv, QueueIsWaitedFor
  <2>6. \A q \in Procs : pc[q] = "ioSleeps" => Buf(q)' \in ToSet(idequeue)'
    BY <2>1, <2>3 DEF IInv, QueueIsWaitedFor
  <2>7. \A c \in ToSet(idequeue)' : \E q \in Procs : Waits(q)' /\ Buf(q)' = c
    BY <2>1, <2>3 DEF IInv, QueueIsWaitedFor
  <2> QED BY <2>1, <2>4, <2>5, <2>6, <2>7 DEF QueueIsWaitedFor
<1>15. OnlyReadIsWritten'
  <2>1. \A c \in Bufs : dirty[c] => valid'[c]
    BY <1>1, <1>2, <1>5 DEF IInv, OnlyReadIsWritten
  <2> QED BY <1>2, <1>5, <2>1 DEF IInv, OnlyReadIsWritten
<1>16. DriveKnowsHead'
  <2>1. \A c \in ToSet(idequeue) : blockno'[c] = blockno[c]
    <3> SUFFICES ASSUME NEW c \in ToSet(idequeue) PROVE blockno'[c] = blockno[c]
      OBVIOUS
    <3>1. PICK q \in Procs : Buf(q) = c /\ hold[q] # <<>>
      BY QueuedIsLocked
    <3> QED BY <1>6, <3>1, InHand
  <2> QED BY <1>2, <1>3, <2>1, SameDrive DEF ideVars
<1>17. DiskErrors \/ CleanIsDisk'
  BY <1>2, <1>3, <1>5 DEF IInv, CleanIsDisk, Synced, ideVars
<1> QED BY <1>7, <1>8, <1>9, <1>10, <1>11, <1>12, <1>13, <1>14, <1>15, <1>16, <1>17 DEF IInv

\* "bget: no buffers": the scan has seen that every buffer is in use.
LEMMA PanicKeeps ==
  ASSUME IInv, NEW p \in Procs, NEW blk \in Blocks, bgetPanics(p, blk)
  PROVE  IInv'
<1>1. /\ UNCHANGED <<bufVars, data, flags, owner, ideVars, driver, procVars>>
      /\ panicked' = "bget: no buffers" /\ panicked' \in Panics
  BY DEF bgetPanics, Panics
<1>2. NoPanic'
  <2>1. lru \in Seq(Bufs) /\ ToSet(lru) = Bufs
    BY DEF IInv, TypeOK
  <2>2. Bufs \cap {b \in Bufs : refcnt[b] = 0 /\ ~dirty[b]} = {}
    BY <2>1, ScanFinds, ReverseIsSame, ZenonT(60) DEF bgetPanics, Recyclable
  <2>3. \A b \in Bufs : refcnt[b] # 0 => \E q \in Procs : b \in ToSet(hold[q])
    BY HoldersCounted DEF IInv, RefcntIsExact, WhoHolds
  <2>4. \A b \in Bufs : dirty[b] \/ \E q \in Procs : b \in ToSet(hold[q])
    BY <2>2, <2>3
  <2> QED BY <1>1, <2>4 DEF NoPanic, flags, procVars
<1>3. TypeOK'
  BY <1>1 DEF IInv, TypeOK, bufVars, flags, ideVars, procVars
<1>4. OneBufferPerBlock' /\ RefcntIsExact' /\ HeldOnce'
  BY <1>1, SameBuffers DEF bufVars, procVars
<1>5. OwnersHold' /\ ReadBeforeUse' /\ QueueIsWaitedFor'
  BY <1>1, SameLocks, SameReads, SameQueue DEF flags, ideVars, procVars
<1>6. OnlyReadIsWritten' /\ DriveKnowsHead' /\ (DiskErrors \/ CleanIsDisk')
  BY <1>1, SameContents, SameDrive DEF bufVars, flags, ideVars
<1> QED BY <1>2, <1>3, <1>4, <1>5, <1>6 DEF IInv

-------------------------------------------------------------------------------
(* The invariant. *)

LEMMA InitHolds == Init => IInv
<1> SUFFICES ASSUME Init PROVE IInv
  OBVIOUS
<1>1. /\ \A p \in Procs : pc[p] = "run" /\ hold[p] = <<>> /\ ToSet(hold[p]) = {}
      /\ IsInjective(<<>>) /\ idequeue = <<>> /\ ToSet(idequeue) = {}
      /\ \A b \in Bufs : ~valid[b] /\ ~dirty[b] /\ refcnt[b] = 0 /\ owner[b] = Nobody
  BY DEF Init, ToSet, IsInjective
<1>2. TypeOK
  <2>1. /\ blockno \in [Bufs -> Blocks \cup {NoBlock}] /\ data \in [Bufs -> Contents]
        /\ disk \in [Blocks -> Contents]
        /\ valid \in [Bufs -> BOOLEAN] /\ dirty \in [Bufs -> BOOLEAN]
        /\ owner \in [Bufs -> Procs \cup {Nobody}] /\ driver \in Drivers
    BY BlockIOAssumption DEF Init, Contents
  <2>2. refcnt \in [Bufs -> 0 .. Cardinality(Procs)]
    BY FS_CardinalityType, BlockIOAssumption DEF Init
  <2>3. lru \in Seq(Bufs) /\ IsInjective(lru) /\ ToSet(lru) = Bufs
    BY InitialList DEF Init
  <2>4. /\ idequeue \in Seq(Bufs) /\ drive.state = "idle"
        /\ pc \in [Procs -> Points] /\ hold \in [Procs -> Seq(Bufs)] /\ panicked \in Panics
    BY DEF Init, Idle, Points, Panics
  <2> QED BY <1>1, <2>1, <2>2, <2>3, <2>4 DEF TypeOK
<1>3. RefcntIsExact
  <2>1. \A b \in Bufs : Cardinality(WhoHolds(hold, b)) = 0
    BY <1>1, HoldersCounted
  <2> QED BY <1>1, <2>1 DEF RefcntIsExact, WhoHolds
<1>4. NoPanic /\ OneBufferPerBlock
  BY DEF Init, NoPanic, OneBufferPerBlock
<1>5. OwnersHold /\ HeldOnce /\ ReadBeforeUse /\ OnlyReadIsWritten
  BY <1>1, BlockIOAssumption
  DEF OwnersHold, Locked, Outside, HeldOnce, ReadBeforeUse, OnlyReadIsWritten
<1>6. QueueIsWaitedFor /\ DriveKnowsHead /\ CleanIsDisk
  BY <1>1 DEF Init, QueueIsWaitedFor, Waits, DriveKnowsHead, CleanIsDisk, Synced
<1> QED BY <1>2, <1>3, <1>4, <1>5, <1>6 DEF IInv

LEMMA NextKeeps == IInv /\ [Next]_vars => IInv'
<1> SUFFICES ASSUME IInv, [Next]_vars PROVE IInv'
  OBVIOUS
<1>1. CASE UNCHANGED vars
  <2>1. UNCHANGED <<bufVars, data, flags, owner, ideVars, driver, procVars, panicked>>
    BY <1>1 DEF vars
  <2>2. TypeOK' /\ NoPanic'
    BY <2>1 DEF IInv, TypeOK, NoPanic, bufVars, flags, ideVars, procVars
  <2>3. OneBufferPerBlock' /\ RefcntIsExact' /\ HeldOnce'
    BY <2>1, SameBuffers DEF bufVars, procVars
  <2>4. OwnersHold' /\ ReadBeforeUse' /\ QueueIsWaitedFor'
    BY <2>1, SameLocks, SameReads, SameQueue DEF flags, ideVars, procVars
  <2>5. OnlyReadIsWritten' /\ DriveKnowsHead' /\ (DiskErrors \/ CleanIsDisk')
    BY <2>1, SameContents, SameDrive DEF bufVars, flags, ideVars
  <2> QED BY <2>2, <2>3, <2>4, <2>5 DEF IInv
<1>2. CASE Next
  <2>1. panicked = "none"
    BY <1>2 DEF Next
  <2>2. ASSUME NEW p \in Procs, Continues(p) PROVE IInv'
    BY <2>1, <2>2, AcquireKeeps, ReadKeeps, StartKeeps, CopyKeeps, AgainKeeps, DereferenceKeeps
    DEF Continues
  <2>3. ASSUME NEW p \in Procs, releasesleep(p) \/ kill(p) PROVE IInv'
    BY <2>3, ReleaseKeeps, KillKeeps
  <2>4. ASSUME NEW p \in Procs, NEW blk \in Blocks, bget(p, blk) PROVE IInv'
    BY <2>1, <2>4, RequestKeeps, PanicKeeps DEF bget
  <2>5. ASSUME NEW p \in Procs, NEW v \in Values, bwrite(p, v) \/ log_write(p, v) PROVE IInv'
    BY <2>5, WriteKeeps
  <2>6. ASSUME driveAnswers \/ ideintr PROVE IInv'
    BY <2>1, <2>6, AnswerKeeps, InterruptKeeps
  <2> QED BY <1>2, <2>2, <2>3, <2>4, <2>5, <2>6 DEF Next
<1> QED BY <1>1, <1>2

\* Who has a buffer, who waits for the disk and what the drive is doing always agree.
THEOREM IInvHolds == Spec => []IInv
BY InitHolds, NextKeeps, PTL DEF Spec

\* Sleep locks, cache and driver agree on who has which buffer and where its block is, as long as
\* the drive reports no error.
THEOREM CacheCorrect ==
  ASSUME DiskErrors = FALSE
  PROVE  Spec => []CacheIsConsistent
<1>1. IInv => CacheIsConsistent
  <2> SUFFICES ASSUME IInv PROVE CacheIsConsistent
    OBVIOUS
  <2>1. TypeOK /\ NoPanic /\ OneBufferPerBlock /\ RefcntIsExact /\ CleanIsDisk
    BY DEF IInv
  <2>2. DriveWorksOnHead
    <3>1. (drive = Idle) = (idequeue = <<>>)
      BY DEF IInv, DriveKnowsHead
    <3>2. idequeue # <<>> => drive.block = blockno[idequeue[1]]
      BY DEF IInv, DriveKnowsHead
    <3>3. \A q \in Procs : pc[q] = "ioSleeps" => Contains(idequeue, Buf(q))
      <4>1. idequeue \in Seq(Bufs)
        BY DEF IInv, TypeOK
      <4> QED BY <4>1 DEF IInv, QueueIsWaitedFor, ToSet, Contains
    <3> QED BY <3>1, <3>2, <3>3 DEF DriveWorksOnHead
  <2>3. RunsWithItsBuffers
    <3>1. \A q \in Procs : pc[q] = "run" => Locked(q) = ToSet(hold[q]) /\ ToSet(hold[q]) \subseteq Bufs
      BY HeldIsBuffer DEF Locked, Outside
    <3> QED BY <3>1 DEF IInv, OwnersHold, ReadBeforeUse, RunsWithItsBuffers
  <2> QED BY <2>1, <2>2, <2>3 DEF CacheIsConsistent
<1> QED BY <1>1, IInvHolds, PTL

-------------------------------------------------------------------------------
(* The refinement: Holder and View change as BlockStore says. *)

\* What Holder and View are: a block is as the one buffer that has it read, or as on the disk.
Seen ==
  /\ Holder \in [Blocks -> Procs \cup {Nobody}] /\ View \in [Blocks -> Contents]
  /\ \A blk \in Blocks :
       (\A b \in Bufs : blockno[b] = blk => ~valid[b]) => Holder[blk] = Nobody /\ View[blk] = disk[blk]
  /\ \A b \in Bufs :
       valid[b] => /\ blockno[b] \in Blocks
                   /\ Holder[blockno[b]] = owner[b] /\ View[blockno[b]] = data[b]

LEMMA IsSeen == IInv => Seen
<1> SUFFICES ASSUME IInv PROVE Seen
  OBVIOUS
<1>1. /\ owner \in [Bufs -> Procs \cup {Nobody}] /\ data \in [Bufs -> Contents]
      /\ disk \in [Blocks -> Contents]
  BY DEF IInv, TypeOK
<1>2. ASSUME NEW blk \in Blocks, \A b \in Bufs : blockno[b] = blk => ~valid[b]
      PROVE  Holder[blk] = Nobody /\ View[blk] = disk[blk]
  <2>1. In(blk) = {}
    BY <1>2 DEF In
  <2> QED BY <2>1 DEF Holder, View
<1>3. ASSUME NEW b \in Bufs, valid[b]
      PROVE  /\ blockno[b] \in Blocks
             /\ Holder[blockno[b]] = owner[b] /\ View[blockno[b]] = data[b]
  <2>1. blockno[b] \in Blocks
    BY <1>3 DEF IInv, OnlyReadIsWritten
  <2>2. \A c \in Bufs : blockno[c] = blockno[b] => c = b
    BY <2>1, BlockIOAssumption DEF IInv, OneBufferPerBlock
  <2>3. In(blockno[b]) = {b}
    BY <1>3, <2>2 DEF In
  <2>4. (CHOOSE c \in {b} : TRUE) = b /\ {b} # {}
    OBVIOUS
  <2> QED BY <2>1, <2>3, <2>4 DEF Holder, View
<1>4. ASSUME NEW blk \in Blocks PROVE Holder[blk] \in Procs \cup {Nobody} /\ View[blk] \in Contents
  <2>1. CASE \A b \in Bufs : blockno[b] = blk => ~valid[b]
    BY <1>1, <1>2, <2>1
  <2>2. CASE \E b \in Bufs : blockno[b] = blk /\ valid[b]
    BY <1>1, <1>3, <2>2
  <2> QED BY <2>1, <2>2
<1>5. Holder \in [Blocks -> Procs \cup {Nobody}] /\ View \in [Blocks -> Contents]
  <2>1. Holder = [blk \in Blocks |-> Holder[blk]] /\ View = [blk \in Blocks |-> View[blk]]
    BY DEF Holder, View
  <2> QED BY <1>4, <2>1
<1> QED BY <1>2, <1>3, <1>5 DEF Seen

\* Steps that change neither a lock nor what is in a buffer or on the disk.
LEMMA Stutters ==
  ASSUME UNCHANGED <<blockno, valid, data, owner, disk>>
  PROVE  UNCHANGED Store!vars
<1>1. Holder' = Holder /\ View' = View
  BY DEF Holder, View, In
<1> QED BY <1>1 DEF Store!vars

\* A sleep lock is taken or given up: seen by the others once the buffer is read.
LEMMA OwnerChanges ==
  ASSUME Seen, Seen', UNCHANGED <<blockno, valid, data, disk>>,
         NEW b \in Bufs, NEW x, owner' = [owner EXCEPT ![b] = x], owner \in [Bufs -> Procs \cup {Nobody}],
         OneBufferPerBlock
  PROVE  /\ View' = View
         /\ ~valid[b] => Holder' = Holder
         /\ valid[b] => Holder' = [Holder EXCEPT ![blockno[b]] = x]
<1>1. View' = View
  BY DEF View, In
<1>2. \A c \in Bufs : owner'[c] = IF c = b THEN x ELSE owner[c]
  OBVIOUS
<1>3. ASSUME NEW blk \in Blocks, ~(valid[b] /\ blockno[b] = blk) PROVE Holder'[blk] = Holder[blk]
  <2>1. CASE \A c \in Bufs : blockno[c] = blk => ~valid[c]
    BY <2>1 DEF Seen
  <2>2. CASE \E c \in Bufs : blockno[c] = blk /\ valid[c]
    <3>1. PICK c \in Bufs : blockno[c] = blk /\ valid[c]
      BY <2>2
    <3>2. c # b
      BY <1>3, <3>1
    <3> QED BY <1>2, <3>1, <3>2 DEF Seen
  <2> QED BY <2>1, <2>2
<1>4. valid[b] => blockno[b] \in Blocks /\ Holder'[blockno[b]] = x
  BY <1>2 DEF Seen
<1>5. /\ Holder \in [Blocks -> Procs \cup {Nobody}] /\ Holder' \in [Blocks -> Procs \cup {Nobody}]
  BY DEF Seen
<1> QED BY <1>1, <1>3, <1>4, <1>5

\* acquiresleep() locks the block if it is read already; else nobody sees it yet.
LEMMA AcquireStep ==
  ASSUME IInv, Seen, Seen', NEW p \in Procs, acquiresleep(p)
  PROVE  [Store!Next]_(Store!vars)
<1> DEFINE b == Buf(p)
<1>1. pc[p] = "lock" /\ hold[p] # <<>> /\ owner \in [Bufs -> Procs \cup {Nobody}]
  BY DEF acquiresleep, IInv, HeldOnce, TypeOK
<1>2. b \in Bufs /\ blockno[b] \in Blocks
  BY <1>1, InHand
<1>3. UNCHANGED <<blockno, valid, data, disk>>
  BY DEF acquiresleep, bufVars, flags, ideVars
<1>4. CASE ~MayLock(b)
  <2>1. owner' = owner
    BY <1>4 DEF acquiresleep
  <2> QED BY <1>3, <2>1, Stutters
<1>5. CASE MayLock(b)
  <2>1. owner' = [owner EXCEPT ![b] = p] /\ owner[b] = Nobody
    BY <1>5 DEF acquiresleep, MayLock
  <2> HIDE DEF b
  <2>2. /\ View' = View
        /\ ~valid[b] => Holder' = Holder
        /\ valid[b] => Holder' = [Holder EXCEPT ![blockno[b]] = p]
    BY <1>1, <1>2, <1>3, <2>1, OwnerChanges DEF IInv
  <2>3. CASE ~valid[b]
    BY <1>3, <2>2, <2>3 DEF Store!vars
  <2>4. CASE valid[b]
    <3>1. Store!Acquire(p, blockno[b])
      BY <1>2, <1>3, <2>1, <2>2, <2>4 DEF Store!Acquire, Seen
    <3> QED BY <1>2, <3>1 DEF Store!Next
  <2> QED BY <2>3, <2>4
<1> QED BY <1>4, <1>5

LEMMA ReleaseStep ==
  ASSUME IInv, Seen, Seen', NEW p \in Procs, releasesleep(p)
  PROVE  [Store!Next]_(Store!vars)
<1> DEFINE b == Buf(p)
<1>1. pc[p] = "run" /\ hold[p] # <<>> /\ owner \in [Bufs -> Procs \cup {Nobody}]
  BY DEF releasesleep, IInv, TypeOK
<1>2. b \in Bufs /\ blockno[b] \in Blocks /\ b \in ToSet(hold[p])
  BY <1>1, InHand
<1>3. UNCHANGED <<blockno, valid, data, disk>>
  BY DEF releasesleep, bufVars, flags, ideVars
<1>4. owner[b] = p /\ valid[b]
  BY <1>1, <1>2 DEF IInv, OwnersHold, Locked, Outside, ReadBeforeUse
<1>5. owner' = [owner EXCEPT ![b] = Nobody]
  BY <1>4 DEF releasesleep, holdingsleep
<1> HIDE DEF b
<1>6. View' = View /\ Holder' = [Holder EXCEPT ![blockno[b]] = Nobody]
  BY <1>1, <1>2, <1>3, <1>4, <1>5, OwnerChanges DEF IInv
<1>7. Store!Release(blockno[b])
  BY <1>2, <1>3, <1>4, <1>6, BlockIOAssumption DEF Store!Release, Seen
<1> QED BY <1>2, <1>7 DEF Store!Next

\* A buffer that is recycled was as its block on disk, and nobody had it.
LEMMA RequestStep ==
  ASSUME IInv, Seen, Seen', DiskErrors = FALSE, NEW p \in Procs, NEW blk \in Blocks, bget(p, blk)
  PROVE  [Store!Next]_(Store!vars)
<1>1. UNCHANGED <<data, owner, disk>>
  BY DEF bget, bgetCached, bgetRecycles, bgetPanics, ideVars
<1>2. CASE bgetCached(p, blk) \/ bgetPanics(p, blk)
  <2>1. UNCHANGED <<blockno, valid>>
    BY <1>2 DEF bgetCached, bgetPanics, bufVars, flags
  <2> QED BY <1>1, <2>1, Stutters
<1>3. CASE bgetRecycles(p, blk)
  <2>1. PICK b \in Recyclable : Recycle(b, blk)
    BY <1>3 DEF bgetRecycles
  <2>2. /\ lru \in Seq(Bufs) /\ ToSet(lru) = Bufs
        /\ blockno \in [Bufs -> Blocks \cup {NoBlock}] /\ valid \in [Bufs -> BOOLEAN]
    BY DEF IInv, TypeOK
  <2>3. b \in Bufs /\ refcnt[b] = 0 /\ ~dirty[b]
    BY <2>2, ScanFinds, ReverseIsSame DEF Recyclable
  <2>4. owner[b] = Nobody /\ (valid[b] => data[b] = disk[blockno[b]])
    BY <2>3, Unreferenced DEF IInv, CleanIsDisk, Synced
  <2>5. \A c \in Bufs : blockno[c] # blk
    <3>1. FirstIn(lru, {c \in Bufs : blockno[c] = blk}) = {}
      BY <1>3 DEF bgetRecycles, Uncached, Cached
    <3>2. Bufs \cap {c \in Bufs : blockno[c] = blk} = {}
      BY <2>2, <3>1, ScanFinds
    <3> QED BY <3>2
  <2>6. /\ \A c \in Bufs : c # b => blockno'[c] = blockno[c] /\ valid'[c] = valid[c]
        /\ blockno'[b] = blk /\ ~valid'[b]
    BY <2>1, <2>2, <2>3 DEF Recycle
  <2>7. ASSUME NEW k \in Blocks PROVE Holder'[k] = Holder[k] /\ View'[k] = View[k]
    <3>1. CASE \A c \in Bufs : blockno[c] = k => ~valid[c]
      <4>1. \A c \in Bufs : blockno'[c] = k => ~valid'[c]
        BY <2>6, <3>1
      <4> QED BY <1>1, <3>1, <4>1 DEF Seen
    <3>2. CASE blockno[b] = k /\ valid[b]
      <4>1. \A c \in Bufs : c # b => blockno[c] # k
        BY <2>3, <3>2, BlockIOAssumption DEF IInv, OneBufferPerBlock
      <4>2. \A c \in Bufs : blockno'[c] = k => ~valid'[c]
        BY <2>6, <4>1
      <4> QED BY <1>1, <2>3, <2>4, <3>2, <4>2 DEF Seen
    <3>3. CASE \E c \in Bufs : c # b /\ blockno[c] = k /\ valid[c]
      BY <1>1, <2>6, <3>3 DEF Seen
    <3> QED BY <3>1, <3>2, <3>3
  <2>8. Holder' = Holder /\ View' = View
    BY <2>7 DEF Seen
  <2> QED BY <1>1, <2>8 DEF Store!vars
<1> QED BY <1>2, <1>3 DEF bget

\* What a holder writes is what he sees, before it is on the disk.
LEMMA WriteStep ==
  ASSUME IInv, Seen, Seen', NEW p \in Procs, NEW v \in Values, bwrite(p, v) \/ log_write(p, v)
  PROVE  [Store!Next]_(Store!vars)
<1> DEFINE b == Buf(p)
<1>1. pc[p] = "run" /\ hold[p] # <<>> /\ data \in [Bufs -> Contents]
  BY DEF bwrite, log_write, IInv, TypeOK
<1>2. b \in Bufs /\ blockno[b] \in Blocks /\ b \in ToSet(hold[p])
  BY <1>1, InHand
<1>3. owner[b] = p /\ valid[b]
  BY <1>1, <1>2 DEF IInv, OwnersHold, Locked, Outside, ReadBeforeUse
<1>4. data' = [data EXCEPT ![b] = v] /\ UNCHANGED <<blockno, valid, owner, disk>>
  BY <1>3 DEF bwrite, log_write, holdingsleep, bufVars, ideVars
<1> HIDE DEF b
<1>5. Holder' = Holder
  BY <1>4 DEF Holder, In
<1>6. ASSUME NEW k \in Blocks, k # blockno[b] PROVE View'[k] = View[k]
  <2>1. CASE \A c \in Bufs : blockno[c] = k => ~valid[c]
    BY <1>4, <2>1 DEF Seen
  <2>2. CASE \E c \in Bufs : blockno[c] = k /\ valid[c]
    <3>1. PICK c \in Bufs : blockno[c] = k /\ valid[c]
      BY <2>2
    <3>2. data'[c] = data[c]
      BY <1>1, <1>4, <1>6, <3>1
    <3> QED BY <1>4, <3>1, <3>2 DEF Seen
  <2> QED BY <2>1, <2>2
<1>7. View'[blockno[b]] = v
  BY <1>1, <1>2, <1>3, <1>4 DEF Seen
<1>8. View' = [View EXCEPT ![blockno[b]] = v]
  BY <1>2, <1>6, <1>7 DEF Seen
<1>9. Store!Modify(blockno[b], v)
  BY <1>2, <1>3, <1>4, <1>5, <1>8, BlockIOAssumption DEF Store!Modify, Seen
<1> QED BY <1>2, <1>9 DEF Store!Next, Contents

\* A block reaches the disk as its holder sees it.
SyncedOnDisk(b) ==
  /\ disk' = [disk EXCEPT ![blockno[b]] = data[b]]
  /\ UNCHANGED <<blockno, valid, data, owner>>

LEMMA SyncStep ==
  ASSUME IInv, Seen, Seen', NEW b \in Bufs, valid[b], owner[b] # Nobody, SyncedOnDisk(b)
  PROVE  [Store!Next]_(Store!vars)
<1>1. /\ blockno[b] \in Blocks /\ Holder[blockno[b]] = owner[b] /\ View[blockno[b]] = data[b]
      /\ disk \in [Blocks -> Contents]
  BY DEF Seen, IInv, TypeOK
<1>2. UNCHANGED <<blockno, valid, data, owner>>
  BY DEF SyncedOnDisk
<1>3. Holder' = Holder
  BY <1>2 DEF Holder, In
<1>4. \A k \in Blocks : k # blockno[b] => disk'[k] = disk[k]
  BY <1>1 DEF SyncedOnDisk
<1>5. ASSUME NEW k \in Blocks PROVE View'[k] = View[k]
  <2>1. CASE \A c \in Bufs : blockno[c] = k => ~valid[c]
    <3>1. k # blockno[b]
      BY <2>1
    <3>2. View[k] = disk[k] /\ View'[k] = disk'[k]
      BY <1>2, <2>1 DEF Seen
    <3> QED BY <1>4, <3>1, <3>2
  <2>2. CASE \E c \in Bufs : blockno[c] = k /\ valid[c]
    BY <1>2, <2>2 DEF Seen
  <2> QED BY <2>1, <2>2
<1>6. View' = View
  BY <1>5 DEF Seen
<1>7. Store!Sync(blockno[b])
  BY <1>1, <1>3, <1>6 DEF Store!Sync, SyncedOnDisk
<1> QED BY <1>1, <1>7 DEF Store!Next

\* A block that somebody has locked is read into a buffer.
LEMMA ReadStep ==
  ASSUME IInv, Seen, Seen', NEW b \in Bufs, ~valid[b], blockno[b] \in Blocks,
         NEW p \in Procs, owner[b] = p,
         data' = [data EXCEPT ![b] = disk[blockno[b]]], valid' = [valid EXCEPT ![b] = TRUE],
         UNCHANGED <<blockno, owner, disk>>
  PROVE  [Store!Next]_(Store!vars)
<1>1. data \in [Bufs -> Contents] /\ valid \in [Bufs -> BOOLEAN]
  BY DEF IInv, TypeOK
<1>2. \A c \in Bufs : blockno[c] = blockno[b] => c = b
  BY BlockIOAssumption DEF IInv, OneBufferPerBlock
<1>3. /\ \A c \in Bufs : c # b => valid'[c] = valid[c] /\ data'[c] = data[c]
      /\ valid'[b] /\ data'[b] = disk[blockno[b]]
  BY <1>1
<1>4. Holder[blockno[b]] = Nobody /\ View[blockno[b]] = disk[blockno[b]]
  BY <1>2 DEF Seen
<1>5. Holder'[blockno[b]] = p /\ View'[blockno[b]] = disk[blockno[b]]
  BY <1>3 DEF Seen
<1>6. ASSUME NEW k \in Blocks, k # blockno[b] PROVE Holder'[k] = Holder[k] /\ View'[k] = View[k]
  <2>1. CASE \A c \in Bufs : blockno[c] = k => ~valid[c]
    <3>1. \A c \in Bufs : blockno'[c] = k => ~valid'[c]
      BY <1>3, <1>6, <2>1
    <3> QED BY <2>1, <3>1 DEF Seen
  <2>2. CASE \E c \in Bufs : blockno[c] = k /\ valid[c]
    <3>1. PICK c \in Bufs : blockno[c] = k /\ valid[c]
      BY <2>2
    <3>2. valid'[c] /\ data'[c] = data[c] /\ blockno'[c] = k
      BY <1>3, <1>6, <3>1
    <3> QED BY <3>1, <3>2 DEF Seen
  <2> QED BY <2>1, <2>2
<1>7. /\ Holder' = [Holder EXCEPT ![blockno[b]] = p] /\ View' = View
  BY <1>4, <1>5, <1>6 DEF Seen
<1>8. Store!Acquire(p, blockno[b])
  BY <1>4, <1>7 DEF Store!Acquire
<1> QED BY <1>8 DEF Store!Next

\* The drive carries out a write: the disk has what the holder sees.
LEMMA AnswerStep ==
  ASSUME IInv, Seen, Seen', driveAnswers
  PROVE  [Store!Next]_(Store!vars)
<1>1. UNCHANGED <<blockno, valid, data, owner>>
  BY DEF driveAnswers, bufVars, flags
<1>2. CASE drive.op # "write"
  BY <1>1, <1>2, Stutters DEF driveAnswers
<1>3. CASE drive.op = "write"
  <2> DEFINE b == idequeue[1]
  <2>1. idequeue # <<>> /\ drive.block = blockno[b] /\ drive.data = data[b] /\ dirty[b]
    BY <1>3 DEF driveAnswers, IInv, DriveKnowsHead, Idle
  <2>2. b \in Bufs /\ b \in ToSet(idequeue) /\ blockno[b] \in Blocks
    BY <2>1, HeadInHand
  <2>3. disk' = [disk EXCEPT ![blockno[b]] = data[b]] /\ disk \in [Blocks -> Contents]
    BY <1>3, <2>1 DEF driveAnswers, IInv, TypeOK
  <2> HIDE DEF b
  <2>4. valid[b] /\ owner[b] # Nobody
    <3>1. PICK q \in Procs : b \in Locked(q)
      BY <2>2, QueuedIsLocked
    <3> QED BY <2>1, <2>2, <3>1, BlockIOAssumption DEF IInv, OwnersHold, OnlyReadIsWritten
  <2>5. SyncedOnDisk(b)
    BY <1>1, <2>2, <2>3, <2>4 DEF SyncedOnDisk
  <2> QED BY <2>2, <2>4, <2>5, SyncStep
<1> QED BY <1>2, <1>3

\* The interrupt: a block that has been read is seen to be locked, and as it is on disk.
LEMMA InterruptStep ==
  ASSUME IInv, Seen, Seen', DiskErrors = FALSE, ideintr
  PROVE  [Store!Next]_(Store!vars)
<1> DEFINE b == idequeue[1]
<1>1. /\ drive \in Commands /\ idequeue # <<>> /\ drive.state = "done"
      /\ drive.op = "write" <=> dirty[b]
      /\ drive.op = "read" => drive.data = disk[blockno[b]]
      /\ drive.op # "error"
  BY DEF ideintr, IInv, DriveKnowsHead, Idle
<1>2. b \in Bufs /\ blockno[b] \in Blocks /\ b \in ToSet(idequeue)
  BY <1>1, HeadInHand
<1>3. /\ UNCHANGED <<blockno, owner, disk>>
      /\ data' = IF ~dirty[b] THEN [data EXCEPT ![b] = drive.data] ELSE data
      /\ valid' = [valid EXCEPT ![b] = TRUE]
      /\ data \in [Bufs -> Contents] /\ valid \in [Bufs -> BOOLEAN]
  BY <1>1 DEF ideintr, bufVars, IInv, TypeOK
<1>4. PICK q \in Procs : Waits(q) /\ Buf(q) = b /\ b \in Locked(q)
  BY <1>2, QueuedIsLocked
<1>5. owner[b] = q /\ (~dirty[b] => ~valid[b]) /\ (dirty[b] => valid[b])
  BY <1>2, <1>4 DEF IInv, OwnersHold, QueueIsWaitedFor, Synced, OnlyReadIsWritten
<1> HIDE DEF b
<1>6. CASE dirty[b]
  <2>1. valid' = valid /\ data' = data
    BY <1>2, <1>3, <1>5, <1>6
  <2> QED BY <1>3, <2>1, Stutters
<1>7. CASE ~dirty[b]
  <2>1. data' = [data EXCEPT ![b] = disk[blockno[b]]]
    BY <1>1, <1>3, <1>7 DEF Commands
  <2> QED BY <1>2, <1>3, <1>5, <1>7, <2>1, ReadStep
<1> QED BY <1>6, <1>7

\* memide.c does the same at once.
LEMMA CopyStep ==
  ASSUME IInv, Seen, Seen', NEW p \in Procs, iderwMem(p)
  PROVE  [Store!Next]_(Store!vars)
<1> DEFINE b == Buf(p)
<1>1. /\ pc[p] = "iderw" /\ hold[p] # <<>>
      /\ disk \in [Blocks -> Contents]
      /\ data \in [Bufs -> Contents] /\ valid \in [Bufs -> BOOLEAN]
  BY DEF iderwMem, IInv, HeldOnce, TypeOK
<1>2. b \in Bufs /\ blockno[b] \in Blocks /\ b \in ToSet(hold[p])
  BY <1>1, InHand
<1>3. owner[b] = p /\ ~Synced(b) /\ (dirty[b] => valid[b])
  BY <1>1, <1>2 DEF IInv, OwnersHold, Locked, Outside, QueueIsWaitedFor, OnlyReadIsWritten
<1>4. /\ disk' = IF dirty[b] THEN [disk EXCEPT ![blockno[b]] = data[b]] ELSE disk
      /\ data' = IF dirty[b] THEN data ELSE [data EXCEPT ![b] = disk[blockno[b]]]
      /\ valid' = [valid EXCEPT ![b] = TRUE]
      /\ UNCHANGED <<blockno, owner>>
  BY <1>3 DEF iderwMem, holdingsleep, bufVars
<1> HIDE DEF b
<1>5. CASE dirty[b]
  <2>1. valid' = valid /\ valid[b] /\ owner[b] # Nobody
    BY <1>1, <1>2, <1>3, <1>4, <1>5, BlockIOAssumption
  <2>2. SyncedOnDisk(b)
    BY <1>1, <1>4, <1>5, <2>1 DEF SyncedOnDisk
  <2> QED BY <1>2, <2>1, <2>2, SyncStep
<1>6. CASE ~dirty[b]
  BY <1>1, <1>2, <1>3, <1>4, <1>6, ReadStep DEF Synced
<1> QED BY <1>5, <1>6

LEMMA StepRefines ==
  ASSUME IInv, Seen, Seen', DiskErrors = FALSE, [Next]_vars
  PROVE  [Store!Next]_(Store!vars)
<1>1. CASE UNCHANGED vars
  BY <1>1, Stutters DEF vars, bufVars, flags, ideVars
<1>2. ASSUME NEW p \in Procs, Continues(p) PROVE [Store!Next]_(Store!vars)
  <2>1. CASE bread(p) \/ iderw(p) \/ iderwAgain(p) \/ brelse(p)
    <3>1. UNCHANGED <<blockno, valid, data, owner, disk>>
      BY <2>1 DEF bread, iderw, iderwAgain, brelse, bufVars, flags, ideVars
    <3> QED BY <3>1, Stutters
  <2> QED BY <1>2, <2>1, AcquireStep, CopyStep DEF Continues
<1>3. ASSUME NEW p \in Procs, kill(p) PROVE [Store!Next]_(Store!vars)
  BY <1>3, Stutters DEF kill, bufVars, flags, ideVars
<1>4. CASE Next
  BY <1>2, <1>3, <1>4, ReleaseStep, RequestStep, WriteStep, AnswerStep, InterruptStep DEF Next
<1> QED BY <1>1, <1>4

LEMMA InitRefines == IInv /\ Init => Store!Init
<1> SUFFICES ASSUME IInv, Init PROVE Store!Init
  OBVIOUS
<1>1. Seen
  BY IsSeen
<1>2. \A blk \in Blocks : Holder[blk] = Nobody /\ View[blk] = disk[blk]
  BY <1>1 DEF Init, Seen
<1>3. disk \in [Blocks -> Contents]
  BY DEF IInv, TypeOK
<1> QED BY <1>1, <1>2, <1>3 DEF Store!Init, Seen

\* Sleep locks, buffer cache and driver together are a store in which one process at a time holds
\* a block and finds in it what was last written, as long as the drive reports no error.
THEOREM StoreImplemented ==
  ASSUME DiskErrors = FALSE
  PROVE  Spec => RefinesBlockStore
<1>1. Init => Store!Init
  BY InitHolds, InitRefines
<1>2. IInv /\ Seen /\ Seen' /\ [Next]_vars => [Store!Next]_(Store!vars)
  BY StepRefines
<1> QED BY <1>1, <1>2, IInvHolds, IsSeen, PTL DEF Spec, RefinesBlockStore, Store!Spec
===============================================================================
