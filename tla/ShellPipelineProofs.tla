-------------------------- MODULE ShellPipelineProofs -------------------------
(***************************************************************************)
(* The pipeline of the shell, for every number of files and descriptors,   *)
(* every size of a pipe, of the input ring and of their counters, whatever *)
(* is typed and however often the children are killed: IInv is inductive,  *)
(* PipesAreConsistent and NobodySleepsInVain follow from it, and the       *)
(* console implements LineEditor.                                          *)
(***************************************************************************)
EXTENDS ShellPipeline, WellFoundedInduction, TLAPS, FiniteSetTheorems, SequenceTheorems

-------------------------------------------------------------------------------
(* Counters that wrap. *)

LEMMA ModOf ==
  ASSUME NEW n \in Nat \ {0}, NEW k \in Int, NEW i \in 0 .. n - 1
  PROVE  (n * k + i) % n = i
OBVIOUS

LEMMA Quotient ==
  ASSUME NEW n \in Int, n > 0, NEW a \in Int, NEW k \in Int, k = a \div n
  PROVE  a = (n * k) + (a % n)
BY Z3

LEMMA DivMod ==
  ASSUME NEW n \in Nat \ {0}, NEW a \in Int
  PROVE  a % n \in 0 .. n - 1 /\ \E k \in Int : a = (n * k) + (a % n)
<1>1. a % n \in 0 .. n - 1
  OBVIOUS
<1>2. n \in Int /\ n > 0
  OBVIOUS
<1>3. PICK k \in Int : k = a \div n
  OBVIOUS
<1>4. a = (n * k) + (a % n)
  BY <1>2, <1>3, Quotient, Zenon
<1> QED BY <1>1, <1>4, Zenon

LEMMA ModShift ==
  ASSUME NEW n \in Nat \ {0}, NEW a \in Int, NEW k \in Int
  PROVE  (a + n * k) % n = a % n
<1>1. PICK i \in 0 .. n - 1 : i = a % n
  BY DivMod
<1>2. PICK m \in Int : a = n * m + i
  <2>1. \E m \in Int : a = (n * m) + (a % n)
    BY DivMod, Zenon
  <2> QED BY <1>1, <2>1
<1>3. PICK h \in Int : h = m + k
  OBVIOUS
<1>4. n * h = n * m + n * k
  BY <1>3
<1>5. a + n * k = n * h + i
  BY <1>2, <1>4
<1>6. (n * h + i) % n = i
  BY ModOf
<1> QED BY <1>1, <1>5, <1>6

\* Two slots of a ring that are less than a round apart are different.
LEMMA ModDiffers ==
  ASSUME NEW n \in Nat \ {0}, NEW a \in Int, NEW d \in 1 .. n - 1
  PROVE  (a + d) % n # a % n
<1> SUFFICES ASSUME (a + d) % n = a % n PROVE FALSE
  OBVIOUS
<1>1. PICK i \in 0 .. n - 1 : i = a % n
  BY DivMod
<1>2. PICK m \in Int : a = n * m + i
  BY <1>1, DivMod
<1>3. PICK h \in Int : a + d = n * h + i
  <2>1. a + d \in Int
    OBVIOUS
  <2> QED BY <1>1, <2>1, DivMod
<1>4. PICK j \in Int : j = h - m
  OBVIOUS
<1>5. n * j = n * h - n * m
  BY <1>4
<1>6. n * j = d
  BY <1>2, <1>3, <1>5
<1>7. CASE j <= 0
  <2>1. n * j <= 0
    BY <1>7
  <2> QED BY <1>6, <2>1
<1>8. CASE j >= 1
  <2>1. PICK g \in Nat : j = g + 1
    BY <1>8
  <2>2. n * j = n * g + n /\ n * g >= 0
    BY <2>1
  <2> QED BY <1>6, <2>2
<1> QED BY <1>7, <1>8

LEMMA WholeRounds ==
  ASSUME NEW P \in Nat \ {0}, NEW W \in Nat, W % P = 0
  PROVE  \E m \in Int : W = P * m
<1>1. W \in Int
  OBVIOUS
<1>2. PICK m \in Int : W = (P * m) + (W % P)
  BY <1>1, DivMod, Zenon
<1>3. W = P * m
  <2>1. P * m \in Int
    OBVIOUS
  <2> QED BY <1>2, <2>1
<1> QED BY <1>3

\* The distance of two counters, and a counter that goes forward.
LEMMA DistanceIs ==
  ASSUME NEW W \in Nat \ {0}, NEW a \in 0 .. W - 1, NEW b \in 0 .. W - 1
  PROVE  (b - a + W) % W = IF a <= b THEN b - a ELSE b - a + W
<1>1. CASE a <= b
  <2>1. PICK d \in 0 .. W - 1 : d = b - a
    BY <1>1
  <2>2. (W * 1 + d) % W = d
    BY ModOf
  <2> QED BY <1>1, <2>1, <2>2
<1>2. CASE a > b
  <2>1. PICK d \in 0 .. W - 1 : d = b - a + W
    BY <1>2
  <2>2. (W * 0 + d) % W = d
    BY ModOf
  <2> QED BY <1>2, <2>1, <2>2
<1> QED BY <1>1, <1>2

LEMMA ForwardIs ==
  ASSUME NEW W \in Nat \ {0}, NEW a \in 0 .. W - 1, NEW k \in 0 .. W
  PROVE  (a + k) % W = IF a + k < W THEN a + k ELSE a + k - W
<1>1. CASE a + k < W
  <2>1. PICK d \in 0 .. W - 1 : d = a + k
    BY <1>1
  <2>2. (W * 0 + d) % W = d
    BY ModOf
  <2> QED BY <1>1, <2>1, <2>2
<1>2. CASE a + k >= W
  <2>1. PICK d \in 0 .. W - 1 : d = a + k - W
    BY <1>2
  <2>2. (W * 1 + d) % W = d
    BY ModOf
  <2> QED BY <1>2, <2>1, <2>2
<1> QED BY <1>1, <1>2


-------------------------------------------------------------------------------
(* Rings: what is in n slots of data from a on. *)

Slots(P, S)   == [0 .. P - 1 -> S]
Slot(P, a, i) == (a + i - 1) % P
Ring(data, P, a, n) == [i \in 1 .. n |-> data[Slot(P, a, i)]]

LEMMA SlotIs ==
  ASSUME NEW P \in Nat \ {0}, NEW a \in Int, NEW i \in Int
  PROVE  Slot(P, a, i) \in 0 .. P - 1
<1>1. PICK b \in Int : b = a + i - 1
  OBVIOUS
<1>2. b % P \in 0 .. P - 1
  BY DivMod
<1> QED BY <1>1, <1>2 DEF Slot

LEMMA SlotShifts ==
  ASSUME NEW P, NEW a \in Int, NEW k \in Int, NEW i \in Int
  PROVE  Slot(P, a + k, i) = Slot(P, a, k + i)
<1>1. a + k + i - 1 = a + (k + i) - 1
  OBVIOUS
<1> QED BY <1>1 DEF Slot

LEMMA RingIs ==
  ASSUME NEW P, NEW data, NEW a, NEW n \in Nat
  PROVE  /\ Len(Ring(data, P, a, n)) = n
         /\ \A i \in 1 .. n : Ring(data, P, a, n)[i] = data[Slot(P, a, i)]
BY DEF Ring

LEMMA RingInSeq ==
  ASSUME NEW S, NEW P \in Nat \ {0}, NEW data \in Slots(P, S), NEW a \in Int, NEW n \in Nat
  PROVE  Ring(data, P, a, n) \in Seq(S)
<1>1. \A i \in 1 .. n : Slot(P, a, i) \in 0 .. P - 1
  <2> TAKE i \in 1 .. n
  <2>1. i \in Int
    OBVIOUS
  <2> QED BY <2>1, SlotIs
<1>2. \A i \in 1 .. n : data[Slot(P, a, i)] \in S
  BY <1>1 DEF Slots
<1>3. Ring(data, P, a, n) \in [1 .. n -> S]
  BY <1>2 DEF Ring
<1> QED BY <1>3

Wheel(P, W) == P \in Nat \ {0} /\ W \in Nat /\ W > 0 /\ W % P = 0

\* The ring starts where its counter says, however often that has wrapped.
LEMMA SlotWraps ==
  ASSUME NEW P, NEW W, Wheel(P, W), NEW a \in Int, NEW b \in Int, b = a % W, NEW i \in Int
  PROVE  Slot(P, b, i) = Slot(P, a, i)
<1> USE DEF Wheel
<1>1. W \in Nat \ {0}
  OBVIOUS
<1>2. b = a % W
  OBVIOUS
<1>3. PICK k \in Int : a = (W * k) + (a % W)
  BY <1>1, DivMod, Zenon
<1>4. a = (W * k) + b
  BY <1>2, <1>3
<1>5. PICK c \in Int : c = b + i - 1
  OBVIOUS
<1>6. a + i - 1 = c + W * k
  BY <1>4, <1>5
<1>7. PICK m \in Int : W = P * m
  BY WholeRounds
<1>8. PICK h \in Int : h = m * k
  OBVIOUS
<1>9. W * k = P * h
  BY <1>7, <1>8
<1>10. (c + P * h) % P = c % P
  BY ModShift
<1> QED BY <1>2, <1>5, <1>6, <1>9, <1>10 DEF Slot

LEMMA RingWraps ==
  ASSUME NEW P, NEW W, Wheel(P, W), NEW a \in Int, NEW b \in Int, b = a % W, NEW data, NEW n \in Nat
  PROVE  Ring(data, P, b, n) = Ring(data, P, a, n)
<1>1. \A i \in 1 .. n : Slot(P, b, i) = Slot(P, a, i)
  <2> TAKE i \in 1 .. n
  <2>1. i \in Int
    OBVIOUS
  <2> QED BY <2>1, SlotWraps
<1> QED BY <1>1 DEF Ring

Offset(P, W, b, x) == (x - b + W) % P

LEMMA OffsetIs ==
  ASSUME NEW P, NEW W, Wheel(P, W), NEW b \in Int, NEW x \in Int
  PROVE  Offset(P, W, b, x) \in 0 .. P - 1
<1>1. PICK c \in Int : c = x - b + W
  BY DEF Wheel
<1>2. c % P \in 0 .. P - 1
  BY DivMod DEF Wheel
<1> QED BY <1>1, <1>2 DEF Offset

\* The i-th slot from b on, and back: which one slot x is.
LEMMA OffsetOf ==
  ASSUME NEW P, NEW W, Wheel(P, W), NEW b \in Int, NEW i \in 1 .. P
  PROVE  Offset(P, W, b, Slot(P, b, i)) = i - 1
<1> USE DEF Wheel, Offset
<1>1. PICK c \in Int : c = b + i - 1
  OBVIOUS
<1>2. PICK x \in 0 .. P - 1 : x = c % P
  BY DivMod
<1>3. PICK q \in Int : c = (P * q) + x
  <2>1. \E q \in Int : c = (P * q) + (c % P)
    BY DivMod, Zenon
  <2> QED BY <1>2, <2>1
<1>4. PICK m \in Int : W = P * m
  BY WholeRounds
<1>5. PICK h \in Int : h = m - q
  OBVIOUS
<1>6. P * h = P * m - P * q
  BY <1>5
<1>7. PICK d \in 0 .. P - 1 : d = i - 1
  OBVIOUS
<1>8. x - b + W = P * h + d
  BY <1>1, <1>3, <1>4, <1>6, <1>7
<1>9. (P * h + d) % P = d
  BY ModOf
<1>10. Slot(P, b, i) = x
  BY <1>1, <1>2 DEF Slot
<1> QED BY <1>7, <1>8, <1>9, <1>10

LEMMA SlotOf ==
  ASSUME NEW P, NEW W, Wheel(P, W), NEW b \in Int, NEW x \in 0 .. P - 1,
         NEW u \in Int, u = Offset(P, W, b, x), NEW v \in Int, v = u + 1
  PROVE  Slot(P, b, v) = x
<1> USE DEF Wheel, Offset
<1>1. PICK c \in Int : c = x - b + W
  OBVIOUS
<1>2. PICK q \in Int : c = (P * q) + u
  <2>1. \E q \in Int : c = (P * q) + (c % P)
    BY DivMod, Zenon
  <2> QED BY <1>1, <2>1
<1>3. PICK m \in Int : W = P * m
  BY WholeRounds
<1>4. PICK h \in Int : h = m - q
  OBVIOUS
<1>5. P * h = P * m - P * q
  BY <1>4
<1>6. b + v - 1 = P * h + x
  BY <1>1, <1>2, <1>3, <1>5
<1>7. (P * h + x) % P = x
  BY ModOf
<1> QED BY <1>6, <1>7 DEF Slot

IsSum(l, n, m) == l = n + m
IsMod(b, c, W) == b = c % W

LEMMA RingSplits ==
  ASSUME NEW S, NEW P \in Nat \ {0}, NEW data \in Slots(P, S), NEW a \in Int,
         NEW n \in Nat, NEW m \in Nat, NEW b \in Int, IsSum(b, a, n), NEW l \in Nat, IsSum(l, n, m)
  PROVE  Ring(data, P, a, l) = Ring(data, P, a, n) \o Ring(data, P, b, m)
<1> USE DEF IsSum
<1>1. PICK s \in Seq(S) : s = Ring(data, P, a, n)
  BY RingInSeq
<1>2. PICK t \in Seq(S) : t = Ring(data, P, b, m)
  BY RingInSeq
<1>3. PICK u \in Seq(S) : u = Ring(data, P, a, l)
  BY RingInSeq
<1>4. Len(s) = n /\ \A i \in 1 .. n : s[i] = data[Slot(P, a, i)]
  BY <1>1, RingIs
<1>5. Len(t) = m /\ \A i \in 1 .. m : t[i] = data[Slot(P, b, i)]
  BY <1>2, RingIs
<1>6. Len(u) = n + m /\ \A i \in 1 .. n + m : u[i] = data[Slot(P, a, i)]
  BY <1>3, RingIs
<1>7. PICK z \in Seq(S) : z = s \o t
  <2>1. s \o t \in Seq(S)
    OBVIOUS
  <2> QED BY <2>1
<1>8. Len(z) = n + m /\ \A i \in 1 .. n + m : z[i] = IF i <= n THEN s[i] ELSE t[i - n]
  <2>1. /\ Len(s \o t) = Len(s) + Len(t)
        /\ \A i \in 1 .. Len(s) + Len(t) :
             (s \o t)[i] = IF i <= Len(s) THEN s[i] ELSE t[i - Len(s)]
    BY ConcatProperties
  <2> QED BY ONLY <2>1, <1>4, <1>5, <1>7
<1>9. \A i \in 1 .. n + m : z[i] = u[i]
  <2> TAKE i \in 1 .. n + m
  <2>1. CASE i <= n
    BY <1>4, <1>6, <1>8, <2>1
  <2>2. CASE i > n
    <3>1. PICK j \in 1 .. m : j = i - n
      BY <2>2
    <3>2. j \in Int /\ n \in Int
      OBVIOUS
    <3>3. Slot(P, b, j) = Slot(P, a, n + j)
      <4>1. Slot(P, a + n, j) = Slot(P, a, n + j)
        BY <3>2, SlotShifts, ZenonT(60)
      <4> QED BY <4>1
    <3>4. n + j = i /\ ~(i <= n)
      BY <2>2, <3>1
    <3>5. z[i] = t[j]
      BY <1>8, <3>1, <3>4
    <3> QED BY <1>5, <1>6, <3>3, <3>4, <3>5
  <2> QED BY <2>1, <2>2
<1>10. z = u
  BY <1>6, <1>8, <1>9, SeqEqual
<1> QED BY <1>1, <1>2, <1>3, <1>7, <1>10

LEMMA SubSeqIs ==
  ASSUME NEW S, NEW s \in Seq(S), NEW j \in 1 .. Len(s) + 1, NEW k \in 0 .. Len(s), j <= k + 1
  PROVE  /\ SubSeq(s, j, k) \in Seq(S) /\ Len(SubSeq(s, j, k)) = k - j + 1
         /\ \A i \in 1 .. k - j + 1 : SubSeq(s, j, k)[i] = s[j + i - 1]
<1>1. \A i \in j .. k : s[i] \in S
  BY ElementOfSeq
<1>2. j \in Int /\ k \in Int
  OBVIOUS
<1>3. /\ SubSeq(s, j, k) \in Seq(S)
      /\ Len(SubSeq(s, j, k)) = IF j <= k THEN k - j + 1 ELSE 0
      /\ \A i \in 1 .. k - j + 1 : SubSeq(s, j, k)[i] = s[j + i - 1]
  BY <1>1, <1>2, SubSeqProperties
<1> QED BY <1>3

\* The first k slots, and the others.
LEMMA RingCut ==
  ASSUME NEW S, NEW P \in Nat \ {0}, NEW data \in Slots(P, S), NEW a \in Int,
         NEW n \in Nat, NEW k \in 0 .. n
  PROVE  /\ SubSeq(Ring(data, P, a, n), 1, k) = Ring(data, P, a, k)
         /\ SubSeq(Ring(data, P, a, n), k + 1, n) = Ring(data, P, a + k, n - k)
<1>1. PICK s \in Seq(S) : s = Ring(data, P, a, n)
  BY RingInSeq
<1>2. Len(s) = n /\ \A i \in 1 .. n : s[i] = data[Slot(P, a, i)]
  BY <1>1, RingIs
<1>3. SubSeq(s, 1, k) = Ring(data, P, a, k)
  <2>1. PICK t \in Seq(S) : t = Ring(data, P, a, k)
    <3>1. k \in Nat
      OBVIOUS
    <3> QED BY <3>1, RingInSeq
  <2>2. Len(t) = k /\ \A i \in 1 .. k : t[i] = data[Slot(P, a, i)]
    BY <2>1, RingIs
  <2>3. PICK z \in Seq(S) : z = SubSeq(s, 1, k)
    <3>1. SubSeq(s, 1, k) \in Seq(S)
      BY <1>2, SubSeqIs
    <3> QED BY <3>1
  <2>4. Len(z) = k /\ \A i \in 1 .. k : z[i] = s[i]
    <3>1. /\ Len(SubSeq(s, 1, k)) = k - 1 + 1
          /\ \A i \in 1 .. k - 1 + 1 : SubSeq(s, 1, k)[i] = s[1 + i - 1]
      BY <1>2, SubSeqIs
    <3> QED BY <2>3, <3>1
  <2>5. z = t
    BY <1>2, <2>2, <2>4, SeqEqual
  <2> QED BY <2>1, <2>3, <2>5
<1>4. SubSeq(s, k + 1, n) = Ring(data, P, a + k, n - k)
  <2>1. PICK b \in Int, c \in Nat : b = a + k /\ c = n - k
    <3>1. a + k \in Int /\ n - k \in Nat
      OBVIOUS
    <3> QED BY <3>1
  <2>2. PICK t \in Seq(S) : t = Ring(data, P, b, c)
    BY RingInSeq
  <2>3. Len(t) = c /\ \A i \in 1 .. c : t[i] = data[Slot(P, b, i)]
    BY <2>2, RingIs
  <2>4. PICK j \in 1 .. n + 1 : j = k + 1
    OBVIOUS
  <2>5. /\ SubSeq(s, j, n) \in Seq(S)
        /\ Len(SubSeq(s, j, n)) = n - j + 1
        /\ \A i \in 1 .. n - j + 1 : SubSeq(s, j, n)[i] = s[j + i - 1]
    BY <1>2, <2>4, SubSeqIs
  <2>6. PICK z \in Seq(S) : z = SubSeq(s, j, n)
    BY <2>5
  <2>7. Len(z) = c /\ \A i \in 1 .. c : z[i] = s[k + i]
    BY <2>1, <2>4, <2>5, <2>6
  <2>8. \A i \in 1 .. c : z[i] = t[i]
    <3> TAKE i \in 1 .. c
    <3>1. PICK h \in 1 .. n : h = k + i
      BY <2>1
    <3>2. k \in Int /\ i \in Int
      OBVIOUS
    <3>3. Slot(P, a + k, i) = Slot(P, a, k + i)
      BY <3>2, SlotShifts, ZenonT(30)
    <3> QED BY <1>2, <2>1, <2>3, <2>7, <3>1, <3>3
  <2>9. z = t
    BY <2>3, <2>7, <2>8, SeqEqual
  <2> QED BY <2>1, <2>2, <2>4, <2>6, <2>9
<1> QED BY <1>1, <1>3, <1>4

\* A ring of n is filled with the first k of s.
Fill(P, W, data, b, s, k) ==
  [j \in 0 .. P - 1 |-> IF Offset(P, W, b, j) + 1 <= k THEN s[Offset(P, W, b, j) + 1] ELSE data[j]]

LEMMA FillIs ==
  ASSUME NEW P, NEW W, Wheel(P, W), NEW data, NEW b \in Int, NEW s, NEW k \in Nat,
         NEW j \in 0 .. P - 1, NEW u \in Int, u = Offset(P, W, b, j), NEW v \in Int, v = u + 1
  PROVE  Fill(P, W, data, b, s, k)[j] = IF v <= k THEN s[v] ELSE data[j]
BY DEF Fill

LEMMA FillInSlots ==
  ASSUME NEW S, NEW P, NEW W, Wheel(P, W), NEW data \in Slots(P, S), NEW b \in Int,
         NEW s \in Seq(S), NEW k \in 0 .. Len(s)
  PROVE  Fill(P, W, data, b, s, k) \in Slots(P, S)
<1>1. \A i \in 1 .. k : s[i] \in S
  BY ElementOfSeq
<1>2. ASSUME NEW j \in 0 .. P - 1
      PROVE  (IF Offset(P, W, b, j) + 1 <= k THEN s[Offset(P, W, b, j) + 1] ELSE data[j]) \in S
  <2>1. PICK u \in 0 .. P - 1 : u = Offset(P, W, b, j)
    <3>1. j \in Int
      BY DEF Wheel
    <3>2. Offset(P, W, b, j) \in 0 .. P - 1
      BY ONLY <3>1, OffsetIs, Wheel(P, W), b \in Int
    <3> QED BY ONLY <3>2
  <2>2. data[j] \in S
    BY DEF Slots
  <2>3. CASE u + 1 <= k
    <3>1. u + 1 \in 1 .. k
      BY <2>3
    <3> QED BY <1>1, <2>1, <3>1
  <2>4. CASE ~(u + 1 <= k)
    BY <2>1, <2>2, <2>4
  <2> QED BY <2>3, <2>4
<1> DEFINE F(j) == IF Offset(P, W, b, j) + 1 <= k THEN s[Offset(P, W, b, j) + 1] ELSE data[j]
<1>3. \A j \in 0 .. P - 1 : F(j) \in S
  BY <1>2
<1>4. Fill(P, W, data, b, s, k) = [j \in 0 .. P - 1 |-> F(j)]
  BY DEF Fill
<1> HIDE DEF F
<1>5. [j \in 0 .. P - 1 |-> F(j)] \in [0 .. P - 1 -> S]
  BY <1>3
<1> QED BY <1>4, <1>5 DEF Slots

\* What was in the ring stays there, the new bytes come behind it.
LEMMA FillKeeps ==
  ASSUME NEW P, NEW W, Wheel(P, W), NEW data, NEW a \in Int, NEW n \in Nat,
         NEW c \in Int, c = a + n, NEW b \in Int, b = c % W,
         NEW s, NEW k \in Nat, n + k <= P
  PROVE  Ring(Fill(P, W, data, b, s, k), P, a, n) = Ring(data, P, a, n)
<1> SUFFICES ASSUME NEW i \in 1 .. n
             PROVE  Fill(P, W, data, b, s, k)[Slot(P, a, i)] = data[Slot(P, a, i)]
  BY DEF Ring
<1>1. i \in Int /\ P \in Nat \ {0}
  BY DEF Wheel
<1>2. PICK x \in 0 .. P - 1 : x = Slot(P, a, i)
  BY <1>1, SlotIs
<1>3. PICK u \in 0 .. P - 1 : u = Offset(P, W, b, x)
  <2>1. x \in Int
    OBVIOUS
  <2>2. Offset(P, W, b, x) \in 0 .. P - 1
    BY <2>1, OffsetIs
  <2> QED BY <2>2
<1>4. PICK v \in Int : v = u + 1
  OBVIOUS
<1>5. u \in Int
  OBVIOUS
<1>6. ASSUME v <= k PROVE FALSE
  <2>1. Slot(P, b, v) = x
    BY <1>3, <1>4, <1>5, SlotOf
  <2>2. Slot(P, b, v) = Slot(P, c, v)
    BY SlotWraps
  <2>3. PICK g \in Int : g = a + i - 1
    BY <1>1
  <2>4. PICK d \in 1 .. P - 1 : d = n + u + 1 - i
    BY <1>1, <1>4, <1>6
  <2>5. (g + d) % P # g % P
    BY <1>1, ModDiffers
  <2>6. g + d = c + v - 1
    BY <1>1, <1>4, <2>3, <2>4
  <2>7. Slot(P, c, v) = (g + d) % P
    BY <2>6 DEF Slot
  <2>8. x = g % P
    BY <1>2, <2>3 DEF Slot
  <2> QED BY <2>1, <2>2, <2>5, <2>7, <2>8
<1>7. Fill(P, W, data, b, s, k)[x] = IF v <= k THEN s[v] ELSE data[x]
  BY <1>3, <1>4, <1>5, FillIs
<1> QED BY <1>2, <1>6, <1>7

LEMMA FillBrings ==
  ASSUME NEW P, NEW W, Wheel(P, W), NEW data, NEW b \in Int, NEW s, NEW k \in Nat, k <= P,
         NEW i \in 1 .. k
  PROVE  Fill(P, W, data, b, s, k)[Slot(P, b, i)] = s[i]
<1>1. i \in Int /\ i \in 1 .. P /\ P \in Nat \ {0}
  BY DEF Wheel
<1>2. PICK x \in 0 .. P - 1 : x = Slot(P, b, i)
  BY <1>1, SlotIs
<1>3. Offset(P, W, b, Slot(P, b, i)) = i - 1
  BY <1>1, OffsetOf
<1>4. PICK u \in Int : u = i - 1
  BY <1>1
<1>5. u = Offset(P, W, b, x) /\ i = u + 1
  BY <1>1, <1>2, <1>3, <1>4
<1>6. Fill(P, W, data, b, s, k)[x] = IF i <= k THEN s[i] ELSE data[x]
  BY <1>1, <1>5, FillIs
<1> QED BY <1>2, <1>6

LEMMA RingFilled ==
  ASSUME NEW S, NEW P, NEW W, Wheel(P, W), NEW data \in Slots(P, S), NEW a \in Int, NEW n \in Nat,
         NEW c \in Int, IsSum(c, a, n), NEW b \in Int, IsMod(b, c, W),
         NEW s \in Seq(S), NEW k \in 0 .. Len(s), NEW l \in Nat, IsSum(l, n, k), l <= P
  PROVE  Ring(Fill(P, W, data, b, s, k), P, a, l) = Ring(data, P, a, n) \o SubSeq(s, 1, k)
<1>0. c = a + n /\ b = c % W /\ l = n + k
  BY DEF IsSum, IsMod
<1>1. PICK new \in Slots(P, S) : new = Fill(P, W, data, b, s, k)
  <2>1. Fill(P, W, data, b, s, k) \in Slots(P, S)
    BY FillInSlots
  <2> QED BY <2>1
<1>2. k \in Nat /\ k <= P /\ n + k <= P /\ P \in Nat \ {0}
  BY <1>0 DEF Wheel
<1>3. Ring(new, P, a, n) = Ring(data, P, a, n)
  BY <1>0, <1>1, <1>2, FillKeeps
<1>4. Ring(new, P, b, k) = SubSeq(s, 1, k)
  <2>1. PICK t \in Seq(S) : t = Ring(new, P, b, k)
    BY <1>2, RingInSeq
  <2>2. Len(t) = k /\ \A i \in 1 .. k : t[i] = new[Slot(P, b, i)]
    BY <1>2, <2>1, RingIs
  <2>3. /\ SubSeq(s, 1, k) \in Seq(S) /\ Len(SubSeq(s, 1, k)) = k - 1 + 1
        /\ \A i \in 1 .. k - 1 + 1 : SubSeq(s, 1, k)[i] = s[1 + i - 1]
    BY SubSeqIs
  <2>4. PICK z \in Seq(S) : z = SubSeq(s, 1, k)
    BY <2>3
  <2>5. Len(z) = k /\ \A i \in 1 .. k : z[i] = s[i]
    BY <2>3, <2>4
  <2>6. \A i \in 1 .. k : new[Slot(P, b, i)] = s[i]
    BY <1>1, <1>2, FillBrings, SMTT(30)
  <2>7. t = z
    BY <2>2, <2>5, <2>6, SeqEqual
  <2> QED BY <2>1, <2>4, <2>7
<1>5. Ring(new, P, b, k) = Ring(new, P, c, k)
  BY <1>0, <1>2, RingWraps
<1>6. Ring(new, P, a, l) = Ring(new, P, a, n) \o Ring(new, P, c, k)
  <2>1. IsSum(c, a, n) /\ IsSum(l, n, k)
    BY DEF IsSum
  <2> QED BY <1>2, <2>1, RingSplits, SMTT(30)
<1> QED BY <1>1, <1>3, <1>4, <1>5, <1>6

-------------------------------------------------------------------------------
(* How far a counter is ahead of another. *)

Dist(W, a, b) == (b - a + W) % W

LEMMA DistIs ==
  ASSUME NEW W \in Nat \ {0}, NEW a \in 0 .. W - 1, NEW b \in 0 .. W - 1
  PROVE  /\ Dist(W, a, b) = IF a <= b THEN b - a ELSE b - a + W
         /\ Dist(W, a, b) \in 0 .. W - 1
BY DistanceIs DEF Dist

LEMMA DistAhead ==
  ASSUME NEW W \in Nat \ {0}, NEW a \in 0 .. W - 1, NEW b \in 0 .. W - 1,
         NEW c \in Int, c = a + Dist(W, a, b)
  PROVE  b = c % W
<1>1. PICK d \in 0 .. W - 1 : d = Dist(W, a, b)
  BY DistIs
<1>2. d = IF a <= b THEN b - a ELSE b - a + W
  BY <1>1, DistIs
<1>3. (a + d) % W = IF a + d < W THEN a + d ELSE a + d - W
  BY ForwardIs
<1> QED BY <1>1, <1>2, <1>3

\* The counter behind or the counter ahead goes on.
LEMMA DistGrows ==
  ASSUME NEW W \in Nat \ {0}, NEW a \in 0 .. W - 1, NEW b \in 0 .. W - 1, NEW k \in Nat,
         Dist(W, a, b) + k < W, NEW c, c = (b + k) % W
  PROVE  c \in 0 .. W - 1 /\ Dist(W, a, c) = Dist(W, a, b) + k
<1>1. PICK d \in 0 .. W - 1 : d = Dist(W, a, b)
  BY DistIs
<1>2. d = IF a <= b THEN b - a ELSE b - a + W
  BY <1>1, DistIs
<1>3. k \in 0 .. W
  BY <1>1
<1>4. c = IF b + k < W THEN b + k ELSE b + k - W
  BY <1>3, ForwardIs
<1>5. c \in 0 .. W - 1
  BY <1>3, <1>4
<1>6. Dist(W, a, c) = IF a <= c THEN c - a ELSE c - a + W
  BY <1>5, DistIs
<1> QED BY <1>1, <1>2, <1>3, <1>4, <1>5, <1>6

LEMMA DistShrinks ==
  ASSUME NEW W \in Nat \ {0}, NEW a \in 0 .. W - 1, NEW b \in 0 .. W - 1, NEW k \in Nat,
         k <= Dist(W, a, b), NEW c, c = (a + k) % W
  PROVE  c \in 0 .. W - 1 /\ Dist(W, c, b) = Dist(W, a, b) - k
<1>1. PICK d \in 0 .. W - 1 : d = Dist(W, a, b)
  BY DistIs
<1>2. d = IF a <= b THEN b - a ELSE b - a + W
  BY <1>1, DistIs
<1>3. k \in 0 .. W
  BY <1>1
<1>4. c = IF a + k < W THEN a + k ELSE a + k - W
  BY <1>3, ForwardIs
<1>5. c \in 0 .. W - 1
  BY <1>3, <1>4
<1>6. Dist(W, c, b) = IF c <= b THEN b - c ELSE b - c + W
  BY <1>5, DistIs
<1>7. k <= d
  BY <1>1
<1>8. PICK m \in Int : m = Dist(W, c, b)
  BY <1>5, <1>6
<1>9. m = d - k
  <2>1. CASE a + k < W
    BY ONLY <1>1, <1>2, <1>4, <1>5, <1>6, <1>7, <1>8, <2>1, k \in Nat, W \in Nat,
            a \in 0 .. W - 1, b \in 0 .. W - 1
  <2>2. CASE a + k >= W
    BY ONLY <1>1, <1>2, <1>4, <1>5, <1>6, <1>7, <1>8, <2>2, k \in Nat, W \in Nat,
            a \in 0 .. W - 1, b \in 0 .. W - 1
  <2>3. a + k < W \/ a + k >= W
    BY <1>1
  <2> QED BY <2>1, <2>2, <2>3, Zenon
<1> QED BY <1>1, <1>5, <1>8, <1>9, Zenon

LEMMA DistZero ==
  ASSUME NEW W \in Nat \ {0}, NEW a \in 0 .. W - 1, NEW b \in 0 .. W - 1
  PROVE  Dist(W, a, b) = 0 <=> a = b
<1>1. PICK d \in 0 .. W - 1 : d = Dist(W, a, b)
  BY DistIs
<1>2. d = IF a <= b THEN b - a ELSE b - a + W
  BY <1>1, DistIs
<1> QED BY <1>1, <1>2

-------------------------------------------------------------------------------
(* Sets that differ in one element. *)

LEMMA CardMoves ==
  ASSUME NEW T, IsFiniteSet(T), NEW x, NEW A \in SUBSET T, NEW B \in SUBSET T,
         \A y \in T : y # x => (y \in A <=> y \in B)
  PROVE  /\ Cardinality(A) \in Nat /\ Cardinality(B) \in Nat
         /\ Cardinality(B) = Cardinality(A) - (IF x \in A THEN 1 ELSE 0) + (IF x \in B THEN 1 ELSE 0)
<1>1. IsFiniteSet(A) /\ IsFiniteSet(B)
  BY FS_Subset
<1>2. Cardinality(A) \in Nat /\ Cardinality(B) \in Nat
  BY <1>1, FS_CardinalityType
<1>3. CASE x \in A /\ x \notin B
  <2>1. B = A \ {x}
    BY <1>3
  <2>2. Cardinality(A \ {x}) = IF x \in A THEN Cardinality(A) - 1 ELSE Cardinality(A)
    BY <1>1, FS_RemoveElement
  <2> QED BY <1>2, <1>3, <2>1, <2>2
<1>4. CASE x \notin A /\ x \in B
  <2>1. A = B \ {x}
    BY <1>4
  <2>2. Cardinality(B \ {x}) = IF x \in B THEN Cardinality(B) - 1 ELSE Cardinality(B)
    BY <1>1, FS_RemoveElement
  <2> QED BY <1>2, <1>4, <2>1, <2>2
<1>5. CASE x \in A <=> x \in B
  <2>1. A = B
    BY <1>5
  <2> QED BY <1>2, <2>1
<1> QED BY <1>3, <1>4, <1>5

LEMMA FirstIsMember ==
  ASSUME NEW S \in SUBSET Nat, S # {}
  PROVE  Min(S) \in S /\ \A n \in S : Min(S) <= n
<1> DEFINE R == OpToRel(<, Nat)
<1>1. IsWellFoundedOn(R, Nat)
  BY NatLessThanWellFounded, Zenon
<1>2. \A x, y \in Nat : y < x => <<y, x>> \in R
  BY Zenon DEF OpToRel
<1> HIDE DEF R
<1>3. PICK x \in S : \A y \in S : ~ (<<y, x>> \in R)
  BY <1>1, WFMin
<1>4. \A y \in S : ~ (y < x)
  BY <1>2, <1>3, Zenon
<1>5. \E z \in S : \A y \in S : z <= y
  BY <1>4
<1> QED BY <1>5 DEF Min

LEMMA LastIsMember ==
  ASSUME NEW N \in Nat, NEW S \in SUBSET (0 .. N), S # {}
  PROVE  Max(S) \in S /\ \A n \in S : n <= Max(S)
<1> DEFINE D == {m \in 0 .. N : N - m \in S}
<1>1. PICK x \in S : TRUE
  OBVIOUS
<1>2. N - x \in D
  BY <1>1
<1>3. Min(D) \in D /\ \A n \in D : Min(D) <= n
  <2>1. D # {}
    BY <1>2, Zenon
  <2>2. D \in SUBSET Nat
    OBVIOUS
  <2> HIDE DEF D
  <2> QED BY <2>1, <2>2, FirstIsMember
<1>4. PICK m \in 0 .. N : m = Min(D)
  BY <1>3
<1>5. N - m \in S
  BY <1>3, <1>4
<1>6. \A n \in S : n <= N - m
  <2> TAKE n \in S
  <2>1. n \in 0 .. N /\ N - n \in D
    OBVIOUS
  <2> QED BY <1>3, <1>4, <2>1
<1>7. \E z \in S : \A n \in S : z >= n
  BY <1>5, <1>6
<1>8. PICK z \in S : z = Max(S) /\ \A n \in S : z >= n
  BY <1>7 DEF Max
<1> QED BY <1>8

-------------------------------------------------------------------------------
(* The state of pipes and files. *)

LEMMA Constants ==
  /\ Wheel(PIPESIZE, WORD) /\ PIPESIZE \in Nat \ {0} /\ WORD \in Nat \ {0} /\ PIPESIZE < WORD
  /\ NFILE \in Nat \ {0} /\ NOFILE \in Nat /\ NOFILE >= 4
  /\ IsFiniteSet(Procs) /\ IsFiniteSet(FDs) /\ IsFiniteSet(Procs \X FDs)
  /\ Nobody \notin Procs
  /\ "sh" \in Procs /\ "left" \in Procs /\ "right" \in Procs
  /\ \A p \in Procs : p = "sh" \/ p = "left" \/ p = "right"
<1>1. IsFiniteSet(Procs) /\ IsFiniteSet(FDs)
  <2>1. 0 \in Int /\ NOFILE - 1 \in Int
    BY PipeAssumption
  <2> QED BY <2>1, PipeAssumption, FS_Interval DEF FDs
<1>2. IsFiniteSet(Procs \X FDs)
  BY <1>1, FS_Product
<1> QED BY <1>1, <1>2, PipeAssumption, ShellAssumption DEF Wheel

LEMMA PipeIs ==
  ASSUME PipeTypeOK, NEW q \in Pipes
  PROVE  /\ pipe[q].nread \in 0 .. WORD - 1 /\ pipe[q].nwrite \in 0 .. WORD - 1
         /\ pipe[q].nread \in Int /\ pipe[q].nwrite \in Int
         /\ pipe[q].data \in Slots(PIPESIZE, Byte)
         /\ pipe[q].live \in BOOLEAN /\ pipe[q].readopen \in BOOLEAN /\ pipe[q].writeopen \in BOOLEAN
<1>1. pipe[q] \in [live : BOOLEAN, data : [0 .. PIPESIZE - 1 -> Byte],
                   nread : 0 .. WORD - 1, nwrite : 0 .. WORD - 1,
                   readopen : BOOLEAN, writeopen : BOOLEAN]
  BY DEF PipeTypeOK
<1>2. pipe[q].nread \in 0 .. WORD - 1 /\ pipe[q].nwrite \in 0 .. WORD - 1
  BY <1>1
<1> QED BY <1>1, <1>2, Constants DEF Slots

LEMMA CountIs ==
  ASSUME PipeTypeOK, NEW q \in Pipes
  PROVE  /\ Count(q) = Dist(WORD, pipe[q].nread, pipe[q].nwrite)
         /\ Count(q) \in 0 .. WORD - 1 /\ Count(q) \in Nat
         /\ Room(q) = PIPESIZE - Count(q)
         /\ Queue(q) = Ring(pipe[q].data, PIPESIZE, pipe[q].nread, Count(q))
         /\ Queue(q) \in Seq(Byte) /\ Len(Queue(q)) = Count(q)
<1>1. PICK a \in 0 .. WORD - 1, b \in 0 .. WORD - 1 : a = pipe[q].nread /\ b = pipe[q].nwrite
  BY PipeIs
<1>2. Count(q) = Dist(WORD, a, b)
  BY <1>1 DEF Count, Dist
<1>3. Count(q) \in 0 .. WORD - 1
  BY <1>2, Constants, DistIs
<1>4. PICK n \in Nat : n = Count(q)
  BY <1>3, Constants
<1>5. Queue(q) = Ring(pipe[q].data, PIPESIZE, a, n)
  BY <1>1, <1>4 DEF Queue, Ring, Slot
<1>6. a \in Int /\ pipe[q].data \in Slots(PIPESIZE, Byte)
  BY PipeIs, <1>1
<1>7. Queue(q) \in Seq(Byte)
  BY <1>5, <1>6, Constants, RingInSeq
<1>8. Len(Queue(q)) = n
  BY <1>5, Constants, RingIs
<1> QED BY <1>1, <1>2, <1>3, <1>4, <1>5, <1>7, <1>8 DEF Room

\* What is in a pipe depends on its structure alone.
LEMMA CountKeeps ==
  ASSUME NEW q \in Pipes, pipe'[q] = pipe[q]
  PROVE  Count(q)' = Count(q) /\ Queue(q)' = Queue(q) /\ Room(q)' = Room(q)
<1>1. Count(q)' = Count(q)
  BY DEF Count
<1> QED BY <1>1 DEF Queue, Room

-------------------------------------------------------------------------------
(* Who refers to a file. *)

Holding(o, f)    == {x \in Procs \X FDs : o[x[1]][x[2]] = f}
Closing(c, f, i) == {p \in Procs : Len(c[p]) >= i /\ c[p][i] = f}
Is(x, f)       == IF x = f THEN 1 ELSE 0
IsAt(s, i, f)  == IF Len(s) >= i /\ s[i] = f THEN 1 ELSE 0
Gives(o, o2, p, d, x) == o2 = [o EXCEPT ![p][d] = x]
Queues(c, c2, p, s)   == c2 = [c EXCEPT ![p] = s]
Refs(o, c, f) ==
  Cardinality(Holding(o, f)) + Cardinality(Closing(c, f, 1)) + Cardinality(Closing(c, f, 2))

OFiles   == [Procs -> [FDs -> Files \cup {NoFile}]]
Closings == {c \in [Procs -> Seq(Files)] : \A p \in Procs : Len(c[p]) <= 2}

LEMMA ReferencesAre ==
  /\ \A f \in Files : References(f) = Refs(ofile, closing, f)
  /\ \A f \in Files : References(f)' = Refs(ofile', closing', f)
BY DEF References, Holders, Closers, Refs, Holding, Closing

LEMMA HoldingMoves ==
  ASSUME NEW o \in OFiles, NEW p \in Procs, NEW d \in FDs, NEW x, NEW f,
         NEW o2, Gives(o, o2, p, d, x)
  PROVE  /\ Cardinality(Holding(o, f)) \in Nat /\ Cardinality(Holding(o2, f)) \in Nat
         /\ Cardinality(Holding(o2, f)) = Cardinality(Holding(o, f)) - Is(o[p][d], f) + Is(x, f)
<1>1. \A y \in Procs \X FDs : y # <<p, d>> => o2[y[1]][y[2]] = o[y[1]][y[2]]
  <2> TAKE y \in Procs \X FDs
  <2>1. PICK a \in Procs, b \in FDs : y = <<a, b>>
    OBVIOUS
  <2>2. o2[a] = IF a = p THEN [o[p] EXCEPT ![d] = x] ELSE o[a]
    BY DEF OFiles, Gives
  <2>3. b # d => [o[p] EXCEPT ![d] = x][b] = o[p][b]
    BY DEF OFiles
  <2> QED BY <2>1, <2>2, <2>3
<1>2. o2[p][d] = x
  BY DEF OFiles, Gives
<1>3. Holding(o, f) \in SUBSET (Procs \X FDs) /\ Holding(o2, f) \in SUBSET (Procs \X FDs)
  BY DEF Holding
<1>4. \A y \in Procs \X FDs : y # <<p, d>> => (y \in Holding(o, f) <=> y \in Holding(o2, f))
  BY <1>1 DEF Holding
<1>5. PICK z \in Procs \X FDs : z = <<p, d>>
  OBVIOUS
<1>6. (z \in Holding(o, f) <=> o[p][d] = f) /\ (z \in Holding(o2, f) <=> x = f)
  BY <1>2, <1>5 DEF Holding
<1>7. IsFiniteSet(Procs \X FDs)
  BY Constants
<1>8. PICK T : T = Procs \X FDs
  OBVIOUS
<1>9. PICK A \in SUBSET T, B \in SUBSET T : A = Holding(o, f) /\ B = Holding(o2, f)
  BY <1>3, <1>8
<1>10. \A y \in T : y # z => (y \in A <=> y \in B)
  BY <1>4, <1>5, <1>8, <1>9
<1>11. /\ Cardinality(A) \in Nat /\ Cardinality(B) \in Nat
       /\ Cardinality(B) = Cardinality(A) - (IF z \in A THEN 1 ELSE 0) + (IF z \in B THEN 1 ELSE 0)
  BY <1>7, <1>8, <1>10, CardMoves
<1> QED BY <1>6, <1>9, <1>11 DEF Is

LEMMA ClosingMoves ==
  ASSUME NEW c \in Closings, NEW p \in Procs, NEW s, NEW f, NEW i,
         NEW c2, Queues(c, c2, p, s)
  PROVE  /\ Cardinality(Closing(c, f, i)) \in Nat /\ Cardinality(Closing(c2, f, i)) \in Nat
         /\ Cardinality(Closing(c2, f, i)) = Cardinality(Closing(c, f, i))
              - IsAt(c[p], i, f) + IsAt(s, i, f)
<1>1. \A y \in Procs : c2[y] = IF y = p THEN s ELSE c[y]
  BY DEF Closings, Queues
<1>2. Closing(c, f, i) \in SUBSET Procs /\ Closing(c2, f, i) \in SUBSET Procs
  BY DEF Closing
<1>3. \A y \in Procs : y # p => (y \in Closing(c, f, i) <=> y \in Closing(c2, f, i))
  BY <1>1 DEF Closing
<1>4. /\ p \in Closing(c, f, i) <=> Len(c[p]) >= i /\ c[p][i] = f
      /\ p \in Closing(c2, f, i) <=> Len(s) >= i /\ s[i] = f
  BY <1>1 DEF Closing
<1>5. IsFiniteSet(Procs)
  BY Constants
<1>6. PICK A \in SUBSET Procs, B \in SUBSET Procs : A = Closing(c, f, i) /\ B = Closing(c2, f, i)
  BY <1>2
<1>7. \A y \in Procs : y # p => (y \in A <=> y \in B)
  BY <1>3, <1>6
<1>8. /\ Cardinality(A) \in Nat /\ Cardinality(B) \in Nat
      /\ Cardinality(B) = Cardinality(A) - (IF p \in A THEN 1 ELSE 0) + (IF p \in B THEN 1 ELSE 0)
  BY <1>5, <1>7, CardMoves
<1> QED BY <1>4, <1>6, <1>8 DEF IsAt

LEMMA RefsInNat ==
  ASSUME NEW o \in OFiles, NEW c \in Closings, NEW f
  PROVE  /\ Cardinality(Holding(o, f)) \in Nat
         /\ Cardinality(Closing(c, f, 1)) \in Nat /\ Cardinality(Closing(c, f, 2)) \in Nat
         /\ Refs(o, c, f) \in Nat
<1>1. Holding(o, f) \in SUBSET (Procs \X FDs) /\ Closing(c, f, 1) \in SUBSET Procs
      /\ Closing(c, f, 2) \in SUBSET Procs
  BY DEF Holding, Closing
<1>2. IsFiniteSet(Holding(o, f)) /\ IsFiniteSet(Closing(c, f, 1)) /\ IsFiniteSet(Closing(c, f, 2))
  BY <1>1, Constants, FS_Subset
<1> QED BY <1>2, FS_CardinalityType DEF Refs

\* Whoever holds a file or is to close it is counted.
LEMMA RefsCount ==
  ASSUME NEW o \in OFiles, NEW c \in Closings, NEW f \in Files
  PROVE  /\ \A p \in Procs, d \in FDs : o[p][d] = f => Refs(o, c, f) >= 1
         /\ \A p \in Procs : Len(c[p]) >= 1 /\ c[p][1] = f => Refs(o, c, f) >= 1
         /\ \A p \in Procs : Len(c[p]) >= 2 /\ c[p][2] = f => Refs(o, c, f) >= 1
         /\ \A p, x \in Procs, d \in FDs :
              o[p][d] = f /\ Len(c[x]) >= 1 /\ c[x][1] = f => Refs(o, c, f) >= 2
<1>1. /\ Cardinality(Holding(o, f)) \in Nat
      /\ Cardinality(Closing(c, f, 1)) \in Nat /\ Cardinality(Closing(c, f, 2)) \in Nat
  BY RefsInNat
<1>2. /\ IsFiniteSet(Holding(o, f)) /\ IsFiniteSet(Closing(c, f, 1)) /\ IsFiniteSet(Closing(c, f, 2))
  <2>1. Holding(o, f) \in SUBSET (Procs \X FDs) /\ Closing(c, f, 1) \in SUBSET Procs
        /\ Closing(c, f, 2) \in SUBSET Procs
    BY DEF Holding, Closing
  <2> QED BY <2>1, Constants, FS_Subset
<1>3. \A p \in Procs, d \in FDs : o[p][d] = f => Cardinality(Holding(o, f)) >= 1
  <2> SUFFICES ASSUME NEW p \in Procs, NEW d \in FDs, o[p][d] = f PROVE Holding(o, f) # {}
    BY <1>1, <1>2, FS_EmptySet
  <2>1. <<p, d>> \in Holding(o, f)
    BY DEF Holding
  <2> QED BY <2>1
<1>4. \A p \in Procs : Len(c[p]) >= 1 /\ c[p][1] = f => Cardinality(Closing(c, f, 1)) >= 1
  <2> SUFFICES ASSUME NEW p \in Procs, Len(c[p]) >= 1 /\ c[p][1] = f PROVE Closing(c, f, 1) # {}
    BY <1>1, <1>2, FS_EmptySet
  <2> QED BY DEF Closing
<1>5. \A p \in Procs : Len(c[p]) >= 2 /\ c[p][2] = f => Cardinality(Closing(c, f, 2)) >= 1
  <2> SUFFICES ASSUME NEW p \in Procs, Len(c[p]) >= 2 /\ c[p][2] = f PROVE Closing(c, f, 2) # {}
    BY <1>1, <1>2, FS_EmptySet
  <2> QED BY DEF Closing
<1>6. Refs(o, c, f) = Cardinality(Holding(o, f)) + Cardinality(Closing(c, f, 1))
                        + Cardinality(Closing(c, f, 2))
  BY DEF Refs
<1> QED BY <1>1, <1>3, <1>4, <1>5, <1>6

-------------------------------------------------------------------------------
(* What a step that leaves things alone preserves. *)

Tested  == {"writeTested", "readTested"}
ToRead  == {"readTested", "readSleeps"}
ToWrite == {"writeTested", "writeSleeps"}
Calls   == [pipe : Pipes \cup Ends \cup {NoPipe}, todo : Seq(Byte), n : Nat, done : Nat]
InCalls == Writing \cup Reading \cup {"pipeclose"}

LEMMA CallIs ==
  ASSUME PipeTypeOK, NEW p \in Procs
  PROVE  /\ arg[p].pipe \in Pipes \cup Ends \cup {NoPipe}
         /\ arg[p].todo \in Seq(Byte) /\ arg[p].n \in Nat /\ arg[p].done \in Nat
         /\ arg[p] \in Calls
         /\ pc[p] \in Points /\ got[p] \in Seq(Byte) /\ result[p] \in Int
         /\ closing[p] \in Seq(Files) /\ Len(closing[p]) \in 0 .. 2
         /\ ofile[p] \in [FDs -> Files \cup {NoFile}]
         /\ killed[p] \in BOOLEAN /\ exiting[p] \in BOOLEAN
<1>1. closing[p] \in Seq(Files) /\ Len(closing[p]) <= 2
  BY DEF PipeTypeOK
<1>2. Len(closing[p]) \in 0 .. 2
  <2>1. PICK s \in Seq(Files) : s = closing[p]
    BY <1>1
  <2>2. PICK n \in Nat : n = Len(s)
    OBVIOUS
  <2>3. n <= 2
    BY ONLY <1>1, <2>1, <2>2, Zenon
  <2>4. n \in 0 .. 2
    BY ONLY <2>3, n \in Nat
  <2> QED BY <2>1, <2>2, <2>4
<1>3. arg[p] \in Calls
  BY DEF PipeTypeOK, Calls
<1> QED BY <1>1, <1>2, <1>3 DEF PipeTypeOK, Calls

LEMMA CallMade ==
  ASSUME NEW q \in Pipes \cup Ends \cup {NoPipe}, NEW s \in Seq(Byte), NEW n \in Nat, NEW m \in Nat
  PROVE  [pipe |-> q, todo |-> s, n |-> n, done |-> m] \in Calls
BY DEF Calls

LEMMA LocksStay ==
  ASSUME LockHeldToSleep, plock' = plock,
         \A o \in Procs : \/ pc'[o] = pc[o] /\ arg'[o].pipe = arg[o].pipe
                          \/ pc[o] \notin Tested /\ pc'[o] \notin Tested
  PROVE  LockHeldToSleep'
BY DEF LockHeldToSleep, Tested

LEMMA WaitersStay ==
  ASSUME SleepersWait, pipe' = pipe, \A o \in Procs : killed[o] => killed'[o],
         \A o \in Procs : \/ pc'[o] \notin ToRead \cup ToWrite
                          \/ /\ arg'[o].pipe = arg[o].pipe
                             /\ pc[o] \in ToRead <=> pc'[o] \in ToRead
                             /\ pc[o] \in ToWrite <=> pc'[o] \in ToWrite
  PROVE  SleepersWait'
<1> SUFFICES ASSUME NEW p \in Procs
    PROVE /\ pc'[p] \in ToRead => /\ (Count(arg[p].pipe) = 0)' \/ \E x \in Procs : killed'[x]
                                  /\ pipe'[arg'[p].pipe].writeopen
          /\ pc'[p] \in ToWrite => (Room(arg[p].pipe) = 0)' /\ pipe'[arg'[p].pipe].readopen
  BY DEF SleepersWait, ToRead, ToWrite
<1>1. CASE pc'[p] \notin ToRead \cup ToWrite
  BY <1>1
<1>2. CASE /\ arg'[p].pipe = arg[p].pipe
           /\ pc[p] \in ToRead <=> pc'[p] \in ToRead
           /\ pc[p] \in ToWrite <=> pc'[p] \in ToWrite
  <2>1. Count(arg[p].pipe)' = Count(arg[p].pipe) /\ Room(arg[p].pipe)' = Room(arg[p].pipe)
    BY <1>2 DEF Count, Room
  <2>2. /\ pc[p] \in ToRead => /\ Count(arg[p].pipe) = 0 \/ \E x \in Procs : killed[x]
                               /\ pipe[arg[p].pipe].writeopen
        /\ pc[p] \in ToWrite => Room(arg[p].pipe) = 0 /\ pipe[arg[p].pipe].readopen
    BY DEF SleepersWait, ToRead, ToWrite
  <2> QED BY <1>2, <2>1, <2>2
<1> QED BY <1>1, <1>2

LEMMA CallsStay ==
  ASSUME PipeTypeOK, CallsHaveFiles,
         \A o \in Procs : \/ pc'[o] \notin InCalls
                          \/ /\ arg'[o].pipe = arg[o].pipe /\ ofile'[o] = ofile[o]
                             /\ pc'[o] \in Writing => pc[o] \in Writing
                             /\ pc'[o] \in Reading => pc[o] \in Reading
                             /\ pc'[o] = "pipeclose" => pc[o] = "pipeclose",
         \A o \in Procs, d \in FDs : ofile[o][d] # NoFile => file'[ofile[o][d]] = file[ofile[o][d]]
  PROVE  CallsHaveFiles'
<1> SUFFICES ASSUME NEW o \in Procs
    PROVE /\ pc'[o] \in Writing => /\ arg'[o].pipe \in Pipes
                                   /\ \E d \in FDs : File(o, d)' = End(arg'[o].pipe, TRUE)
          /\ pc'[o] \in Reading => /\ arg'[o].pipe \in Pipes
                                   /\ \E d \in FDs : File(o, d)' = End(arg'[o].pipe, FALSE)
          /\ pc'[o] = "pipeclose" => arg'[o].pipe \in Ends
  BY DEF CallsHaveFiles
<1>1. CASE pc'[o] \notin InCalls
  BY <1>1 DEF InCalls
<1>2. CASE /\ arg'[o].pipe = arg[o].pipe /\ ofile'[o] = ofile[o]
           /\ pc'[o] \in Writing => pc[o] \in Writing
           /\ pc'[o] \in Reading => pc[o] \in Reading
           /\ pc'[o] = "pipeclose" => pc[o] = "pipeclose"
  <2>1. \A d \in FDs : File(o, d)' = File(o, d)
    BY <1>2 DEF File
  <2>2. /\ pc[o] \in Writing => /\ arg[o].pipe \in Pipes
                                /\ \E d \in FDs : File(o, d) = End(arg[o].pipe, TRUE)
        /\ pc[o] \in Reading => /\ arg[o].pipe \in Pipes
                                /\ \E d \in FDs : File(o, d) = End(arg[o].pipe, FALSE)
        /\ pc[o] = "pipeclose" => arg[o].pipe \in Ends
    BY DEF CallsHaveFiles
  <2> QED BY <1>2, <2>1, <2>2
<1> QED BY <1>1, <1>2

LEMMA EndsStay ==
  ASSUME EndsHaveOneFile, file' = file, \A f \in Files : ref[f] = 0 <=> ref'[f] = 0,
         \A q \in Pipes : /\ pipe'[q].live = pipe[q].live
                          /\ pipe'[q].readopen = pipe[q].readopen
                          /\ pipe'[q].writeopen = pipe[q].writeopen,
         \A o \in Procs : /\ pc'[o] = "pipeclose" <=> pc[o] = "pipeclose"
                          /\ pc[o] = "pipeclose" => arg'[o].pipe = arg[o].pipe
  PROVE  EndsHaveOneFile'
<1>1. \A x \in Ends : IsOpen(x)' = IsOpen(x)
  <2> SUFFICES ASSUME NEW x \in Ends PROVE IsOpen(x)' = IsOpen(x)
    OBVIOUS
  <2>1. x.pipe \in Pipes
    BY DEF Ends, End
  <2> QED BY <2>1 DEF IsOpen
<1>2. \A x \in Ends, p \in Procs : Closes(p, x)' <=> Closes(p, x)
  BY DEF Closes
<1> QED BY <1>1, <1>2 DEF EndsHaveOneFile

LEMMA CountsStay ==
  ASSUME pipe' = pipe
  PROVE  \A q \in Pipes : Count(q)' = Count(q) /\ Room(q)' = Room(q) /\ Queue(q)' = Queue(q)
BY CountKeeps

LEMMA RefsStay ==
  ASSUME RefIsExact, ref' = ref, ofile' = ofile, closing' = closing
  PROVE  RefIsExact'
<1>1. \A f \in Files : References(f)' = References(f)
  BY ReferencesAre
<1> QED BY <1>1 DEF RefIsExact

-------------------------------------------------------------------------------
(* The calls that only wait, or that fail. *)

LEMMA pipeallocFailsInv ==
  ASSUME PipeInv, NEW p \in Procs, pipeallocFails(p)
  PROVE  PipeInv'
<1> USE DEF PipeInv
<1>1. /\ pc[p] = "run" /\ pc' = [pc EXCEPT ![p] = "run"] /\ result' = [result EXCEPT ![p] = -1]
      /\ UNCHANGED <<pipe, plock, ref, file, ofile, arg, got, closing, exiting, killed>>
  BY DEF pipeallocFails, Return
<1>2. pc' = pc
  BY <1>1 DEF PipeTypeOK
<1>3. PipeTypeOK'
  BY <1>1, <1>2, SMTT(30) DEF PipeTypeOK
<1>4. LockHeldToSleep' /\ CallsHaveFiles' /\ SleepersWait'
  BY <1>1, <1>2, LocksStay, CallsStay, WaitersStay
<1>5. ClosingMatchesCalls'
  BY <1>1, <1>2 DEF ClosingMatchesCalls, OpenFDs, FreeFDs
<1>6. RefIsExact'
  BY <1>1, RefsStay
<1>7. EndsHaveOneFile'
  BY <1>1, <1>2, EndsStay
<1>8. \A q \in Pipes : Count(q)' <= PIPESIZE
  BY <1>1, CountsStay
<1> QED BY <1>3, <1>4, <1>5, <1>6, <1>7, <1>8

LEMMA exitInv ==
  ASSUME PipeInv, NEW p \in Procs, exit(p)
  PROVE  PipeInv'
<1> USE DEF PipeInv
<1>1. /\ pc[p] = "run" /\ pc' = [pc EXCEPT ![p] = "close"] /\ exiting' = [exiting EXCEPT ![p] = TRUE]
      /\ UNCHANGED <<pipe, plock, ref, file, ofile, arg, got, result, closing, killed>>
  BY DEF exit
<1>2. \A o \in Procs : pc'[o] = IF o = p THEN "close" ELSE pc[o]
  BY <1>1 DEF PipeTypeOK
<1>3. PipeTypeOK'
  BY <1>1 DEF PipeTypeOK, Points
<1>4. LockHeldToSleep'
  BY <1>1, <1>2, LocksStay DEF Tested
<1>5. CallsHaveFiles'
  BY <1>1, <1>2, CallsStay DEF InCalls, Writing, Reading
<1>6. SleepersWait'
  BY <1>1, <1>2, WaitersStay DEF ToRead, ToWrite
<1>7. ClosingMatchesCalls'
  BY <1>1, <1>2 DEF ClosingMatchesCalls, OpenFDs, FreeFDs
<1>8. RefIsExact'
  BY <1>1, RefsStay
<1>9. EndsHaveOneFile'
  BY <1>1, <1>2, EndsStay
<1>10. \A q \in Pipes : Count(q)' <= PIPESIZE
  BY <1>1, CountsStay
<1> QED BY <1>3, <1>4, <1>5, <1>6, <1>7, <1>8, <1>9, <1>10

LEMMA EndIs ==
  /\ \A x \in Ends : /\ x.pipe \in Pipes /\ x.writable \in BOOLEAN /\ x.type = "pipe"
                     /\ x = End(x.pipe, x.writable) /\ x # NoPipe /\ x # Device
  /\ \A q \in Pipes, w1 \in BOOLEAN :
       /\ End(q, w1) \in Ends /\ End(q, w1).pipe = q /\ End(q, w1).writable = w1
       /\ End(q, w1) # NoPipe /\ End(q, w1) # Device
  /\ NoPipe.type # "pipe" /\ Device.type # "pipe" /\ NoPipe # Device
BY DEF Ends, End, NoPipe, Device

LEMMA FileIs ==
  ASSUME PipeTypeOK, NEW p \in Procs, NEW d \in FDs
  PROVE  /\ File(p, d) \in {NoPipe, Device} \cup Ends
         /\ File(p, d).type = "pipe" =>
              /\ File(p, d) \in Ends /\ File(p, d).pipe \in Pipes
              /\ File(p, d).writable \in BOOLEAN
              /\ File(p, d) = End(File(p, d).pipe, File(p, d).writable)
<1>1. ofile[p][d] \in Files \cup {NoFile}
  BY DEF PipeTypeOK
<1>2. File(p, d) \in {NoPipe, Device} \cup Ends
  BY <1>1 DEF PipeTypeOK, File
<1> QED BY <1>2, EndIs

LEMMA sys_writeInv ==
  ASSUME PipeInv, NEW p \in Procs, NEW d \in FDs, NEW s \in Seq(Byte), sys_write(p, d, s)
  PROVE  PipeInv'
<1> USE DEF PipeInv
<1>1. pc[p] = "run" /\ UNCHANGED <<pipe, plock, ref, file, ofile, got, closing, exiting, killed>>
  BY DEF sys_write
<1>2. CASE File(p, d).type # "pipe" \/ ~File(p, d).writable
  <2>1. pipeallocFails(p)
    BY <1>1, <1>2 DEF sys_write, pipeallocFails
  <2> QED BY <2>1, pipeallocFailsInv
<1>3. CASE File(p, d).type = "pipe" /\ File(p, d).writable
  <2>1. PICK q \in Pipes : q = File(p, d).pipe /\ File(p, d) = End(q, TRUE)
    BY <1>3, FileIs
  <2>2. PICK c \in Calls :
          c = [pipe |-> q, todo |-> s, n |-> Len(s), done |-> 0] /\ c.pipe = q
    <3>1. PICK n \in Nat : n = Len(s)
      OBVIOUS
    <3>2. [pipe |-> q, todo |-> s, n |-> n, done |-> 0] \in Calls
      BY CallMade
    <3> QED BY <3>1, <3>2
  <2>3. arg' = [arg EXCEPT ![p] = c] /\ pc' = [pc EXCEPT ![p] = "write"] /\ result' = result
    BY <1>3, <2>1, <2>2 DEF sys_write
  <2>4. \A o \in Procs : /\ pc'[o] = IF o = p THEN "write" ELSE pc[o]
                         /\ arg'[o] = IF o = p THEN c ELSE arg[o]
    BY <2>3 DEF PipeTypeOK
  <2>5. PipeTypeOK'
    <3>1. arg' \in [Procs -> Calls] /\ pc' \in [Procs -> Points]
      BY <2>3 DEF PipeTypeOK, Points, Calls
    <3> QED BY <1>1, <2>3, <3>1 DEF PipeTypeOK, Calls
  <2>6. LockHeldToSleep'
    BY <1>1, <2>4, LocksStay DEF Tested
  <2>7. CallsHaveFiles'
    <3> SUFFICES ASSUME NEW o \in Procs
        PROVE /\ pc'[o] \in Writing => /\ arg'[o].pipe \in Pipes
                                       /\ \E x \in FDs : File(o, x)' = End(arg'[o].pipe, TRUE)
              /\ pc'[o] \in Reading => /\ arg'[o].pipe \in Pipes
                                       /\ \E x \in FDs : File(o, x)' = End(arg'[o].pipe, FALSE)
              /\ pc'[o] = "pipeclose" => arg'[o].pipe \in Ends
      BY DEF CallsHaveFiles
    <3>1. \A x \in FDs : File(o, x)' = File(o, x)
      BY <1>1 DEF File
    <3>2. CASE o = p
      <4>1. pc'[o] = "write" /\ arg'[o].pipe = q
        BY <2>2, <2>4, <3>2
      <4>2. File(o, d)' = End(q, TRUE)
        BY <2>1, <3>1, <3>2
      <4> QED BY <4>1, <4>2 DEF Reading
    <3>3. CASE o # p
      BY <2>4, <3>1, <3>3 DEF CallsHaveFiles
    <3> QED BY <3>2, <3>3
  <2>8. SleepersWait'
    BY <1>1, <2>4, WaitersStay DEF ToRead, ToWrite
  <2>9. ClosingMatchesCalls'
    BY <1>1, <2>4 DEF ClosingMatchesCalls, OpenFDs, FreeFDs
  <2>10. RefIsExact'
    BY <1>1, RefsStay
  <2>11. EndsHaveOneFile'
    BY <1>1, <2>4, EndsStay
  <2>12. \A x \in Pipes : Count(x)' <= PIPESIZE
    BY <1>1, CountsStay
  <2> QED BY <2>5, <2>6, <2>7, <2>8, <2>9, <2>10, <2>11, <2>12
<1>4. (File(p, d).type # "pipe" \/ ~File(p, d).writable)
        \/ (File(p, d).type = "pipe" /\ File(p, d).writable)
  BY FileIs
<1> QED BY <1>2, <1>3, <1>4

LEMMA sys_readInv ==
  ASSUME PipeInv, NEW p \in Procs, NEW d \in FDs, NEW n \in Nat, sys_read(p, d, n)
  PROVE  PipeInv'
<1> USE DEF PipeInv
<1>1. /\ pc[p] = "run" /\ UNCHANGED <<pipe, plock, ref, file, ofile, closing, exiting, killed>>
      /\ got' = [got EXCEPT ![p] = <<>>]
  BY DEF sys_read
<1>2. /\ \A o \in Procs : o # p => pc'[o] = pc[o] /\ arg'[o] = arg[o]
      /\ pc'[p] \in {"run", "read"}
      /\ pc'[p] = "read" => /\ arg'[p].pipe \in Pipes
                            /\ \E x \in FDs : File(p, x) = End(arg'[p].pipe, FALSE)
      /\ pc' \in [Procs -> Points] /\ result' \in [Procs -> Int] /\ arg' \in [Procs -> Calls]
  <2>1. CASE File(p, d).type # "pipe" \/ File(p, d).writable
    <3>1. pc' = [pc EXCEPT ![p] = "run"] /\ result' = [result EXCEPT ![p] = -1] /\ arg' = arg
      BY <2>1 DEF sys_read, Return
    <3>2. arg' \in [Procs -> Calls]
      BY <3>1 DEF PipeTypeOK, Calls
    <3>3. pc' \in [Procs -> Points] /\ result' \in [Procs -> Int]
      BY <3>1 DEF PipeTypeOK, Points
    <3>4. pc'[p] = "run" /\ \A o \in Procs : o # p => pc'[o] = pc[o]
      BY <3>1 DEF PipeTypeOK
    <3> QED BY <3>1, <3>2, <3>3, <3>4
  <2>2. CASE ~(File(p, d).type # "pipe" \/ File(p, d).writable)
    <3>1. PICK q \in Pipes : q = File(p, d).pipe /\ File(p, d) = End(q, FALSE)
      BY <2>2, FileIs
    <3>2. PICK c \in Calls :
            c = [pipe |-> q, todo |-> <<>>, n |-> n, done |-> 0]
      <4>1. <<>> \in Seq(Byte) /\ 0 \in Nat
        OBVIOUS
      <4>2. [pipe |-> q, todo |-> <<>>, n |-> n, done |-> 0] \in Calls
        BY <4>1, CallMade
      <4> QED BY <4>2
    <3>3. arg' = [arg EXCEPT ![p] = c] /\ pc' = [pc EXCEPT ![p] = "read"] /\ result' = result
      BY <2>2, <3>1, <3>2 DEF sys_read
    <3>4. c.pipe = q
      BY <3>2
    <3>5. pc' \in [Procs -> Points] /\ result' \in [Procs -> Int]
      BY <3>3 DEF PipeTypeOK, Points
    <3>6. arg' \in [Procs -> Calls]
      BY <3>3 DEF PipeTypeOK, Calls
    <3>7. /\ pc'[p] = "read" /\ \A o \in Procs : o # p => pc'[o] = pc[o] /\ arg'[o] = arg[o]
          /\ arg'[p] = c
      BY <3>3 DEF PipeTypeOK
    <3> QED BY <3>1, <3>4, <3>5, <3>6, <3>7
  <2> QED BY <2>1, <2>2
<1>3. PipeTypeOK'
  <2>1. got' \in [Procs -> Seq(Byte)]
    BY <1>1 DEF PipeTypeOK
  <2> QED BY <1>1, <1>2, <2>1 DEF PipeTypeOK, Calls
<1>4. LockHeldToSleep'
  BY <1>1, <1>2, LocksStay DEF Tested
<1>5. CallsHaveFiles'
  <2> SUFFICES ASSUME NEW o \in Procs
      PROVE /\ pc'[o] \in Writing => /\ arg'[o].pipe \in Pipes
                                     /\ \E x \in FDs : File(o, x)' = End(arg'[o].pipe, TRUE)
            /\ pc'[o] \in Reading => /\ arg'[o].pipe \in Pipes
                                     /\ \E x \in FDs : File(o, x)' = End(arg'[o].pipe, FALSE)
            /\ pc'[o] = "pipeclose" => arg'[o].pipe \in Ends
    BY DEF CallsHaveFiles
  <2>1. \A x \in FDs : File(o, x)' = File(o, x)
    BY <1>1 DEF File
  <2>2. CASE o = p
    BY <1>2, <2>1, <2>2 DEF Reading, Writing
  <2>3. CASE o # p
    BY <1>2, <2>1, <2>3 DEF CallsHaveFiles
  <2> QED BY <2>2, <2>3
<1>6. SleepersWait'
  BY <1>1, <1>2, WaitersStay DEF ToRead, ToWrite
<1>7. ClosingMatchesCalls'
  BY <1>1, <1>2 DEF ClosingMatchesCalls, OpenFDs, FreeFDs
<1>8. RefIsExact'
  BY <1>1, RefsStay
<1>9. EndsHaveOneFile'
  BY <1>1, <1>2, EndsStay
<1>10. \A x \in Pipes : Count(x)' <= PIPESIZE
  BY <1>1, CountsStay
<1> QED BY <1>3, <1>4, <1>5, <1>6, <1>7, <1>8, <1>9, <1>10

\* Between the test and the sleep the pipe cannot change: its lock is held.
LEMMA sleepInv ==
  ASSUME PipeInv, NEW p \in Procs, sleep(p)
  PROVE  PipeInv'
<1> USE DEF PipeInv
<1>1. /\ pc[p] \in Tested
      /\ pc' = [pc EXCEPT ![p] = IF @ = "writeTested" THEN "writeSleeps" ELSE "readSleeps"]
      /\ plock' = [plock EXCEPT ![arg[p].pipe] = Nobody]
      /\ UNCHANGED <<pipe, ref, file, ofile, arg, got, result, closing, exiting, killed>>
  BY DEF sleep, Tested
<1>2. \A o \in Procs : pc'[o] = IF o # p THEN pc[o] ELSE IF pc[p] = "writeTested" THEN "writeSleeps"
                                                          ELSE "readSleeps"
  BY <1>1 DEF PipeTypeOK
<1>3. PICK q \in Pipes : q = arg[p].pipe
  BY <1>1 DEF CallsHaveFiles, Tested, Writing, Reading
<1>4. PipeTypeOK'
  BY <1>1, <1>3 DEF PipeTypeOK, Points
<1>5. \A x \in Pipes : plock'[x] = IF x = q THEN Nobody ELSE plock[x]
  BY <1>1, <1>3 DEF PipeTypeOK
<1>6. LockHeldToSleep'
  <2> SUFFICES ASSUME NEW o \in Procs, NEW x \in Pipes
      PROVE plock'[x] = o <=> pc'[o] \in {"writeTested", "readTested"} /\ arg'[o].pipe = x
    BY DEF LockHeldToSleep
  <2>1. plock[x] = o <=> pc[o] \in {"writeTested", "readTested"} /\ arg[o].pipe = x
    BY DEF LockHeldToSleep
  <2>2. plock[q] = p
    BY <1>1, <1>3 DEF LockHeldToSleep, Tested
  <2>3. CASE x = q
    <3>1. plock'[x] # o
      BY <1>5, <2>3, Constants
    <3>2. o # p => ~(pc[o] \in {"writeTested", "readTested"} /\ arg[o].pipe = x)
      BY <2>1, <2>2, <2>3
    <3> QED BY <1>1, <1>2, <3>1, <3>2
  <2>4. CASE x # q
    BY <1>1, <1>2, <1>3, <1>5, <2>1, <2>4
  <2> QED BY <2>3, <2>4
<1>7. CallsHaveFiles'
  BY <1>1, <1>2, CallsStay DEF InCalls, Writing, Reading, Tested
<1>8. SleepersWait'
  BY <1>1, <1>2, WaitersStay DEF ToRead, ToWrite, Tested
<1>9. ClosingMatchesCalls'
  BY <1>1, <1>2 DEF ClosingMatchesCalls, OpenFDs, FreeFDs, Tested
<1>10. RefIsExact'
  BY <1>1, RefsStay
<1>11. EndsHaveOneFile'
  BY <1>1, <1>2, EndsStay DEF Tested
<1>12. \A x \in Pipes : Count(x)' <= PIPESIZE
  BY <1>1, CountsStay
<1> QED BY <1>4, <1>6, <1>7, <1>8, <1>9, <1>10, <1>11, <1>12

LEMMA killInv ==
  ASSUME PipeInv, NEW p \in Procs, kill(p)
  PROVE  PipeInv'
<1> USE DEF PipeInv
<1>1. /\ killed' = [killed EXCEPT ![p] = TRUE]
      /\ pc' = [pc EXCEPT ![p] = CASE @ = "writeSleeps" -> "write" [] @ = "readSleeps" -> "read"
                                   [] OTHER -> @]
      /\ UNCHANGED <<pipe, plock, ref, file, ofile, arg, got, result, closing, exiting>>
  BY DEF kill
<1>2. \A o \in Procs : pc'[o] = IF o # p THEN pc[o] ELSE IF pc[p] = "writeSleeps" THEN "write"
                                   ELSE IF pc[p] = "readSleeps" THEN "read" ELSE pc[p]
  BY <1>1 DEF PipeTypeOK
<1>3. PipeTypeOK'
  <2>1. pc' \in [Procs -> Points]
    BY <1>1, <1>2 DEF PipeTypeOK, Points
  <2> QED BY <1>1, <2>1 DEF PipeTypeOK
<1>4. LockHeldToSleep'
  BY <1>1, <1>2, LocksStay DEF Tested
<1>5. CallsHaveFiles'
  BY <1>1, <1>2, CallsStay DEF InCalls, Writing, Reading
<1>6. SleepersWait'
  <2>1. \A o \in Procs : killed[o] => killed'[o]
    BY <1>1 DEF PipeTypeOK
  <2> QED BY <1>1, <1>2, <2>1, WaitersStay DEF ToRead, ToWrite
<1>7. ClosingMatchesCalls'
  BY <1>1, <1>2 DEF ClosingMatchesCalls, OpenFDs, FreeFDs
<1>8. RefIsExact'
  BY <1>1, RefsStay
<1>9. EndsHaveOneFile'
  BY <1>1, <1>2, EndsStay
<1>10. \A q \in Pipes : Count(q)' <= PIPESIZE
  BY <1>1, CountsStay
<1> QED BY <1>3, <1>4, <1>5, <1>6, <1>7, <1>8, <1>9, <1>10

-------------------------------------------------------------------------------
(* pipewrite() and piperead() *)

LEMMA LesserOf ==
  ASSUME NEW a \in Nat, NEW b \in Nat
  PROVE  Min({a, b}) = IF a <= b THEN a ELSE b
<1>1. PICK S : S = {a, b}
  OBVIOUS
<1>2. S \in SUBSET Nat /\ S # {}
  BY <1>1
<1>3. PICK m : m = Min(S)
  OBVIOUS
<1>4. m \in S /\ \A n \in S : m <= n
  BY <1>2, <1>3, FirstIsMember
<1>5. (m = a \/ m = b) /\ m <= a /\ m <= b
  BY <1>1, <1>4
<1>6. m = IF a <= b THEN a ELSE b
  BY <1>5
<1> QED BY <1>1, <1>3, <1>6

LEMMA RoomIs ==
  ASSUME PipeTypeOK, NEW q \in Pipes, Count(q) <= PIPESIZE
  PROVE  Room(q) \in Nat /\ Room(q) <= PIPESIZE /\ Count(q) + Room(q) = PIPESIZE
<1>1. Count(q) \in Nat /\ Room(q) = PIPESIZE - Count(q)
  BY CountIs
<1> QED BY <1>1, Constants

Structs == [live : BOOLEAN, data : [0 .. PIPESIZE - 1 -> Byte], nread : 0 .. WORD - 1,
            nwrite : 0 .. WORD - 1, readopen : BOOLEAN, writeopen : BOOLEAN]

\* The structure of a pipe after k bytes have entered it.
LEMMA FilledIs ==
  ASSUME PipeTypeOK, NEW q \in Pipes, Count(q) <= PIPESIZE, NEW s \in Seq(Byte),
         NEW k \in Nat, k <= Len(s), k <= Room(q), pipe' = [pipe EXCEPT ![q] = Filled(q, s, k)]
  PROVE  /\ pipe' \in [Pipes -> Structs]
         /\ \A x \in Pipes : x # q => pipe'[x] = pipe[x]
         /\ pipe'[q].live = pipe[q].live /\ pipe'[q].nread = pipe[q].nread
         /\ pipe'[q].readopen = pipe[q].readopen /\ pipe'[q].writeopen = pipe[q].writeopen
         /\ Count(q)' = Count(q) + k
         /\ Queue(q)' = Queue(q) \o SubSeq(s, 1, k)
<1>1. PICK a \in 0 .. WORD - 1, b \in 0 .. WORD - 1, data \in Slots(PIPESIZE, Byte) :
        a = pipe[q].nread /\ b = pipe[q].nwrite /\ data = pipe[q].data
  BY PipeIs
<1>2. PICK n \in Nat : n = Count(q)
  BY CountIs
<1>3. n + k <= PIPESIZE
  <2>1. n + Room(q) = PIPESIZE /\ Room(q) \in Nat
    BY <1>2, RoomIs
  <2> QED BY <2>1, Constants
<1>4. n = Dist(WORD, a, b)
  BY <1>1, <1>2, CountIs
<1>5. PICK c : c = (b + k) % WORD
  OBVIOUS
<1>6. c \in 0 .. WORD - 1 /\ Dist(WORD, a, c) = n + k
  <2>1. Dist(WORD, a, b) + k < WORD
    BY <1>3, <1>4, Constants
  <2> QED BY <2>1, <1>4, <1>5, Constants, DistGrows
<1>7. PICK new : new = Fill(PIPESIZE, WORD, data, b, s, k)
  OBVIOUS
<1>8. b \in Int /\ a \in Int /\ k \in 0 .. Len(s)
  <2>1. PICK m \in Nat : m = Len(s)
    OBVIOUS
  <2>2. k \in 0 .. m
    BY <2>1
  <2>3. b \in Int /\ a \in Int
    BY Constants
  <2> QED BY <2>1, <2>2, <2>3
<1>9. new \in Slots(PIPESIZE, Byte)
  BY <1>7, <1>8, Constants, FillInSlots
<1>10. Filled(q, s, k) = [pipe[q] EXCEPT !.nwrite = c, !.data = new]
  BY <1>1, <1>5, <1>7 DEF Filled, Fill, Offset
<1>11. Filled(q, s, k) = [live |-> pipe[q].live, data |-> new, nread |-> a, nwrite |-> c,
                          readopen |-> pipe[q].readopen, writeopen |-> pipe[q].writeopen]
  <2>1. pipe[q] \in [live : BOOLEAN, data : [0 .. PIPESIZE - 1 -> Byte],
                     nread : 0 .. WORD - 1, nwrite : 0 .. WORD - 1,
                     readopen : BOOLEAN, writeopen : BOOLEAN]
    BY DEF PipeTypeOK
  <2> QED BY <1>1, <1>10, <2>1
<1>12. pipe[q].live \in BOOLEAN /\ pipe[q].readopen \in BOOLEAN /\ pipe[q].writeopen \in BOOLEAN
  BY PipeIs
<1>13. Filled(q, s, k) \in [live : BOOLEAN, data : [0 .. PIPESIZE - 1 -> Byte],
                            nread : 0 .. WORD - 1, nwrite : 0 .. WORD - 1,
                            readopen : BOOLEAN, writeopen : BOOLEAN]
  BY <1>6, <1>9, <1>11, <1>12 DEF Slots
<1>14. /\ pipe' \in [Pipes -> Structs]
       /\ \A x \in Pipes : x # q => pipe'[x] = pipe[x]
       /\ pipe'[q] = Filled(q, s, k)
  BY <1>13 DEF PipeTypeOK, Structs
<1>15. /\ pipe'[q].live = pipe[q].live /\ pipe'[q].nread = a /\ pipe'[q].nwrite = c
       /\ pipe'[q].data = new
       /\ pipe'[q].readopen = pipe[q].readopen /\ pipe'[q].writeopen = pipe[q].writeopen
  BY <1>11, <1>14
<1>16. PICK l \in Nat : l = n + k
  OBVIOUS
<1>17. Count(q)' = l
  BY <1>6, <1>15, <1>16 DEF Count, Dist
<1>18. Queue(q)' = Ring(new, PIPESIZE, a, l)
  BY <1>15, <1>17 DEF Queue, Ring, Slot
<1>19. PICK d \in Int : d = a + n
  BY <1>8
<1>20. b = d % WORD
  BY <1>4, <1>19, Constants, DistAhead
<1>21. l <= PIPESIZE
  BY <1>3, <1>16
<1>22. Ring(Fill(PIPESIZE, WORD, data, b, s, k), PIPESIZE, a, l)
         = Ring(data, PIPESIZE, a, n) \o SubSeq(s, 1, k)
  <2>1. IsSum(d, a, n) /\ IsMod(b, d, WORD) /\ IsSum(l, n, k) /\ Wheel(PIPESIZE, WORD)
    BY <1>16, <1>19, <1>20, Constants DEF IsSum, IsMod
  <2> QED BY ONLY <1>8, <1>21, <2>1, RingFilled, data \in Slots(PIPESIZE, Byte), s \in Seq(Byte),
                  l \in Nat, n \in Nat, d \in Int
<1>23. Queue(q) = Ring(data, PIPESIZE, a, n)
  BY <1>1, <1>2, CountIs
<1> QED BY <1>1, <1>2, <1>7, <1>14, <1>15, <1>16, <1>17, <1>18, <1>22, <1>23

LEMMA NobodyTested ==
  ASSUME PipeInv, NEW q \in Pipes, plock[q] = Nobody
  PROVE  \A o \in Procs : arg[o].pipe = q => pc[o] \notin Tested
<1> SUFFICES ASSUME NEW o \in Procs, arg[o].pipe = q, pc[o] \in Tested PROVE FALSE
  OBVIOUS
<1>1. plock[q] = o
  BY DEF PipeInv, LockHeldToSleep, Tested
<1> QED BY <1>1, Constants

LEMMA pipewriteIs ==
  ASSUME PipeInv, NEW p \in Procs, pipewrite(p)
  PROVE  \E q \in Pipes, k \in Nat :
           /\ q = arg[p].pipe /\ pc[p] = "write" /\ plock[q] = Nobody
           /\ k <= Room(q) /\ k <= Len(arg[p].todo) /\ (k = Len(arg[p].todo) \/ k = Room(q))
           /\ pipe' = [pipe EXCEPT ![q] = Filled(q, arg[p].todo, k)]
           /\ arg' \in [Procs -> Calls] /\ arg'[p].pipe = q /\ arg'[p].n = arg[p].n
           /\ arg'[p].todo = SubSeq(arg[p].todo, k + 1, Len(arg[p].todo))
           /\ \A o \in Procs : o # p => arg'[o] = arg[o]
           /\ UNCHANGED <<ref, file, ofile, got, closing, exiting, killed>>
           /\ \/ /\ k = Len(arg[p].todo)
                 /\ pc' = [WakeReaders(pc, q) EXCEPT ![p] = "run"]
                 /\ result' = [result EXCEPT ![p] = arg[p].n] /\ plock' = plock
              \/ /\ k # Len(arg[p].todo) /\ (~pipe[q].readopen \/ killed[p])
                 /\ pc' = [pc EXCEPT ![p] = "run"]
                 /\ result' = [result EXCEPT ![p] = -1] /\ plock' = plock
              \/ /\ k = Room(q) /\ pipe[q].readopen /\ ~killed[p]
                 /\ pc' = [WakeReaders(pc, q) EXCEPT ![p] = "writeTested"]
                 /\ plock' = [plock EXCEPT ![q] = p] /\ result' = result
<1> USE DEF PipeInv
<1>1. pc[p] = "write"
  BY DEF pipewrite
<1>2. PICK q \in Pipes : q = arg[p].pipe
  BY <1>1 DEF CallsHaveFiles, Writing
<1>3. PICK s \in Seq(Byte) : s = arg[p].todo
  BY CallIs
<1>4. PICK m \in Nat : m = Len(s)
  OBVIOUS
<1>5. PICK h \in Nat : h = Room(q)
  BY RoomIs
<1>6. PICK k \in Nat : k = Min({h, m}) /\ k = IF h <= m THEN h ELSE m
  BY LesserOf
<1>7. k <= h /\ k <= m /\ (k = m \/ k = h)
  BY <1>6
<1>8. /\ plock[q] = Nobody
      /\ pipe' = [pipe EXCEPT ![q] = Filled(q, s, k)]
      /\ arg'  = [arg EXCEPT ![p].todo = SubSeq(@, k + 1, Len(@)), ![p].done = @ + k]
      /\ UNCHANGED <<ref, file, ofile, got, closing, exiting, killed>>
      /\ IF k = m
         THEN /\ pc' = [WakeReaders(pc, q) EXCEPT ![p] = "run"]
              /\ result' = [result EXCEPT ![p] = arg[p].n]
              /\ UNCHANGED plock
         ELSE IF ~pipe[q].readopen \/ killed[p] THEN Return(p, -1) /\ UNCHANGED plock
         ELSE /\ pc' = [WakeReaders(pc, q) EXCEPT ![p] = "writeTested"]
              /\ plock' = [plock EXCEPT ![q] = p]
              /\ UNCHANGED result
  BY <1>2, <1>3, <1>4, <1>5, <1>6 DEF pipewrite
<1>9. PICK t \in Seq(Byte) : t = SubSeq(s, k + 1, m)
  <2>1. PICK j \in 1 .. Len(s) + 1 : j = k + 1
    BY <1>4, <1>7
  <2>2. m \in 0 .. Len(s) /\ j <= m + 1
    BY <1>4, <1>7, <2>1
  <2>3. SubSeq(s, j, m) \in Seq(Byte)
    BY <2>2, SubSeqIs
  <2> QED BY <2>1, <2>3
<1>10. PICK d \in Nat : d = arg[p].done + k
  <2>1. PICK x \in Nat : x = arg[p].done
    BY CallIs
  <2> QED BY <2>1
<1>11. PICK g \in Calls : g = arg[p]
  BY CallIs
<1>12. PICK c : c = [g EXCEPT !.todo = t, !.done = d]
  OBVIOUS
<1>13. c \in Calls /\ c.pipe = g.pipe /\ c.n = g.n /\ c.todo = t
  BY <1>12 DEF Calls
<1>14. arg' = [arg EXCEPT ![p] = c]
  <2>1. arg \in [Procs -> Calls]
    BY DEF PipeTypeOK, Calls
  <2> QED BY <1>3, <1>4, <1>8, <1>9, <1>10, <1>11, <1>12, <2>1
<1>15. /\ arg' \in [Procs -> Calls] /\ arg'[p] = c /\ \A o \in Procs : o # p => arg'[o] = arg[o]
  BY <1>13, <1>14 DEF PipeTypeOK, Calls
<1> WITNESS q \in Pipes, k \in Nat
<1> QED BY <1>1, <1>2, <1>3, <1>4, <1>5, <1>7, <1>8, <1>9, <1>11, <1>13, <1>15 DEF Return

\* The end of a pipe that a call works on is open.
LEMMA CallersEndIsOpen ==
  ASSUME PipeInv, NEW p \in Procs
  PROVE  /\ pc[p] \in Writing => arg[p].pipe \in Pipes /\ pipe[arg[p].pipe].writeopen
         /\ pc[p] \in Reading => arg[p].pipe \in Pipes /\ pipe[arg[p].pipe].readopen
<1> USE DEF PipeInv
<1>1. ASSUME NEW q \in Pipes, NEW b \in BOOLEAN, NEW d \in FDs, File(p, d) = End(q, b)
      PROVE  IF b THEN pipe[q].writeopen ELSE pipe[q].readopen
  <2>1. ofile[p][d] # NoFile /\ ofile[p][d] \in Files \cup {NoFile}
    <3>1. File(p, d) # NoPipe
      BY <1>1, EndIs
    <3> QED BY <3>1 DEF File, PipeTypeOK
  <2>2. PICK f \in Files : f = ofile[p][d] /\ file[f] = End(q, b)
    BY <1>1, <2>1 DEF File
  <2>3. PICK x \in Ends : x = End(q, b) /\ x.pipe = q /\ x.writable = b
    BY EndIs
  <2>4. IsOpen(x)
    BY <2>2, <2>3 DEF EndsHaveOneFile
  <2> QED BY <2>3, <2>4 DEF IsOpen
<1>2. ASSUME pc[p] \in Writing PROVE arg[p].pipe \in Pipes /\ pipe[arg[p].pipe].writeopen
  <2>1. PICK q \in Pipes, d \in FDs : q = arg[p].pipe /\ File(p, d) = End(q, TRUE)
    BY <1>2 DEF CallsHaveFiles
  <2> QED BY <1>1, <2>1
<1>3. ASSUME pc[p] \in Reading PROVE arg[p].pipe \in Pipes /\ pipe[arg[p].pipe].readopen
  <2>1. PICK q \in Pipes, d \in FDs : q = arg[p].pipe /\ File(p, d) = End(q, FALSE)
    BY <1>3 DEF CallsHaveFiles
  <2> QED BY <1>1, <2>1
<1> QED BY <1>2, <1>3

LEMMA pipewriteInv ==
  ASSUME PipeInv, NEW p \in Procs, pipewrite(p)
  PROVE  PipeInv'
<1> USE DEF PipeInv
<1>1. PICK q \in Pipes, k \in Nat :
        /\ q = arg[p].pipe /\ pc[p] = "write" /\ plock[q] = Nobody
        /\ k <= Room(q) /\ k <= Len(arg[p].todo) /\ (k = Len(arg[p].todo) \/ k = Room(q))
        /\ pipe' = [pipe EXCEPT ![q] = Filled(q, arg[p].todo, k)]
        /\ arg' \in [Procs -> Calls] /\ arg'[p].pipe = q
        /\ \A o \in Procs : o # p => arg'[o] = arg[o]
        /\ UNCHANGED <<ref, file, ofile, got, closing, exiting, killed>>
        /\ \/ /\ k = Len(arg[p].todo)
              /\ pc' = [WakeReaders(pc, q) EXCEPT ![p] = "run"]
              /\ result' = [result EXCEPT ![p] = arg[p].n] /\ plock' = plock
           \/ /\ k # Len(arg[p].todo) /\ (~pipe[q].readopen \/ killed[p])
              /\ pc' = [pc EXCEPT ![p] = "run"]
              /\ result' = [result EXCEPT ![p] = -1] /\ plock' = plock
           \/ /\ k = Room(q) /\ pipe[q].readopen /\ ~killed[p]
              /\ pc' = [WakeReaders(pc, q) EXCEPT ![p] = "writeTested"]
              /\ plock' = [plock EXCEPT ![q] = p] /\ result' = result
  BY pipewriteIs
<1>2. /\ pc' \in [Procs -> Points] /\ result' \in [Procs -> Int] /\ plock' \in [Pipes -> Procs \cup {Nobody}]
      /\ \A o \in Procs : o # p =>
           pc'[o] = pc[o] \/ (pc[o] = "readSleeps" /\ arg[o].pipe = q /\ pc'[o] = "read")
      /\ \/ pc'[p] = "run" /\ plock' = plock
         \/ pc'[p] = "writeTested" /\ plock' = [plock EXCEPT ![q] = p] /\ k = Room(q) /\ pipe[q].readopen
      /\ \/ killed[p] \/ ~pipe[q].readopen
         \/ \A o \in Procs : o # p => ~(pc'[o] = "readSleeps" /\ arg[o].pipe = q)
  <2>1. "run" \in Points /\ "read" \in Points /\ "writeTested" \in Points /\ arg[p].n \in Int
    BY CallIs DEF Points
  <2>2. CASE /\ pc' = [WakeReaders(pc, q) EXCEPT ![p] = "run"]
             /\ result' = [result EXCEPT ![p] = arg[p].n] /\ plock' = plock
    <3>1. /\ pc' \in [Procs -> Points] /\ pc'[p] = "run"
          /\ \A o \in Procs : o # p =>
               pc'[o] = IF pc[o] = "readSleeps" /\ arg[o].pipe = q THEN "read" ELSE pc[o]
      BY <2>1, <2>2 DEF WakeReaders, Woken, PipeTypeOK
    <3>2. result' \in [Procs -> Int] /\ plock' \in [Pipes -> Procs \cup {Nobody}]
      BY <2>1, <2>2 DEF PipeTypeOK
    <3> QED BY <2>2, <3>1, <3>2
  <2>3. CASE /\ ~pipe[q].readopen \/ killed[p]
             /\ pc' = [pc EXCEPT ![p] = "run"]
             /\ result' = [result EXCEPT ![p] = -1] /\ plock' = plock
    <3>1. /\ pc' \in [Procs -> Points] /\ pc'[p] = "run" /\ \A o \in Procs : o # p => pc'[o] = pc[o]
      BY <2>1, <2>3 DEF PipeTypeOK
    <3>2. result' \in [Procs -> Int] /\ plock' \in [Pipes -> Procs \cup {Nobody}]
      BY <2>3 DEF PipeTypeOK
    <3> QED BY <2>3, <3>1, <3>2
  <2>4. CASE /\ k = Room(q) /\ pipe[q].readopen
             /\ pc' = [WakeReaders(pc, q) EXCEPT ![p] = "writeTested"]
             /\ plock' = [plock EXCEPT ![q] = p] /\ result' = result
    <3>1. /\ pc' \in [Procs -> Points] /\ pc'[p] = "writeTested"
          /\ \A o \in Procs : o # p =>
               pc'[o] = IF pc[o] = "readSleeps" /\ arg[o].pipe = q THEN "read" ELSE pc[o]
      BY <2>1, <2>4 DEF WakeReaders, Woken, PipeTypeOK
    <3>2. result' \in [Procs -> Int] /\ plock' \in [Pipes -> Procs \cup {Nobody}]
      BY <2>4 DEF PipeTypeOK
    <3> QED BY <2>4, <3>1, <3>2
  <2> QED BY <1>1, <2>2, <2>3, <2>4
<1>3. PICK s \in Seq(Byte) : s = arg[p].todo
  BY CallIs
<1>4. /\ pipe' \in [Pipes -> Structs]
      /\ \A x \in Pipes : x # q => pipe'[x] = pipe[x]
      /\ pipe'[q].live = pipe[q].live /\ pipe'[q].nread = pipe[q].nread
      /\ pipe'[q].readopen = pipe[q].readopen /\ pipe'[q].writeopen = pipe[q].writeopen
      /\ Count(q)' = Count(q) + k
  <2>1. pipe' = [pipe EXCEPT ![q] = Filled(q, s, k)] /\ k <= Len(s) /\ k <= Room(q)
        /\ Count(q) <= PIPESIZE
    BY <1>1, <1>3
  <2> QED BY <2>1, FilledIs
<1>5. PipeTypeOK'
  BY <1>1, <1>2, <1>4 DEF PipeTypeOK, Calls, Structs
<1>6. \A o \in Procs : arg[o].pipe = q => pc[o] \notin Tested
  BY <1>1, NobodyTested
<1>7. LockHeldToSleep'
  <2> SUFFICES ASSUME NEW o \in Procs, NEW x \in Pipes
      PROVE plock'[x] = o <=> pc'[o] \in {"writeTested", "readTested"} /\ arg'[o].pipe = x
    BY DEF LockHeldToSleep
  <2>1. plock[x] = o <=> pc[o] \in {"writeTested", "readTested"} /\ arg[o].pipe = x
    BY DEF LockHeldToSleep
  <2>2. o # p => (pc'[o] \in {"writeTested", "readTested"} <=> pc[o] \in {"writeTested", "readTested"})
                  /\ arg'[o] = arg[o]
    BY <1>1, <1>2
  <2>3. CASE pc'[p] = "run" /\ plock' = plock
    BY <1>1, <2>1, <2>2, <2>3
  <2>4. CASE pc'[p] = "writeTested" /\ plock' = [plock EXCEPT ![q] = p]
    <3>1. plock'[x] = IF x = q THEN p ELSE plock[x]
      BY <2>4 DEF PipeTypeOK
    <3>2. o # p /\ x = q => ~(pc[o] \in {"writeTested", "readTested"} /\ arg[o].pipe = x)
      BY <1>6 DEF Tested
    <3> QED BY <1>1, <2>1, <2>2, <2>4, <3>1, <3>2
  <2> QED BY <1>2, <2>3, <2>4
<1>8. CallsHaveFiles'
  <2>1. \A o \in Procs : arg'[o].pipe = arg[o].pipe
    BY <1>1
  <2> QED BY <1>1, <1>2, <2>1, CallsStay DEF InCalls, Writing, Reading
<1>9. SleepersWait'
  <2> SUFFICES ASSUME NEW o \in Procs
      PROVE /\ pc'[o] \in ToRead => /\ (Count(arg[o].pipe) = 0)' \/ \E x \in Procs : killed'[x]
                                    /\ pipe'[arg'[o].pipe].writeopen
            /\ pc'[o] \in ToWrite => (Room(arg[o].pipe) = 0)' /\ pipe'[arg'[o].pipe].readopen
    BY DEF SleepersWait, ToRead, ToWrite
  <2>1. CASE o = p
    <3>1. CASE pc'[p] = "run"
      BY <2>1, <3>1 DEF ToRead, ToWrite
    <3>2. CASE pc'[p] = "writeTested" /\ k = Room(q) /\ pipe[q].readopen
      <4>1. PICK n \in Nat : n = Count(q) /\ Room(q) = PIPESIZE - n
        BY CountIs
      <4>2. n + k = PIPESIZE
        BY <3>2, <4>1, Constants
      <4>3. Count(q)' = PIPESIZE
        BY <1>4, <4>1, <4>2
      <4>4. Room(q)' = 0
        BY <4>3, Constants DEF Room
      <4>5. arg'[o].pipe = q /\ pipe'[q].readopen
        BY <1>1, <1>4, <2>1, <3>2
      <4>6. Room(arg[o].pipe)' = Room(q)'
        BY <4>5 DEF Room, Count
      <4> QED BY <2>1, <3>2, <4>4, <4>5, <4>6 DEF ToRead, ToWrite
    <3> QED BY <1>2, <3>1, <3>2
  <2>2. CASE o # p
    <3> SUFFICES ASSUME pc'[o] \in ToRead \cup ToWrite
        PROVE /\ pc'[o] \in ToRead => /\ (Count(arg[o].pipe) = 0)' \/ \E x \in Procs : killed'[x]
                                      /\ pipe'[arg'[o].pipe].writeopen
              /\ pc'[o] \in ToWrite => (Room(arg[o].pipe) = 0)' /\ pipe'[arg'[o].pipe].readopen
      OBVIOUS
    <3>1. pc'[o] = pc[o] /\ arg'[o] = arg[o]
      BY <1>1, <1>2, <2>2 DEF ToRead, ToWrite
    <3>2. PICK x \in Pipes : x = arg[o].pipe
      BY <3>1 DEF CallsHaveFiles, ToRead, ToWrite, Reading, Writing
    <3>3. /\ Count(arg[o].pipe)' = Count(x)' /\ Room(arg[o].pipe)' = Room(x)'
          /\ Count(arg[o].pipe) = Count(x) /\ Room(arg[o].pipe) = Room(x)
      BY <3>1, <3>2 DEF Count, Room
    <3>4. /\ pc[o] \in ToRead => /\ Count(x) = 0 \/ \E y \in Procs : killed[y]
                                 /\ pipe[x].writeopen
          /\ pc[o] \in ToWrite => Room(x) = 0 /\ pipe[x].readopen
      BY <3>2, <3>3 DEF SleepersWait, ToRead, ToWrite
    <3>5. CASE x # q
      <4>1. pipe'[x] = pipe[x]
        BY <1>4, <3>5
      <4>2. Count(x)' = Count(x) /\ Room(x)' = Room(x)
        BY <4>1, CountKeeps
      <4> QED BY <1>1, <3>1, <3>2, <3>3, <3>4, <4>1, <4>2
    <3>6. CASE x = q
      <4>1. CASE pc[o] = "readSleeps"
        <5>1. pipe[q].readopen
          BY <3>2, <3>6, <4>1, CallersEndIsOpen DEF Reading
        <5>2. killed[p]
          BY <1>2, <2>2, <3>1, <3>2, <3>6, <4>1, <5>1
        <5>3. killed'[p] /\ pipe'[q].writeopen
          BY <1>1, <1>4, <3>4, <3>6, <4>1, <5>2 DEF ToRead
        <5> QED BY <3>1, <3>2, <3>6, <4>1, <5>3 DEF ToWrite
      <4>2. CASE pc[o] = "writeSleeps"
        <5>1. Room(q) = 0 /\ pipe[q].readopen
          BY <3>4, <3>6, <4>2 DEF ToWrite
        <5>2. k = 0
          BY <1>1, <5>1
        <5>3. PICK n \in Nat : n = Count(q)
          BY CountIs
        <5>4. Count(q)' = Count(q)
          BY <1>4, <5>2, <5>3
        <5>5. Room(q)' = 0
          BY <5>1, <5>4 DEF Room
        <5> QED BY <1>4, <3>1, <3>2, <3>3, <3>6, <4>2, <5>1, <5>5 DEF ToRead
      <4>3. pc[o] \notin Tested
        BY <1>6, <3>2, <3>6
      <4> QED BY <3>1, <4>1, <4>2, <4>3 DEF ToRead, ToWrite, Tested
    <3> QED BY <3>5, <3>6
  <2> QED BY <2>1, <2>2
<1>10. ClosingMatchesCalls'
  BY <1>1, <1>2, Z3T(30) DEF ClosingMatchesCalls, OpenFDs, FreeFDs
<1>11. RefIsExact'
  BY <1>1, RefsStay
<1>12. EndsHaveOneFile'
  <2>1. \A x \in Pipes : /\ pipe'[x].live = pipe[x].live
                         /\ pipe'[x].readopen = pipe[x].readopen
                         /\ pipe'[x].writeopen = pipe[x].writeopen
    BY <1>4
  <2>2. \A o \in Procs : /\ pc'[o] = "pipeclose" <=> pc[o] = "pipeclose"
                         /\ pc[o] = "pipeclose" => arg'[o].pipe = arg[o].pipe
    BY <1>1, <1>2
  <2> QED BY <1>1, <2>1, <2>2, EndsStay
<1>13. \A x \in Pipes : Count(x)' <= PIPESIZE
  <2> TAKE x \in Pipes
  <2>1. CASE x = q
    <3>1. PICK n \in Nat : n = Count(q) /\ Room(q) = PIPESIZE - n
      BY CountIs
    <3> QED BY <1>1, <1>4, <2>1, <3>1, Constants
  <2>2. CASE x # q
    BY <1>4, <2>2, CountKeeps
  <2> QED BY <2>1, <2>2
<1> QED BY <1>5, <1>7, <1>8, <1>9, <1>10, <1>11, <1>12, <1>13

\* The structure of a pipe after k bytes have left it.
LEMMA DrainedIs ==
  ASSUME PipeTypeOK, NEW q \in Pipes, NEW k \in Nat, k <= Count(q),
         pipe' = [pipe EXCEPT ![q].nread = (@ + k) % WORD]
  PROVE  /\ pipe' \in [Pipes -> Structs]
         /\ \A x \in Pipes : x # q => pipe'[x] = pipe[x]
         /\ pipe'[q].live = pipe[q].live
         /\ pipe'[q].readopen = pipe[q].readopen /\ pipe'[q].writeopen = pipe[q].writeopen
         /\ Count(q)' = Count(q) - k
         /\ Queue(q) = SubSeq(Queue(q), 1, k) \o Queue(q)'
<1>1. PICK a \in 0 .. WORD - 1, b \in 0 .. WORD - 1, data \in Slots(PIPESIZE, Byte) :
        a = pipe[q].nread /\ b = pipe[q].nwrite /\ data = pipe[q].data
  BY PipeIs
<1>2. PICK n \in Nat : n = Count(q)
  BY CountIs
<1>3. PICK m \in Nat : m = n - k
  BY <1>2
<1>4. n = Dist(WORD, a, b)
  BY <1>1, <1>2, CountIs
<1>5. PICK c : c = (a + k) % WORD
  OBVIOUS
<1>6. c \in 0 .. WORD - 1 /\ Dist(WORD, c, b) = m
  <2>1. k <= Dist(WORD, a, b)
    BY <1>2, <1>4
  <2>2. c \in 0 .. WORD - 1 /\ Dist(WORD, c, b) = Dist(WORD, a, b) - k
    BY <2>1, <1>5, Constants, DistShrinks
  <2> QED BY <1>3, <1>4, <2>2
<1>7. PICK g \in Structs : g = pipe[q]
  BY DEF PipeTypeOK, Structs
<1>8. PICK h : h = [g EXCEPT !.nread = c]
  OBVIOUS
<1>9. /\ h \in Structs /\ h.live = g.live /\ h.nread = c /\ h.nwrite = g.nwrite /\ h.data = g.data
      /\ h.readopen = g.readopen /\ h.writeopen = g.writeopen
  BY <1>6, <1>8 DEF Structs
<1>10. pipe' = [pipe EXCEPT ![q] = h]
  <2>1. pipe \in [Pipes -> Structs]
    BY DEF PipeTypeOK, Structs
  <2> QED BY <1>1, <1>5, <1>7, <1>8, <2>1
<1>11. /\ pipe' \in [Pipes -> Structs] /\ \A x \in Pipes : x # q => pipe'[x] = pipe[x]
       /\ pipe'[q] = h
  BY <1>9, <1>10 DEF PipeTypeOK, Structs
<1>12. Count(q)' = m
  BY <1>1, <1>6, <1>7, <1>9, <1>11 DEF Count, Dist
<1>13. Queue(q)' = Ring(data, PIPESIZE, c, m)
  <2>1. pipe'[q].nread = c /\ pipe'[q].data = data
    BY <1>1, <1>7, <1>9, <1>11
  <2> QED BY <1>12, <2>1 DEF Queue, Ring, Slot
<1>14. PICK d \in Int : d = a + k
  BY Constants
<1>15. a \in Int /\ c \in Int /\ k \in 0 .. n
  BY <1>2, <1>6, Constants
<1>16. Ring(data, PIPESIZE, c, m) = Ring(data, PIPESIZE, d, m)
  <2>1. c = d % WORD
    BY <1>5, <1>14
  <2> QED BY <1>15, <2>1, Constants, RingWraps
<1>17. Ring(data, PIPESIZE, a, n) = Ring(data, PIPESIZE, a, k) \o Ring(data, PIPESIZE, d, m)
  <2>1. IsSum(d, a, k) /\ IsSum(n, k, m)
    BY <1>3, <1>14 DEF IsSum
  <2>2. PIPESIZE \in Nat \ {0}
    BY Constants
  <2> QED BY ONLY <1>15, <2>1, <2>2, RingSplits, data \in Slots(PIPESIZE, Byte),
                  n \in Nat, k \in Nat, m \in Nat, d \in Int, Z3
<1>18. SubSeq(Ring(data, PIPESIZE, a, n), 1, k) = Ring(data, PIPESIZE, a, k)
  <2>1. PIPESIZE \in Nat \ {0}
    BY Constants
  <2> QED BY ONLY <1>15, <2>1, RingCut, data \in Slots(PIPESIZE, Byte), n \in Nat
<1>19. Queue(q) = Ring(data, PIPESIZE, a, n)
  BY <1>1, <1>2, CountIs
<1> QED BY <1>2, <1>3, <1>7, <1>9, <1>11, <1>12, <1>13, <1>16, <1>17, <1>18, <1>19

LEMMA pipereadIs ==
  ASSUME PipeInv, NEW p \in Procs, piperead(p)
  PROVE  \E q \in Pipes, k \in Nat :
           /\ q = arg[p].pipe /\ pc[p] = "read" /\ plock[q] = Nobody
           /\ k <= Count(q) /\ (Count(q) > 0 /\ arg[p].n > 0 => k > 0)
           /\ UNCHANGED <<ref, file, ofile, arg, closing, exiting, killed>>
           /\ \/ /\ pipe' = [pipe EXCEPT ![q].nread = (@ + k) % WORD]
                 /\ pc' = [WakeWriters(pc, q) EXCEPT ![p] = "run"]
                 /\ got' = [got EXCEPT ![p] = SubSeq(Queue(q), 1, k)]
                 /\ result' = [result EXCEPT ![p] = k] /\ plock' = plock
                 /\ k = 0 => Count(q) = 0 \/ arg[p].n = 0
              \/ /\ Count(q) = 0 /\ killed[p]
                 /\ pc' = [pc EXCEPT ![p] = "run"]
                 /\ result' = [result EXCEPT ![p] = -1] /\ UNCHANGED <<pipe, plock, got>>
              \/ /\ Count(q) = 0 /\ pipe[q].writeopen /\ ~killed[p]
                 /\ pc' = [pc EXCEPT ![p] = "readTested"]
                 /\ plock' = [plock EXCEPT ![q] = p] /\ UNCHANGED <<pipe, got, result>>
<1> USE DEF PipeInv
<1>1. pc[p] = "read"
  BY DEF piperead
<1>2. PICK q \in Pipes : q = arg[p].pipe
  BY <1>1 DEF CallsHaveFiles, Reading
<1>3. PICK n \in Nat, h \in Nat : n = arg[p].n /\ h = Count(q)
  BY CallIs, CountIs
<1>4. PICK k \in Nat : k = Min({h, n}) /\ k = IF h <= n THEN h ELSE n
  BY LesserOf
<1>5. /\ plock[q] = Nobody
      /\ IF h > 0 \/ ~pipe[q].writeopen
         THEN /\ got'  = [got EXCEPT ![p] = SubSeq(Queue(q), 1, k)]
              /\ pipe' = [pipe EXCEPT ![q].nread = (@ + k) % WORD]
              /\ pc'   = [WakeWriters(pc, q) EXCEPT ![p] = "run"]
              /\ result' = [result EXCEPT ![p] = k]
              /\ UNCHANGED plock
         ELSE IF killed[p] THEN Return(p, -1) /\ UNCHANGED <<pipe, plock, got>>
         ELSE /\ pc' = [pc EXCEPT ![p] = "readTested"]
              /\ plock' = [plock EXCEPT ![q] = p]
              /\ UNCHANGED <<pipe, got, result>>
      /\ UNCHANGED <<ref, file, ofile, arg, closing, exiting, killed>>
  BY <1>2, <1>3, <1>4 DEF piperead, ReadWakes
<1>6. k <= h /\ (h > 0 /\ n > 0 => k > 0) /\ (k = 0 => h = 0 \/ n = 0)
  BY <1>4
<1>7. ~(h > 0) => h = 0
  OBVIOUS
<1> WITNESS q \in Pipes, k \in Nat
<1> QED BY <1>1, <1>2, <1>3, <1>5, <1>6, <1>7 DEF Return

LEMMA pipereadInv ==
  ASSUME PipeInv, NEW p \in Procs, piperead(p)
  PROVE  PipeInv'
<1> USE DEF PipeInv
<1>1. PICK q \in Pipes, k \in Nat :
        /\ q = arg[p].pipe /\ pc[p] = "read" /\ plock[q] = Nobody
        /\ k <= Count(q) /\ (Count(q) > 0 /\ arg[p].n > 0 => k > 0)
        /\ UNCHANGED <<ref, file, ofile, arg, closing, exiting, killed>>
        /\ \/ /\ pipe' = [pipe EXCEPT ![q].nread = (@ + k) % WORD]
              /\ pc' = [WakeWriters(pc, q) EXCEPT ![p] = "run"]
              /\ got' = [got EXCEPT ![p] = SubSeq(Queue(q), 1, k)]
              /\ result' = [result EXCEPT ![p] = k] /\ plock' = plock
              /\ k = 0 => Count(q) = 0 \/ arg[p].n = 0
           \/ /\ Count(q) = 0 /\ killed[p]
              /\ pc' = [pc EXCEPT ![p] = "run"]
              /\ result' = [result EXCEPT ![p] = -1] /\ UNCHANGED <<pipe, plock, got>>
           \/ /\ Count(q) = 0 /\ pipe[q].writeopen /\ ~killed[p]
              /\ pc' = [pc EXCEPT ![p] = "readTested"]
              /\ plock' = [plock EXCEPT ![q] = p] /\ UNCHANGED <<pipe, got, result>>
  BY pipereadIs, Zenon
<1>2. PICK n \in Nat : n = Count(q) /\ n <= PIPESIZE
  BY CountIs
<1>3. PICK x \in Seq(Byte) : x = SubSeq(Queue(q), 1, k)
  <2>1. PICK s \in Seq(Byte) : s = Queue(q) /\ Len(s) = n
    BY <1>2, CountIs
  <2>2. 1 \in 1 .. Len(s) + 1 /\ k \in 0 .. Len(s) /\ 1 <= k + 1
    BY <1>1, <1>2, <2>1
  <2>3. SubSeq(s, 1, k) \in Seq(Byte)
    BY <2>2, SubSeqIs, SMTT(30)
  <2> QED BY <2>1, <2>3
<1>4. PICK m \in 0 .. n :
        /\ pipe' \in [Pipes -> Structs]
        /\ \A y \in Pipes : y # q => pipe'[y] = pipe[y]
        /\ pipe'[q].live = pipe[q].live
        /\ pipe'[q].readopen = pipe[q].readopen /\ pipe'[q].writeopen = pipe[q].writeopen
        /\ Count(q)' = n - m
        /\ \/ /\ pc' = [WakeWriters(pc, q) EXCEPT ![p] = "run"] /\ plock' = plock
           \/ /\ m = 0 /\ Count(q) = 0
              /\ \/ pc' = [pc EXCEPT ![p] = "run"] /\ plock' = plock
                 \/ /\ pc' = [pc EXCEPT ![p] = "readTested"] /\ pipe[q].writeopen
                    /\ plock' = [plock EXCEPT ![q] = p]
        /\ got' \in [Procs -> Seq(Byte)] /\ result' \in [Procs -> Int]
  <2>1. CASE /\ pipe' = [pipe EXCEPT ![q].nread = (@ + k) % WORD]
             /\ pc' = [WakeWriters(pc, q) EXCEPT ![p] = "run"]
             /\ got' = [got EXCEPT ![p] = SubSeq(Queue(q), 1, k)]
             /\ result' = [result EXCEPT ![p] = k] /\ plock' = plock
    <3>1. /\ pipe' \in [Pipes -> Structs]
          /\ \A y \in Pipes : y # q => pipe'[y] = pipe[y]
          /\ pipe'[q].live = pipe[q].live
          /\ pipe'[q].readopen = pipe[q].readopen /\ pipe'[q].writeopen = pipe[q].writeopen
          /\ Count(q)' = Count(q) - k
      BY <1>1, <2>1, DrainedIs
    <3>2. k \in 0 .. n /\ Count(q)' = n - k
      BY <1>1, <1>2, <3>1
    <3>3. got' \in [Procs -> Seq(Byte)] /\ result' \in [Procs -> Int]
      BY <1>3, <2>1 DEF PipeTypeOK
    <3> QED BY <2>1, <3>1, <3>2, <3>3
  <2>2. ASSUME pipe' = pipe, got' = got, Count(q) = 0, NEW v \in Int,
               result' = [result EXCEPT ![p] = v] \/ result' = result,
               \/ pc' = [pc EXCEPT ![p] = "run"] /\ plock' = plock
               \/ /\ pc' = [pc EXCEPT ![p] = "readTested"] /\ pipe[q].writeopen
                  /\ plock' = [plock EXCEPT ![q] = p]
        PROVE  /\ pipe' \in [Pipes -> Structs]
               /\ \A y \in Pipes : y # q => pipe'[y] = pipe[y]
               /\ pipe'[q].live = pipe[q].live
               /\ pipe'[q].readopen = pipe[q].readopen /\ pipe'[q].writeopen = pipe[q].writeopen
               /\ Count(q)' = n - 0 /\ 0 \in 0 .. n
               /\ got' \in [Procs -> Seq(Byte)] /\ result' \in [Procs -> Int]
    <3>1. Count(q)' = Count(q)
      BY <2>2, CountKeeps
    <3> QED BY <1>2, <2>2, <3>1, SMTT(30) DEF PipeTypeOK, Structs
  <2>3. CASE /\ Count(q) = 0 /\ killed[p]
             /\ pc' = [pc EXCEPT ![p] = "run"]
             /\ result' = [result EXCEPT ![p] = -1] /\ UNCHANGED <<pipe, plock, got>>
    <3>1. -1 \in Int
      OBVIOUS
    <3> QED BY <2>2, <2>3, <3>1
  <2>4. CASE /\ Count(q) = 0 /\ pipe[q].writeopen /\ ~killed[p]
             /\ pc' = [pc EXCEPT ![p] = "readTested"]
             /\ plock' = [plock EXCEPT ![q] = p] /\ UNCHANGED <<pipe, got, result>>
    <3>1. 0 \in Int
      OBVIOUS
    <3> QED BY <2>2, <2>4, <3>1
  <2> QED BY <1>1, <2>1, <2>3, <2>4
<1>5. /\ pc' \in [Procs -> Points] /\ plock' \in [Pipes -> Procs \cup {Nobody}]
      /\ \A o \in Procs : o # p =>
           pc'[o] = pc[o] \/ (pc[o] = "writeSleeps" /\ arg[o].pipe = q /\ pc'[o] = "write")
      /\ \/ pc'[p] = "run" /\ plock' = plock
         \/ pc'[p] = "readTested" /\ plock' = [plock EXCEPT ![q] = p] /\ Count(q)' = 0 /\ pipe[q].writeopen
      /\ \/ n = 0 /\ m = 0
         \/ \A o \in Procs : o # p => ~(pc'[o] = "writeSleeps" /\ arg[o].pipe = q)
  <2>1. "run" \in Points /\ "write" \in Points /\ "readTested" \in Points
    BY DEF Points
  <2>2. CASE pc' = [WakeWriters(pc, q) EXCEPT ![p] = "run"] /\ plock' = plock
    <3>1. /\ pc' \in [Procs -> Points] /\ pc'[p] = "run"
          /\ \A o \in Procs : o # p =>
               pc'[o] = IF pc[o] = "writeSleeps" /\ arg[o].pipe = q THEN "write" ELSE pc[o]
      BY <2>1, <2>2 DEF WakeWriters, Woken, PipeTypeOK
    <3> QED BY <2>2, <3>1 DEF PipeTypeOK
  <2>3. CASE m = 0 /\ Count(q) = 0 /\ pc' = [pc EXCEPT ![p] = "run"] /\ plock' = plock
    <3>1. /\ pc' \in [Procs -> Points] /\ pc'[p] = "run" /\ \A o \in Procs : o # p => pc'[o] = pc[o]
      BY <2>1, <2>3 DEF PipeTypeOK
    <3> QED BY <1>2, <2>3, <3>1 DEF PipeTypeOK
  <2>4. CASE /\ m = 0 /\ Count(q) = 0 /\ pc' = [pc EXCEPT ![p] = "readTested"] /\ pipe[q].writeopen
             /\ plock' = [plock EXCEPT ![q] = p]
    <3>1. /\ pc' \in [Procs -> Points] /\ pc'[p] = "readTested"
          /\ \A o \in Procs : o # p => pc'[o] = pc[o]
      BY <2>1, <2>4 DEF PipeTypeOK
    <3>2. plock' \in [Pipes -> Procs \cup {Nobody}]
      BY <2>4 DEF PipeTypeOK
    <3>3. n = 0 /\ Count(q)' = 0
      BY <1>2, <1>4, <2>4
    <3> QED BY <2>4, <3>1, <3>2, <3>3
  <2> QED BY <1>4, <2>2, <2>3, <2>4
<1>6. PipeTypeOK'
  BY <1>1, <1>4, <1>5 DEF PipeTypeOK, Structs
<1>7. \A o \in Procs : arg[o].pipe = q => pc[o] \notin Tested
  BY <1>1, NobodyTested
<1>8. LockHeldToSleep'
  <2> SUFFICES ASSUME NEW o \in Procs, NEW y \in Pipes
      PROVE plock'[y] = o <=> pc'[o] \in {"writeTested", "readTested"} /\ arg'[o].pipe = y
    BY DEF LockHeldToSleep
  <2>1. plock[y] = o <=> pc[o] \in {"writeTested", "readTested"} /\ arg[o].pipe = y
    BY DEF LockHeldToSleep
  <2>2. o # p => (pc'[o] \in {"writeTested", "readTested"} <=> pc[o] \in {"writeTested", "readTested"})
    BY <1>5
  <2>3. CASE pc'[p] = "run" /\ plock' = plock
    BY <1>1, <2>1, <2>2, <2>3
  <2>4. CASE pc'[p] = "readTested" /\ plock' = [plock EXCEPT ![q] = p]
    <3>1. plock'[y] = IF y = q THEN p ELSE plock[y]
      BY <2>4 DEF PipeTypeOK
    <3>2. o # p /\ y = q => ~(pc[o] \in {"writeTested", "readTested"} /\ arg[o].pipe = y)
      BY <1>7 DEF Tested
    <3> QED BY <1>1, <2>1, <2>2, <2>4, <3>1, <3>2
  <2> QED BY <1>5, <2>3, <2>4
<1>9. CallsHaveFiles'
  BY <1>1, <1>5, CallsStay DEF InCalls, Writing, Reading
<1>10. SleepersWait'
  <2> SUFFICES ASSUME NEW o \in Procs
      PROVE /\ pc'[o] \in ToRead => /\ (Count(arg[o].pipe) = 0)' \/ \E y \in Procs : killed'[y]
                                    /\ pipe'[arg'[o].pipe].writeopen
            /\ pc'[o] \in ToWrite => (Room(arg[o].pipe) = 0)' /\ pipe'[arg'[o].pipe].readopen
    BY DEF SleepersWait, ToRead, ToWrite
  <2>1. CASE o = p
    <3>1. CASE pc'[p] = "run"
      BY <2>1, <3>1 DEF ToRead, ToWrite
    <3>2. CASE pc'[p] = "readTested" /\ Count(q)' = 0 /\ pipe[q].writeopen
      <4>1. arg'[o].pipe = q /\ pipe'[q].writeopen
        BY <1>1, <1>4, <2>1, <3>2
      <4>2. Count(arg[o].pipe)' = Count(q)'
        BY <4>1 DEF Count
      <4> QED BY <2>1, <3>2, <4>1, <4>2 DEF ToRead, ToWrite
    <3> QED BY <1>5, <3>1, <3>2
  <2>2. CASE o # p
    <3> SUFFICES ASSUME pc'[o] \in ToRead \cup ToWrite
        PROVE /\ pc'[o] \in ToRead => /\ (Count(arg[o].pipe) = 0)' \/ \E y \in Procs : killed'[y]
                                      /\ pipe'[arg'[o].pipe].writeopen
              /\ pc'[o] \in ToWrite => (Room(arg[o].pipe) = 0)' /\ pipe'[arg'[o].pipe].readopen
      OBVIOUS
    <3>1. pc'[o] = pc[o] /\ arg'[o] = arg[o]
      BY <1>1, <1>5, <2>2 DEF ToRead, ToWrite
    <3>2. PICK z \in Pipes : z = arg[o].pipe
      BY <3>1 DEF CallsHaveFiles, ToRead, ToWrite, Reading, Writing
    <3>3. /\ Count(arg[o].pipe)' = Count(z)' /\ Room(arg[o].pipe)' = Room(z)'
          /\ Count(arg[o].pipe) = Count(z) /\ Room(arg[o].pipe) = Room(z)
      BY <3>1, <3>2 DEF Count, Room
    <3>4. /\ pc[o] \in ToRead => /\ Count(z) = 0 \/ \E y \in Procs : killed[y]
                                 /\ pipe[z].writeopen
          /\ pc[o] \in ToWrite => Room(z) = 0 /\ pipe[z].readopen
      BY <3>2, <3>3 DEF SleepersWait, ToRead, ToWrite
    <3>5. CASE z # q
      <4>1. pipe'[z] = pipe[z]
        BY <1>4, <3>5
      <4>2. Count(z)' = Count(z) /\ Room(z)' = Room(z)
        BY <4>1, CountKeeps
      <4> QED BY <1>1, <3>1, <3>2, <3>3, <3>4, <4>1, <4>2
    <3>6. CASE z = q
      <4>1. CASE pc[o] = "readSleeps"
        <5>1. Count(q) = 0 => Count(q)' = 0
          <6> SUFFICES ASSUME Count(q) = 0 PROVE Count(q)' = 0
            OBVIOUS
          <6>1. n = 0
            BY <1>2
          <6>2. m = 0
            BY <6>1
          <6> QED BY <1>4, <6>1, <6>2
        <5> QED BY <1>1, <1>4, <3>1, <3>2, <3>3, <3>4, <3>6, <4>1, <5>1 DEF ToRead, ToWrite
      <4>2. CASE pc[o] = "writeSleeps"
        <5>1. n = 0
          BY <1>5, <2>2, <3>1, <3>2, <3>6, <4>2
        <5>2. Room(q) = PIPESIZE - 0
          BY <1>2, <5>1 DEF Room
        <5>3. Room(q) # 0
          BY <5>2, Constants
        <5> QED BY <3>4, <3>6, <4>2, <5>3 DEF ToWrite
      <4>3. pc[o] \notin Tested
        BY <1>7, <3>2, <3>6
      <4> QED BY <3>1, <4>1, <4>2, <4>3 DEF ToRead, ToWrite, Tested
    <3> QED BY <3>5, <3>6
  <2> QED BY <2>1, <2>2
<1>11. ClosingMatchesCalls'
  BY <1>1, <1>5 DEF ClosingMatchesCalls, OpenFDs, FreeFDs
<1>12. RefIsExact'
  BY <1>1, RefsStay
<1>13. EndsHaveOneFile'
  <2>1. \A y \in Pipes : /\ pipe'[y].live = pipe[y].live
                         /\ pipe'[y].readopen = pipe[y].readopen
                         /\ pipe'[y].writeopen = pipe[y].writeopen
    BY <1>4
  <2>2. \A o \in Procs : /\ pc'[o] = "pipeclose" <=> pc[o] = "pipeclose"
                         /\ pc[o] = "pipeclose" => arg'[o].pipe = arg[o].pipe
    BY <1>1, <1>5
  <2> QED BY <1>1, <2>1, <2>2, EndsStay
<1>14. \A y \in Pipes : Count(y)' <= PIPESIZE
  <2> TAKE y \in Pipes
  <2>1. CASE y = q
    BY <1>2, <1>4, <2>1, Constants, SMTT(30)
  <2>2. CASE y # q
    BY <1>4, <2>2, CountKeeps
  <2> QED BY <2>1, <2>2
<1> QED BY <1>6, <1>8, <1>9, <1>10, <1>11, <1>12, <1>13, <1>14

\* Nobody works on an end that is being closed.
LEMMA NobodyUsesClosed ==
  ASSUME PipeInv, NEW p \in Procs, NEW q \in Pipes, NEW v \in BOOLEAN, Closes(p, End(q, v)),
         NEW o \in Procs, arg[o].pipe = q
  PROVE  pc[o] \notin (IF v THEN Writing ELSE Reading)
<1> USE DEF PipeInv
<1>1. End(q, v) \in Ends
  BY EndIs
<1>2. \A f \in Files : file[f] # End(q, v)
  BY <1>1 DEF EndsHaveOneFile
<1>3. \A d \in FDs : File(o, d) # End(q, v)
  BY <1>2, EndIs, SMTT(30) DEF File, PipeTypeOK
<1> QED BY <1>3 DEF CallsHaveFiles

LEMMA pipecloseInv ==
  ASSUME PipeInv, NEW p \in Procs, pipeclose(p)
  PROVE  PipeInv'
<1> USE DEF PipeInv
<1>1. pc[p] = "pipeclose"
  BY DEF pipeclose
<1>2. PICK x \in Ends : x = arg[p].pipe
  BY <1>1 DEF CallsHaveFiles
<1>3. PICK q \in Pipes, v \in BOOLEAN : q = x.pipe /\ v = x.writable /\ x = End(q, v)
  BY EndIs
<1>4. PICK g \in Structs : g = pipe[q]
  BY DEF PipeTypeOK, Structs
<1>5. PICK c : c = IF v THEN [g EXCEPT !.writeopen = FALSE] ELSE [g EXCEPT !.readopen = FALSE]
  OBVIOUS
<1>6. /\ c \in Structs /\ c.data = g.data /\ c.nread = g.nread /\ c.nwrite = g.nwrite
      /\ c.readopen = (g.readopen /\ v) /\ c.writeopen = (g.writeopen /\ ~v)
  BY <1>5 DEF Structs
<1>7. PICK h : h = [c EXCEPT !.live = c.readopen \/ c.writeopen]
  OBVIOUS
<1>8. /\ h \in Structs /\ h.data = g.data /\ h.nread = g.nread /\ h.nwrite = g.nwrite
      /\ h.readopen = (g.readopen /\ v) /\ h.writeopen = (g.writeopen /\ ~v)
      /\ h.live = (h.readopen \/ h.writeopen)
  BY <1>6, <1>7 DEF Structs
<1>9. /\ plock[q] = Nobody /\ pipe' = [pipe EXCEPT ![q] = h]
      /\ pc'  = [ClosedWakes(q, v) EXCEPT ![p] = "close"]
      /\ arg' = [arg EXCEPT ![p] = NoCall]
      /\ UNCHANGED <<plock, ref, file, ofile, got, result, closing, exiting, killed>>
  BY <1>2, <1>3, <1>4, <1>5, <1>7 DEF pipeclose
<1>10. /\ pipe' \in [Pipes -> Structs] /\ pipe'[q] = h
       /\ \A y \in Pipes : y # q => pipe'[y] = pipe[y]
  BY <1>8, <1>9 DEF PipeTypeOK, Structs
<1>11. /\ arg' \in [Procs -> Calls] /\ \A o \in Procs : o # p => arg'[o] = arg[o]
  <2>1. NoCall \in Calls
    BY DEF NoCall, Calls
  <2> QED BY <1>9, <2>1 DEF PipeTypeOK, Calls
<1>12. /\ pc' \in [Procs -> Points] /\ pc'[p] = "close"
       /\ \A o \in Procs : o # p =>
            \/ pc'[o] = pc[o] /\ (arg[o].pipe = q => pc[o] # IF v THEN "readSleeps" ELSE "writeSleeps")
            \/ pc[o] \in {"readSleeps", "writeSleeps"} /\ pc'[o] \in {"read", "write"}
               /\ (pc[o] \in Reading <=> pc'[o] \in Reading)
  <2>1. "read" \in Points /\ "write" \in Points /\ "close" \in Points
    BY DEF Points
  <2>2. CASE v
    <3>1. pc' = [WakeReaders(pc, q) EXCEPT ![p] = "close"]
      BY <1>9, <2>2 DEF ClosedWakes
    <3>2. /\ pc' \in [Procs -> Points] /\ pc'[p] = "close"
          /\ \A o \in Procs : o # p =>
               pc'[o] = IF pc[o] = "readSleeps" /\ arg[o].pipe = q THEN "read" ELSE pc[o]
      BY <2>1, <3>1 DEF WakeReaders, Woken, PipeTypeOK
    <3> QED BY <2>2, <3>2 DEF Reading
  <2>3. CASE ~v
    <3>1. pc' = [WakeWriters(pc, q) EXCEPT ![p] = "close"]
      BY <1>9, <2>3 DEF ClosedWakes
    <3>2. /\ pc' \in [Procs -> Points] /\ pc'[p] = "close"
          /\ \A o \in Procs : o # p =>
               pc'[o] = IF pc[o] = "writeSleeps" /\ arg[o].pipe = q THEN "write" ELSE pc[o]
      BY <2>1, <3>1 DEF WakeWriters, Woken, PipeTypeOK
    <3> QED BY <2>3, <3>2 DEF Reading
  <2> QED BY <2>2, <2>3
<1>13. PipeTypeOK'
  BY <1>9, <1>10, <1>11, <1>12 DEF PipeTypeOK, Calls, Structs
<1>14. \A o \in Procs : arg[o].pipe = q => pc[o] \notin Tested
  BY <1>9, NobodyTested
<1>15. LockHeldToSleep'
  <2>1. \A o \in Procs : \/ pc'[o] = pc[o] /\ arg'[o].pipe = arg[o].pipe
                         \/ pc[o] \notin Tested /\ pc'[o] \notin Tested
    BY <1>1, <1>11, <1>12 DEF Tested
  <2> QED BY <1>9, <2>1, LocksStay
<1>16. CallsHaveFiles'
  <2>1. \A o \in Procs : \/ pc'[o] \notin InCalls
                         \/ /\ arg'[o].pipe = arg[o].pipe /\ ofile'[o] = ofile[o]
                            /\ pc'[o] \in Writing => pc[o] \in Writing
                            /\ pc'[o] \in Reading => pc[o] \in Reading
                            /\ pc'[o] = "pipeclose" => pc[o] = "pipeclose"
    <3> TAKE o \in Procs
    <3>1. CASE o = p
      BY <1>12, <3>1 DEF InCalls, Writing, Reading
    <3>2. CASE o # p
      BY <1>9, <1>11, <1>12, <3>2 DEF InCalls, Writing, Reading
    <3> QED BY <3>1, <3>2
  <2> QED BY <1>9, <2>1, CallsStay
<1>17. \A y \in Pipes : Count(y)' = Count(y) /\ Room(y)' = Room(y)
  <2> TAKE y \in Pipes
  <2>1. pipe'[y].nread = pipe[y].nread /\ pipe'[y].nwrite = pipe[y].nwrite
    BY <1>4, <1>8, <1>10
  <2>2. Count(y)' = Count(y)
    BY <2>1 DEF Count
  <2> QED BY <2>2 DEF Room
<1>18. SleepersWait'
  <2> SUFFICES ASSUME NEW o \in Procs, pc'[o] \in ToRead \cup ToWrite
      PROVE /\ pc'[o] \in ToRead => /\ (Count(arg[o].pipe) = 0)' \/ \E y \in Procs : killed'[y]
                                    /\ pipe'[arg'[o].pipe].writeopen
            /\ pc'[o] \in ToWrite => (Room(arg[o].pipe) = 0)' /\ pipe'[arg'[o].pipe].readopen
    BY DEF SleepersWait, ToRead, ToWrite
  <2>1. o # p /\ pc'[o] = pc[o] /\ arg'[o] = arg[o]
        /\ (arg[o].pipe = q => pc[o] # IF v THEN "readSleeps" ELSE "writeSleeps")
    BY <1>11, <1>12 DEF ToRead, ToWrite
  <2>2. PICK z \in Pipes : z = arg[o].pipe
    BY <2>1 DEF CallsHaveFiles, ToRead, ToWrite, Reading, Writing
  <2>3. /\ Count(arg[o].pipe)' = Count(z) /\ Room(arg[o].pipe)' = Room(z)
        /\ Count(arg[o].pipe) = Count(z) /\ Room(arg[o].pipe) = Room(z)
    <3>1. Count(arg[o].pipe)' = Count(z)' /\ Room(arg[o].pipe)' = Room(z)'
      BY <2>1, <2>2 DEF Count, Room
    <3> QED BY <1>17, <2>2, <3>1
  <2>4. /\ pc[o] \in ToRead => /\ Count(z) = 0 \/ \E y \in Procs : killed[y]
                               /\ pipe[z].writeopen
        /\ pc[o] \in ToWrite => Room(z) = 0 /\ pipe[z].readopen
    BY <2>2, <2>3 DEF SleepersWait, ToRead, ToWrite
  <2>5. z # q
    <3> SUFFICES ASSUME z = q PROVE FALSE
      OBVIOUS
    <3>1. Closes(p, End(q, v))
      BY <1>1, <1>2, <1>3 DEF Closes
    <3>2. pc[o] \notin (IF v THEN Writing ELSE Reading)
      BY <2>2, <3>1, NobodyUsesClosed
    <3>3. pc[o] \notin Tested
      BY <1>14, <2>2
    <3> QED BY <2>1, <2>2, <3>2, <3>3 DEF ToRead, ToWrite, Tested, Writing, Reading
  <2>6. pipe'[z] = pipe[z]
    BY <1>10, <2>5
  <2> QED BY <1>9, <2>1, <2>2, <2>3, <2>4, <2>6
<1>19. ClosingMatchesCalls'
  <2> SUFFICES ASSUME NEW o \in Procs
      PROVE /\ pc'[o] \notin {"descriptors", "close", "pipeclose"} => closing'[o] = <<>>
            /\ pc'[o] = "descriptors" => Len(closing'[o]) = 2
            /\ pc'[o] = "unborn" => OpenFDs(o)' = {}
    BY DEF ClosingMatchesCalls
  <2>1. /\ pc[o] \notin {"descriptors", "close", "pipeclose"} => closing[o] = <<>>
        /\ pc[o] = "descriptors" => Len(closing[o]) = 2
        /\ pc[o] = "unborn" => OpenFDs(o) = {}
    BY DEF ClosingMatchesCalls
  <2>2. OpenFDs(o)' = OpenFDs(o) /\ closing' = closing
    BY <1>9 DEF OpenFDs, FreeFDs
  <2> QED BY <1>12, <2>1, <2>2
<1>20. RefIsExact'
  BY <1>9, RefsStay
<1>21. EndsHaveOneFile'
  <2>1. \A y \in Ends : IsOpen(y)' <=> IsOpen(y) /\ y # x
    <3> TAKE y \in Ends
    <3>1. PICK z \in Pipes, u \in BOOLEAN : z = y.pipe /\ u = y.writable /\ y = End(z, u)
      BY EndIs
    <3>2. y = x <=> z = q /\ u = v
      BY <1>3, <3>1
    <3>3. CASE z = q
      BY <1>4, <1>8, <1>10, <3>1, <3>2, <3>3 DEF IsOpen
    <3>4. CASE z # q
      BY <1>10, <3>1, <3>2, <3>4 DEF IsOpen
    <3> QED BY <3>3, <3>4
  <2>2. \A y \in Ends, o \in Procs : Closes(o, y)' <=> Closes(o, y) /\ o # p
    <3> TAKE y \in Ends, o \in Procs
    <3>1. CASE o = p
      BY <1>12, <3>1 DEF Closes
    <3>2. CASE o # p
      BY <1>11, <1>12, <3>2 DEF Closes
    <3> QED BY <3>1, <3>2
  <2>3. Closes(p, x) /\ \A y \in Ends : Closes(p, y) => y = x
    BY <1>1, <1>2 DEF Closes
  <2>4. (\A f \in Files : file[f] # x) /\ \A o \in Procs : Closes(o, x) => o = p
    BY <2>3 DEF EndsHaveOneFile
  <2>5. \A y \in Ends : IsOpen(y)' <=> (\E f \in Files : file'[f] = y) \/ (\E o \in Procs : Closes(o, y)')
    <3> TAKE y \in Ends
    <3>1. IsOpen(y) <=> (\E f \in Files : file[f] = y) \/ (\E o \in Procs : Closes(o, y))
      BY DEF EndsHaveOneFile
    <3>2. CASE y = x
      BY <1>9, <2>1, <2>2, <2>4, <3>2
    <3>3. CASE y # x
      <4>1. \A o \in Procs : Closes(o, y)' <=> Closes(o, y)
        BY <2>2, <2>3, <3>3
      <4> QED BY <1>9, <2>1, <3>1, <3>3, <4>1
    <3> QED BY <3>2, <3>3
  <2>6. \A y \in Pipes : pipe'[y].live <=> pipe'[y].readopen \/ pipe'[y].writeopen
    <3> TAKE y \in Pipes
    <3>1. CASE y = q
      BY <1>8, <1>10, <3>1
    <3>2. CASE y # q
      BY <1>10, <3>2 DEF EndsHaveOneFile
    <3> QED BY <3>1, <3>2
  <2>7. \A y \in Ends, o \in Procs : Closes(o, y)' =>
          /\ \A f \in Files : file'[f] # y
          /\ \A u \in Procs : Closes(u, y)' => u = o
    BY <1>9, <2>2 DEF EndsHaveOneFile
  <2>8. (\A f \in Files : ref'[f] = 0 <=> file'[f] = NoPipe)
        /\ \A f, g1 \in Files : file'[f] \in Ends /\ file'[f] = file'[g1] => f = g1
    BY <1>9 DEF EndsHaveOneFile
  <2> QED BY <2>5, <2>6, <2>7, <2>8 DEF EndsHaveOneFile
<1>22. \A y \in Pipes : Count(y)' <= PIPESIZE
  BY <1>17
<1> QED BY <1>13, <1>15, <1>16, <1>18, <1>19, <1>20, <1>21, <1>22

-------------------------------------------------------------------------------
(* Descriptors come and go. *)

\* What a process preserves that is in no call on a pipe, before and after its step.
LEMMA QuietStep ==
  ASSUME PipeInv, NEW p \in Procs, pc[p] \notin InCalls, pc'[p] \notin InCalls,
         \A o \in Procs : o # p => pc'[o] = pc[o] /\ ofile'[o] = ofile[o],
         UNCHANGED <<pipe, plock, arg, file, killed>>
  PROVE  /\ LockHeldToSleep' /\ CallsHaveFiles' /\ SleepersWait'
         /\ \A q \in Pipes : Count(q)' <= PIPESIZE
         /\ (\A f \in Files : ref[f] = 0 <=> ref'[f] = 0) => EndsHaveOneFile'
<1> USE DEF PipeInv
<1>1. \A o \in Procs : \/ pc'[o] = pc[o] /\ arg'[o].pipe = arg[o].pipe
                       \/ pc[o] \notin Tested /\ pc'[o] \notin Tested
  BY DEF Tested, InCalls, Writing, Reading
<1>2. \A o \in Procs : \/ pc'[o] \notin InCalls
                       \/ /\ arg'[o].pipe = arg[o].pipe /\ ofile'[o] = ofile[o]
                          /\ pc'[o] \in Writing => pc[o] \in Writing
                          /\ pc'[o] \in Reading => pc[o] \in Reading
                          /\ pc'[o] = "pipeclose" => pc[o] = "pipeclose"
  OBVIOUS
<1>3. \A o \in Procs : \/ pc'[o] \notin ToRead \cup ToWrite
                       \/ /\ arg'[o].pipe = arg[o].pipe
                          /\ pc[o] \in ToRead <=> pc'[o] \in ToRead
                          /\ pc[o] \in ToWrite <=> pc'[o] \in ToWrite
  BY DEF ToRead, ToWrite, InCalls, Writing, Reading
<1>4. \A o \in Procs : /\ pc'[o] = "pipeclose" <=> pc[o] = "pipeclose"
                       /\ pc[o] = "pipeclose" => arg'[o].pipe = arg[o].pipe
  BY DEF InCalls
<1>5. LockHeldToSleep'
  BY <1>1, LocksStay
<1>6. CallsHaveFiles'
  BY <1>2, CallsStay
<1>7. SleepersWait'
  BY <1>3, WaitersStay
<1>8. (\A f \in Files : ref[f] = 0 <=> ref'[f] = 0) => EndsHaveOneFile'
  BY <1>4, EndsStay
<1>9. \A q \in Pipes : Count(q)' <= PIPESIZE
  BY CountsStay
<1> QED BY <1>5, <1>6, <1>7, <1>8, <1>9

\* A descriptor gets another file, and the files s are to be closed.
LEMMA RefsMove ==
  ASSUME NEW o \in OFiles, NEW c \in Closings, NEW p \in Procs, NEW d \in FDs,
         NEW x, NEW s, c[p] = <<>>, NEW o2, Gives(o, o2, p, d, x),
         NEW c2, Queues(c, c2, p, s), NEW f \in Files
  PROVE  Refs(o2, c2, f) = Refs(o, c, f) - Is(o[p][d], f) + Is(x, f)
           + IsAt(s, 1, f) + IsAt(s, 2, f)
<1>1. /\ Cardinality(Holding(o, f)) \in Nat /\ Cardinality(Holding(o2, f)) \in Nat
      /\ Cardinality(Holding(o2, f)) = Cardinality(Holding(o, f)) - Is(o[p][d], f) + Is(x, f)
  BY HoldingMoves
<1>2. IsAt(c[p], 1, f) = 0 /\ IsAt(c[p], 2, f) = 0
  BY DEF IsAt
<1>3. /\ Cardinality(Closing(c, f, 1)) \in Nat /\ Cardinality(Closing(c2, f, 1)) \in Nat
      /\ Cardinality(Closing(c2, f, 1)) = Cardinality(Closing(c, f, 1))
           - IsAt(c[p], 1, f) + IsAt(s, 1, f)
  BY ClosingMoves
<1>4. /\ Cardinality(Closing(c, f, 2)) \in Nat /\ Cardinality(Closing(c2, f, 2)) \in Nat
      /\ Cardinality(Closing(c2, f, 2)) = Cardinality(Closing(c, f, 2))
           - IsAt(c[p], 2, f) + IsAt(s, 2, f)
  BY ClosingMoves
<1>5. Is(o[p][d], f) \in Nat /\ Is(x, f) \in Nat /\ IsAt(s, 1, f) \in Nat /\ IsAt(s, 2, f) \in Nat
  BY DEF Is, IsAt
<1>6. PICK h1 \in Nat, h2 \in Nat, m1 \in Nat, m2 \in Nat, n1 \in Nat, n2 \in Nat :
        /\ h1 = Cardinality(Holding(o, f)) /\ h2 = Cardinality(Holding(o2, f))
        /\ m1 = Cardinality(Closing(c, f, 1)) /\ m2 = Cardinality(Closing(c2, f, 1))
        /\ n1 = Cardinality(Closing(c, f, 2)) /\ n2 = Cardinality(Closing(c2, f, 2))
  BY <1>1, <1>3, <1>4
<1>7. PICK i1 \in Nat, i2 \in Nat, i3 \in Nat, i4 \in Nat :
        i1 = Is(o[p][d], f) /\ i2 = Is(x, f) /\ i3 = IsAt(s, 1, f) /\ i4 = IsAt(s, 2, f)
  BY <1>5
<1>8. h2 = h1 - i1 + i2 /\ m2 = m1 + i3 /\ n2 = n1 + i4
  BY <1>1, <1>2, <1>3, <1>4, <1>6, <1>7
<1>9. Refs(o, c, f) = h1 + m1 + n1 /\ Refs(o2, c2, f) = h2 + m2 + n2
  BY <1>6 DEF Refs
<1>10. h2 + m2 + n2 = (h1 + m1 + n1) - i1 + i2 + i3 + i4
  <2>1. h2 + m2 = h1 + m1 - i1 + i2 + i3
    BY <1>8
  <2>2. h2 + m2 + n2 = (h1 + m1 - i1 + i2 + i3) + (n1 + i4)
    BY <1>8, <2>1
  <2> QED BY <2>2, SMTT(30)
<1> QED BY <1>7, <1>9, <1>10, Zenon

\* A descriptor is taken away and its file is to be closed: it is referred to as often as before.
LEMMA RefsClose ==
  ASSUME PipeTypeOK, RefIsExact, NEW p \in Procs, NEW d \in FDs, ofile[p][d] # NoFile,
         closing[p] = <<>>, ref' = ref,
         ofile' = [ofile EXCEPT ![p][d] = NoFile],
         closing' = [closing EXCEPT ![p] = <<ofile[p][d]>>]
  PROVE  /\ RefIsExact'
         /\ ofile' \in OFiles /\ closing' \in Closings /\ closing'[p] = <<ofile[p][d]>>
         /\ \A o \in Procs : o # p => ofile'[o] = ofile[o] /\ closing'[o] = closing[o]
<1>1. PICK o \in OFiles, c \in Closings : o = ofile /\ c = closing
  BY DEF PipeTypeOK, OFiles, Closings
<1>2. PICK g \in Files : g = ofile[p][d]
  BY DEF PipeTypeOK
<1>3. g # NoFile /\ NoFile \notin Files
  BY <1>2 DEF Files, NoFile
<1>4. PICK s \in Seq(Files) : s = <<g>>
  <2>1. <<g>> \in Seq(Files)
    OBVIOUS
  <2> QED BY <2>1
<1>5. Gives(o, ofile', p, d, NoFile) /\ Queues(c, closing', p, s)
  BY <1>1, <1>2, <1>4 DEF Gives, Queues
<1>6. \A f \in Files : Refs(ofile', closing', f) = Refs(o, c, f)
  <2> TAKE f \in Files
  <2>1. PICK x : x = NoFile
    OBVIOUS
  <2>2. Refs(ofile', closing', f) = Refs(o, c, f) - Is(o[p][d], f) + Is(x, f)
           + IsAt(s, 1, f) + IsAt(s, 2, f)
    BY <1>1, <1>5, <2>1, RefsMove
  <2>3. Is(x, f) = 0 /\ IsAt(s, 2, f) = 0 /\ IsAt(s, 1, f) = Is(g, f) /\ Is(g, f) \in {0, 1}
    BY <1>3, <1>4, <2>1 DEF Is, IsAt
  <2>4. Refs(o, c, f) \in Nat
    BY RefsInNat
  <2>5. o[p][d] = g
    BY <1>1, <1>2
  <2> QED BY <2>2, <2>3, <2>4, <2>5
<1>7. RefIsExact'
  BY <1>1, <1>6, ReferencesAre DEF RefIsExact
<1>8. ofile' \in OFiles /\ \A a \in Procs : a # p => ofile'[a] = ofile[a]
  BY DEF PipeTypeOK, OFiles
<1>9. /\ closing' \in [Procs -> Seq(Files)] /\ closing'[p] = s
      /\ \A a \in Procs : a # p => closing'[a] = closing[a]
  BY <1>2, <1>4 DEF PipeTypeOK
<1>10. \A a \in Procs : Len(closing'[a]) <= 2
  BY <1>4, <1>9 DEF PipeTypeOK
<1> QED BY <1>2, <1>4, <1>7, <1>8, <1>9, <1>10 DEF Closings

LEMMA sys_closeInv ==
  ASSUME PipeInv, NEW p \in Procs, NEW d \in FDs, sys_close(p, d)
  PROVE  PipeInv'
<1> USE DEF PipeInv
<1>1. CASE ofile[p][d] = NoFile
  <2>1. pipeallocFails(p)
    BY <1>1 DEF sys_close, pipeallocFails
  <2> QED BY <2>1, pipeallocFailsInv
<1>2. CASE ofile[p][d] # NoFile
  <2>1. /\ pc[p] = "run" /\ pc' = [pc EXCEPT ![p] = "close"]
        /\ ofile' = [ofile EXCEPT ![p][d] = NoFile]
        /\ closing' = [closing EXCEPT ![p] = <<ofile[p][d]>>]
        /\ result' = [result EXCEPT ![p] = 0]
        /\ UNCHANGED <<pipe, plock, ref, file, arg, got, exiting, killed>>
    BY <1>2 DEF sys_close
  <2>2. closing[p] = <<>>
    BY <2>1 DEF ClosingMatchesCalls
  <2>3. /\ RefIsExact'
        /\ ofile' \in OFiles /\ closing' \in Closings /\ closing'[p] = <<ofile[p][d]>>
        /\ \A o \in Procs : o # p => ofile'[o] = ofile[o] /\ closing'[o] = closing[o]
    BY <1>2, <2>1, <2>2, RefsClose
  <2>4. \A o \in Procs : pc'[o] = IF o = p THEN "close" ELSE pc[o]
    BY <2>1 DEF PipeTypeOK
  <2>5. PipeTypeOK'
    BY <2>1, <2>3, SMTT(30) DEF PipeTypeOK, Points, OFiles, Closings
  <2>6. /\ LockHeldToSleep' /\ CallsHaveFiles' /\ SleepersWait'
        /\ \A q \in Pipes : Count(q)' <= PIPESIZE
        /\ (\A f \in Files : ref[f] = 0 <=> ref'[f] = 0) => EndsHaveOneFile'
    <3>1. pc[p] \notin InCalls /\ pc'[p] \notin InCalls
      BY <2>1, <2>4 DEF InCalls, Writing, Reading
    <3> QED BY <2>1, <2>3, <2>4, <3>1, QuietStep
  <2>7. ClosingMatchesCalls'
    BY <2>3, <2>4 DEF ClosingMatchesCalls, OpenFDs, FreeFDs
  <2> QED BY <2>1, <2>3, <2>5, <2>6, <2>7
<1> QED BY <1>1, <1>2

LEMMA FreeFDIs ==
  ASSUME NEW p \in Procs
  PROVE  /\ FreeFDs(p) # {} => Min(FreeFDs(p)) \in FDs /\ ofile[p][Min(FreeFDs(p))] = NoFile
         /\ OpenFDs(p) # {} => Min(OpenFDs(p)) \in FDs /\ ofile[p][Min(OpenFDs(p))] # NoFile
<1>1. FreeFDs(p) \in SUBSET Nat /\ OpenFDs(p) \in SUBSET Nat
  BY Constants DEF FreeFDs, OpenFDs, FDs
<1>2. /\ FreeFDs(p) # {} => Min(FreeFDs(p)) \in FreeFDs(p)
      /\ OpenFDs(p) # {} => Min(OpenFDs(p)) \in OpenFDs(p)
  BY <1>1, FirstIsMember
<1> QED BY <1>2 DEF FreeFDs, OpenFDs

LEMMA fileclosedInv ==
  ASSUME PipeInv, NEW p \in Procs, fileclosed(p)
  PROVE  PipeInv'
<1> USE DEF PipeInv
<1>1. /\ pc[p] = "close" /\ closing[p] = <<>>
      /\ UNCHANGED <<pipe, plock, ref, file, arg, got, result, exiting, killed>>
  BY DEF fileclosed
<1>2. CASE exiting[p] /\ OpenFDs(p) # {}
  <2>1. PICK d \in FDs : d = Min(OpenFDs(p)) /\ ofile[p][d] # NoFile
    BY <1>2, FreeFDIs
  <2>2. /\ ofile' = [ofile EXCEPT ![p][d] = NoFile]
        /\ closing' = [closing EXCEPT ![p] = <<ofile[p][d]>>] /\ pc' = pc
    BY <1>2, <2>1 DEF fileclosed
  <2>3. /\ RefIsExact'
        /\ ofile' \in OFiles /\ closing' \in Closings /\ closing'[p] = <<ofile[p][d]>>
        /\ \A o \in Procs : o # p => ofile'[o] = ofile[o] /\ closing'[o] = closing[o]
    BY <1>1, <2>1, <2>2, RefsClose
  <2>4. PipeTypeOK'
    BY <1>1, <2>2, <2>3 DEF PipeTypeOK, OFiles, Closings
  <2>5. /\ LockHeldToSleep' /\ CallsHaveFiles' /\ SleepersWait'
        /\ \A q \in Pipes : Count(q)' <= PIPESIZE
        /\ (\A f \in Files : ref[f] = 0 <=> ref'[f] = 0) => EndsHaveOneFile'
    <3>1. pc[p] \notin InCalls /\ pc'[p] \notin InCalls
      BY <1>1, <2>2 DEF InCalls, Writing, Reading
    <3> QED BY <1>1, <2>2, <2>3, <3>1, QuietStep
  <2>6. ClosingMatchesCalls'
    BY <1>1, <2>2, <2>3 DEF ClosingMatchesCalls, OpenFDs, FreeFDs
  <2> QED BY <1>1, <2>3, <2>4, <2>5, <2>6
<1>3. CASE ~(exiting[p] /\ OpenFDs(p) # {})
  <2>1. /\ pc' = [pc EXCEPT ![p] = IF exiting[p] THEN "dead" ELSE "run"]
        /\ ofile' = ofile /\ closing' = closing
    BY <1>3 DEF fileclosed
  <2>2. pc'[p] \in {"dead", "run"} /\ \A o \in Procs : o # p => pc'[o] = pc[o]
    BY <2>1 DEF PipeTypeOK
  <2>3. PipeTypeOK'
    BY <1>1, <2>1 DEF PipeTypeOK, Points
  <2>4. /\ LockHeldToSleep' /\ CallsHaveFiles' /\ SleepersWait'
        /\ \A q \in Pipes : Count(q)' <= PIPESIZE
        /\ (\A f \in Files : ref[f] = 0 <=> ref'[f] = 0) => EndsHaveOneFile'
    <3>1. pc[p] \notin InCalls /\ pc'[p] \notin InCalls
      BY <1>1, <2>2 DEF InCalls, Writing, Reading
    <3> QED BY <1>1, <2>1, <2>2, <3>1, QuietStep
  <2>5. ClosingMatchesCalls'
    BY <1>1, <2>1, <2>2 DEF ClosingMatchesCalls, OpenFDs, FreeFDs
  <2>6. RefIsExact'
    BY <1>1, <2>1, RefsStay
  <2> QED BY <1>1, <2>3, <2>4, <2>5, <2>6
<1> QED BY <1>2, <1>3

LEMMA sys_dupInv ==
  ASSUME PipeInv, NEW p \in Procs, NEW d \in FDs, sys_dup(p, d)
  PROVE  PipeInv'
<1> USE DEF PipeInv
<1>1. CASE ofile[p][d] = NoFile \/ FreeFDs(p) = {}
  <2>1. pipeallocFails(p)
    BY <1>1 DEF sys_dup, pipeallocFails
  <2> QED BY <2>1, pipeallocFailsInv
<1>2. CASE ~(ofile[p][d] = NoFile \/ FreeFDs(p) = {})
  <2>1. PICK u \in FDs : u = Min(FreeFDs(p)) /\ ofile[p][u] = NoFile
    BY <1>2, FreeFDIs
  <2>2. PICK g \in Files : g = ofile[p][d]
    BY <1>2 DEF PipeTypeOK
  <2>3. /\ pc[p] = "run" /\ pc' = [pc EXCEPT ![p] = "run"]
        /\ ofile' = [ofile EXCEPT ![p][u] = g]
        /\ ref' = [ref EXCEPT ![g] = @ + 1]
        /\ result' = [result EXCEPT ![p] = u]
        /\ UNCHANGED <<pipe, plock, file, arg, got, closing, exiting, killed>>
    BY <1>2, <2>1, <2>2 DEF sys_dup, Return
  <2>4. closing[p] = <<>> /\ pc' = pc
    BY <2>3 DEF ClosingMatchesCalls, PipeTypeOK
  <2>5. PICK o \in OFiles, c \in Closings : o = ofile /\ c = closing
    BY DEF PipeTypeOK, OFiles, Closings
  <2>6. ref[g] \in Nat /\ ref[g] >= 1
    <3>1. Refs(o, c, g) >= 1
      BY <2>2, <2>5, RefsCount
    <3> QED BY <2>5, <3>1, ReferencesAre DEF RefIsExact, PipeTypeOK
  <2>7. \A f \in Files : ref'[f] = ref[f] + Is(g, f) /\ (ref[f] = 0 <=> ref'[f] = 0)
    <3> TAKE f \in Files
    <3>1. CASE f = g
      BY <2>3, <2>6, <3>1 DEF PipeTypeOK, Is
    <3>2. CASE f # g
      BY <2>3, <3>2 DEF PipeTypeOK, Is
    <3> QED BY <3>1, <3>2
  <2>8. RefIsExact'
    <3>1. PICK s : s = <<>>
      OBVIOUS
    <3>2. Gives(o, ofile', p, u, g) /\ Queues(c, closing', p, s) /\ c[p] = <<>>
      BY <2>3, <2>4, <2>5, <3>1 DEF Gives, Queues, PipeTypeOK
    <3>3. \A f \in Files : Refs(ofile', closing', f) = Refs(o, c, f) + Is(g, f)
      <4> TAKE f \in Files
      <4>1. Refs(ofile', closing', f) = Refs(o, c, f) - Is(o[p][u], f) + Is(g, f)
               + IsAt(s, 1, f) + IsAt(s, 2, f)
        BY <3>2, RefsMove
      <4>2. /\ Is(o[p][u], f) = 0 /\ IsAt(s, 1, f) = 0 /\ IsAt(s, 2, f) = 0
            /\ Is(g, f) \in {0, 1}
        BY <2>1, <2>5, <3>1 DEF Is, IsAt, Files, NoFile
      <4>3. Refs(o, c, f) \in Nat
        BY RefsInNat
      <4> QED BY <4>1, <4>2, <4>3
    <3> QED BY <2>5, <2>7, <3>3, ReferencesAre DEF RefIsExact
  <2>9. ofile' \in OFiles /\ \A a \in Procs : a # p => ofile'[a] = ofile[a]
    BY <2>3 DEF PipeTypeOK, OFiles
  <2>10. PipeTypeOK'
    <3>1. ref' \in [Files -> Nat]
      BY <2>3, <2>6 DEF PipeTypeOK
    <3>2. result' \in [Procs -> Int]
      BY <2>3, Constants DEF PipeTypeOK, FDs
    <3> QED BY <2>3, <2>4, <2>9, <3>1, <3>2 DEF PipeTypeOK, OFiles
  <2>11. /\ LockHeldToSleep' /\ CallsHaveFiles' /\ SleepersWait'
         /\ \A q \in Pipes : Count(q)' <= PIPESIZE
         /\ (\A f \in Files : ref[f] = 0 <=> ref'[f] = 0) => EndsHaveOneFile'
    <3>1. pc[p] \notin InCalls /\ pc'[p] \notin InCalls
      BY <2>3, <2>4 DEF InCalls, Writing, Reading
    <3> QED BY <2>3, <2>4, <2>9, <3>1, QuietStep
  <2>12. ClosingMatchesCalls'
    BY <2>3, <2>4, <2>9 DEF ClosingMatchesCalls, OpenFDs, FreeFDs
  <2> QED BY <2>7, <2>8, <2>10, <2>11, <2>12
<1> QED BY <1>1, <1>2

\* sys_pipe() moves the two files from its hands into descriptors.
LEMMA pipeDescriptorsInv ==
  ASSUME PipeInv, NEW p \in Procs, pipeDescriptors(p)
  PROVE  PipeInv'
<1> USE DEF PipeInv
<1>1. /\ pc[p] = "descriptors" /\ Len(closing[p]) = 2
      /\ UNCHANGED <<pipe, plock, ref, file, arg, got, exiting, killed>>
  BY DEF pipeDescriptors, ClosingMatchesCalls
<1>2. CASE Cardinality(FreeFDs(p)) >= 2
  <2>1. PICK u \in FDs : u = Min(FreeFDs(p)) /\ ofile[p][u] = NoFile
    <3>1. IsFiniteSet(FreeFDs(p)) /\ FreeFDs(p) \in SUBSET FDs
      BY Constants, FS_Subset DEF FreeFDs
    <3>2. FreeFDs(p) # {}
      <4> SUFFICES ASSUME FreeFDs(p) = {} PROVE FALSE
        OBVIOUS
      <4> QED BY <1>2, FS_EmptySet
    <3> QED BY <3>2, FreeFDIs
  <2>2. PICK v \in FDs : v = Min(FreeFDs(p) \ {u}) /\ v # u /\ ofile[p][v] = NoFile
    <3>1. PICK S : S = FreeFDs(p) /\ IsFiniteSet(S) /\ S \in SUBSET FDs
      BY Constants, FS_Subset DEF FreeFDs
    <3>2. S \ {u} # {}
      <4> SUFFICES ASSUME S \ {u} = {} PROVE FALSE
        OBVIOUS
      <4>1. S \in SUBSET {u}
        OBVIOUS
      <4>2. IsFiniteSet({u}) /\ Cardinality({u}) = 1
        BY FS_Singleton
      <4>3. Cardinality(S) <= 1 /\ Cardinality(S) \in Nat
        BY <3>1, <4>1, <4>2, FS_Subset, FS_CardinalityType
      <4> QED BY <1>2, <3>1, <4>3
    <3>3. S \ {u} \in SUBSET Nat
      BY <3>1, Constants DEF FDs
    <3>4. Min(S \ {u}) \in S \ {u}
      BY <3>2, <3>3, FirstIsMember
    <3> QED BY <3>1, <3>4 DEF FreeFDs
  <2>3. PICK g1 \in Files, g2 \in Files : g1 = closing[p][1] /\ g2 = closing[p][2]
    <3>1. PICK s \in Seq(Files) : s = closing[p] /\ Len(s) = 2
      BY <1>1, CallIs
    <3>2. s[1] \in Files /\ s[2] \in Files
      BY <3>1
    <3> QED BY <3>1, <3>2
  <2>4. /\ ofile' = [ofile EXCEPT ![p][u] = g1, ![p][v] = g2]
        /\ closing' = [closing EXCEPT ![p] = <<>>]
        /\ pc' = [pc EXCEPT ![p] = "run"] /\ result' = [result EXCEPT ![p] = 0]
    BY <1>2, <2>1, <2>2, <2>3 DEF pipeDescriptors, Return
  <2>5. PICK o \in OFiles, c \in Closings : o = ofile /\ c = closing
    BY DEF PipeTypeOK, OFiles, Closings
  <2>6. PICK m \in OFiles : m = [o EXCEPT ![p][u] = g1]
    <3>1. [o EXCEPT ![p][u] = g1] \in OFiles
      BY DEF OFiles
    <3> QED BY <3>1
  <2>7. ofile' = [m EXCEPT ![p][v] = g2]
    BY <2>4, <2>5, <2>6 DEF OFiles
  <2>8. m[p][v] = NoFile
    BY <2>2, <2>5, <2>6 DEF OFiles
  <2>9. PICK s : s = <<>>
    OBVIOUS
  <2>10. Gives(o, m, p, u, g1) /\ Gives(m, ofile', p, v, g2) /\ Queues(c, closing', p, s)
    BY <2>4, <2>5, <2>6, <2>7, <2>9 DEF Gives, Queues
  <2>11. \A f \in Files : Refs(ofile', closing', f) = Refs(o, c, f)
    <3> TAKE f \in Files
    <3>1. /\ Cardinality(Holding(o, f)) \in Nat /\ Cardinality(Holding(m, f)) \in Nat
          /\ Cardinality(Holding(m, f)) = Cardinality(Holding(o, f)) - Is(o[p][u], f) + Is(g1, f)
      BY <2>10, HoldingMoves
    <3>2. /\ Cardinality(Holding(m, f)) \in Nat /\ Cardinality(Holding(ofile', f)) \in Nat
          /\ Cardinality(Holding(ofile', f)) = Cardinality(Holding(m, f)) - Is(m[p][v], f) + Is(g2, f)
      BY <2>10, HoldingMoves
    <3>3. /\ Cardinality(Closing(c, f, 1)) \in Nat /\ Cardinality(Closing(closing', f, 1)) \in Nat
          /\ Cardinality(Closing(closing', f, 1)) = Cardinality(Closing(c, f, 1))
               - IsAt(c[p], 1, f) + IsAt(s, 1, f)
      BY <2>10, ClosingMoves
    <3>4. /\ Cardinality(Closing(c, f, 2)) \in Nat /\ Cardinality(Closing(closing', f, 2)) \in Nat
          /\ Cardinality(Closing(closing', f, 2)) = Cardinality(Closing(c, f, 2))
               - IsAt(c[p], 2, f) + IsAt(s, 2, f)
      BY <2>10, ClosingMoves
    <3>5. /\ Is(o[p][u], f) = 0 /\ Is(m[p][v], f) = 0 /\ IsAt(s, 1, f) = 0 /\ IsAt(s, 2, f) = 0
      BY <2>1, <2>5, <2>8, <2>9 DEF Is, IsAt, Files, NoFile
    <3>6. IsAt(c[p], 1, f) = Is(g1, f) /\ IsAt(c[p], 2, f) = Is(g2, f)
      BY <1>1, <2>3, <2>5 DEF Is, IsAt
    <3>7. PICK i1 \in Nat, i2 \in Nat : i1 = Is(g1, f) /\ i2 = Is(g2, f)
      <4>1. Is(g1, f) \in Nat /\ Is(g2, f) \in Nat
        BY DEF Is
      <4> QED BY <4>1
    <3>8. PICK h \in Nat, a \in Nat, b \in Nat : /\ h = Cardinality(Holding(o, f))
                                                 /\ a = Cardinality(Closing(c, f, 1))
                                                 /\ b = Cardinality(Closing(c, f, 2))
      BY <3>1, <3>3, <3>4
    <3>9. PICK h1 \in Nat, h2 \in Nat, a1 \in Nat, b1 \in Nat :
            /\ h1 = Cardinality(Holding(m, f)) /\ h2 = Cardinality(Holding(ofile', f))
            /\ a1 = Cardinality(Closing(closing', f, 1)) /\ b1 = Cardinality(Closing(closing', f, 2))
      BY <3>1, <3>2, <3>3, <3>4
    <3>10. h1 = h + i1 /\ h2 = h1 + i2 /\ a1 = a - i1 /\ b1 = b - i2
      BY <3>1, <3>2, <3>3, <3>4, <3>5, <3>6, <3>7, <3>8, <3>9
    <3>11. Refs(o, c, f) = h + a + b /\ Refs(ofile', closing', f) = h2 + a1 + b1
      BY <3>8, <3>9 DEF Refs
    <3>12. h2 + a1 + b1 = h + a + b
      BY <3>10
    <3> QED BY <3>11, <3>12, Zenon
  <2>12. RefIsExact'
    BY <1>1, <2>5, <2>11, ReferencesAre DEF RefIsExact
  <2>13. ofile' \in OFiles /\ \A a \in Procs : a # p => ofile'[a] = ofile[a]
    BY <2>5, <2>6, <2>7 DEF OFiles
  <2>14. \A a \in Procs : pc'[a] = (IF a = p THEN "run" ELSE pc[a])
                          /\ closing'[a] = (IF a = p THEN <<>> ELSE closing[a])
    BY <2>4 DEF PipeTypeOK
  <2>15. PipeTypeOK'
    <3>1. closing' \in [Procs -> Seq(Files)] /\ \A a \in Procs : Len(closing'[a]) <= 2
      BY <2>4, <2>14 DEF PipeTypeOK
    <3>2. pc' \in [Procs -> Points] /\ result' \in [Procs -> Int]
      BY <2>4 DEF PipeTypeOK, Points
    <3>3. ofile' \in [Procs -> [FDs -> Files \cup {NoFile}]]
      BY <2>13 DEF OFiles
    <3> QED BY <1>1, <3>1, <3>2, <3>3 DEF PipeTypeOK
  <2>16. /\ LockHeldToSleep' /\ CallsHaveFiles' /\ SleepersWait'
         /\ \A q \in Pipes : Count(q)' <= PIPESIZE
         /\ (\A f \in Files : ref[f] = 0 <=> ref'[f] = 0) => EndsHaveOneFile'
    <3>1. pc[p] \notin InCalls /\ pc'[p] \notin InCalls
      BY <1>1, <2>14 DEF InCalls, Writing, Reading
    <3> QED BY <1>1, <2>13, <2>14, <3>1, QuietStep
  <2>17. ClosingMatchesCalls'
    BY <2>13, <2>14 DEF ClosingMatchesCalls, OpenFDs, FreeFDs
  <2> QED BY <1>1, <2>12, <2>15, <2>16, <2>17
<1>3. CASE ~(Cardinality(FreeFDs(p)) >= 2)
  <2>1. /\ pc' = [pc EXCEPT ![p] = "close"] /\ result' = [result EXCEPT ![p] = -1]
        /\ ofile' = ofile /\ closing' = closing
    BY <1>3 DEF pipeDescriptors
  <2>2. \A o \in Procs : pc'[o] = IF o = p THEN "close" ELSE pc[o]
    BY <2>1 DEF PipeTypeOK
  <2>3. PipeTypeOK'
    BY <1>1, <2>1 DEF PipeTypeOK, Points
  <2>4. /\ LockHeldToSleep' /\ CallsHaveFiles' /\ SleepersWait'
        /\ \A q \in Pipes : Count(q)' <= PIPESIZE
        /\ (\A f \in Files : ref[f] = 0 <=> ref'[f] = 0) => EndsHaveOneFile'
    <3>1. pc[p] \notin InCalls /\ pc'[p] \notin InCalls
      BY <1>1, <2>2 DEF InCalls, Writing, Reading
    <3> QED BY <1>1, <2>1, <2>2, <3>1, QuietStep
  <2>5. ClosingMatchesCalls'
    BY <1>1, <2>1, <2>2 DEF ClosingMatchesCalls, OpenFDs, FreeFDs
  <2>6. RefIsExact'
    BY <1>1, <2>1, RefsStay
  <2> QED BY <1>1, <2>3, <2>4, <2>5, <2>6
<1> QED BY <1>2, <1>3

\* A row of descriptors has as many members as there are descriptors in it.
LEMMA CardRow ==
  ASSUME NEW c, NEW D, IsFiniteSet(D)
  PROVE  IsFiniteSet({c} \X D) /\ Cardinality({c} \X D) = Cardinality(D)
<1>1. PICK F : F = [d \in D |-> <<c, d>>]
  OBVIOUS
<1>2. F \in [D -> {c} \X D] /\ \A d \in D : F[d] = <<c, d>>
  BY <1>1
<1>3. F \in Injection(D, {c} \X D)
  BY <1>2 DEF Injection, IsInjective
<1>4. F \in Surjection(D, {c} \X D)
  BY <1>2 DEF Surjection
<1>5. ExistsBijection(D, {c} \X D)
  BY <1>3, <1>4 DEF ExistsBijection, Bijection
<1> QED BY <1>5, FS_Bijection

LEMMA forkInv ==
  ASSUME PipeInv, NEW p \in Procs, NEW c \in Procs, fork(p, c)
  PROVE  PipeInv'
<1> USE DEF PipeInv
<1>1. /\ pc[p] = "run" /\ pc[c] = "unborn" /\ pc' = [pc EXCEPT ![c] = "run"]
      /\ ofile' = [ofile EXCEPT ![c] = ofile[p]] /\ ref' = Dup(p)
      /\ UNCHANGED <<pipe, plock, file, arg, got, result, closing, exiting, killed>>
  BY DEF fork
<1>2. closing[c] = <<>> /\ \A d \in FDs : ofile[c][d] = NoFile
  BY <1>1 DEF ClosingMatchesCalls, OpenFDs, FreeFDs
<1>3. PICK o \in OFiles, cl \in Closings : o = ofile /\ cl = closing
  BY DEF PipeTypeOK, OFiles, Closings
<1>4. /\ ofile' \in OFiles /\ ofile'[c] = ofile[p]
      /\ \A a \in Procs : a # c => ofile'[a] = ofile[a]
  BY <1>1 DEF PipeTypeOK, OFiles
<1>5. \A a \in Procs : pc'[a] = IF a = c THEN "run" ELSE pc[a]
  BY <1>1 DEF PipeTypeOK
<1> DEFINE Row(f) == {d \in FDs : ofile[p][d] = f}
<1>6. \A f \in Files : /\ IsFiniteSet(Row(f)) /\ Cardinality(Row(f)) \in Nat
                       /\ ref'[f] = ref[f] + Cardinality(Row(f))
  <2> TAKE f \in Files
  <2>1. Row(f) \in SUBSET FDs
    OBVIOUS
  <2>2. IsFiniteSet(Row(f)) /\ Cardinality(Row(f)) \in Nat
    BY <2>1, Constants, FS_Subset, FS_CardinalityType
  <2> QED BY <1>1, <2>2 DEF Dup
<1>7. \A f \in Files : Refs(ofile', cl, f) = Refs(o, cl, f) + Cardinality(Row(f))
  <2> TAKE f \in Files
  <2>1. PICK A, B, R, N : /\ A = Holding(o, f) /\ B = Holding(ofile', f) /\ R = {c} \X Row(f)
                          /\ N = Row(f)
    OBVIOUS
  <2>2. B = A \cup R
    <3>1. \A a \in Procs, d \in FDs : <<a, d>> \in B <=> <<a, d>> \in A \/ <<a, d>> \in R
      <4> TAKE a \in Procs, d \in FDs
      <4>1. CASE a = c
        BY <1>2, <1>3, <1>4, <2>1, <4>1 DEF Holding, Files, NoFile
      <4>2. CASE a # c
        BY <1>2, <1>3, <1>4, <2>1, <4>2 DEF Holding
      <4> QED BY <4>1, <4>2
    <3>2. A \in SUBSET (Procs \X FDs) /\ B \in SUBSET (Procs \X FDs) /\ R \in SUBSET (Procs \X FDs)
      BY <2>1 DEF Holding
    <3> QED BY <3>1, <3>2
  <2>3. A \cap R = {}
    <3> SUFFICES ASSUME NEW y \in A, y \in R PROVE FALSE
      OBVIOUS
    <3>1. PICK d \in FDs : y = <<c, d>>
      BY <2>1
    <3>2. o[c][d] = f
      BY <2>1, <3>1 DEF Holding
    <3> QED BY <1>2, <1>3, <3>2 DEF Files, NoFile
  <2>4. IsFiniteSet(A)
    <3>1. A \in SUBSET (Procs \X FDs)
      BY <2>1 DEF Holding
    <3> QED BY <3>1, Constants, FS_Subset
  <2>5. IsFiniteSet(R) /\ Cardinality(R) = Cardinality(N)
    BY <1>6, <2>1, CardRow
  <2>6. Cardinality(B) = Cardinality(A) + Cardinality(R) - 0
    BY <2>2, <2>3, <2>4, <2>5, FS_Union, FS_EmptySet
  <2>7. PICK a \in Nat, b \in Nat, n \in Nat, x \in Nat, y \in Nat :
          /\ a = Cardinality(A) /\ b = Cardinality(B) /\ n = Cardinality(N)
          /\ x = Cardinality(Closing(cl, f, 1)) /\ y = Cardinality(Closing(cl, f, 2))
    BY <1>3, <1>4, <1>6, <2>1, RefsInNat
  <2>8. b = a + n
    BY <2>5, <2>6, <2>7
  <2>9. Refs(ofile', cl, f) = b + x + y /\ Refs(o, cl, f) = a + x + y
    BY <2>1, <2>7 DEF Refs
  <2>10. b + x + y = a + x + y + n
    BY <2>8
  <2> QED BY <2>1, <2>7, <2>9, <2>10, Zenon
<1>8. RefIsExact'
  <2>1. \A f \in Files : ref[f] = Refs(o, cl, f)
    BY <1>3, ReferencesAre DEF RefIsExact
  <2>2. \A f \in Files : References(f)' = Refs(ofile', cl, f)
    BY <1>1, <1>3, ReferencesAre
  <2> HIDE DEF Row
  <2> QED BY <1>6, <1>7, <2>1, <2>2 DEF RefIsExact
<1>9. \A f \in Files : ref[f] = 0 <=> ref'[f] = 0
  <2> TAKE f \in Files
  <2>1. ref[f] \in Nat
    BY DEF PipeTypeOK
  <2>2. ref[f] = 0 => Row(f) = {}
    <3>1. \A d \in FDs : ofile[p][d] = f => ref[f] >= 1
      BY <1>3, RefsCount, ReferencesAre DEF RefIsExact
    <3> QED BY <3>1
  <2>3. Row(f) = {} => Cardinality(Row(f)) = 0
    BY FS_EmptySet, Zenon
  <2> HIDE DEF Row
  <2> QED BY <1>6, <2>1, <2>2, <2>3
<1>10. PipeTypeOK'
  <2>1. ref' \in [Files -> Nat]
    <3>1. ref' = [f \in Files |-> ref[f] + Cardinality(Row(f))]
      BY <1>1 DEF Dup
    <3>2. \A f \in Files : ref[f] + Cardinality(Row(f)) \in Nat
      <4> HIDE DEF Row
      <4> QED BY <1>6, SMTT(30) DEF PipeTypeOK
    <3> HIDE DEF Row
    <3> QED BY <3>1, <3>2
  <2>2. pc' \in [Procs -> Points]
    BY <1>1 DEF PipeTypeOK, Points
  <2>3. ofile' \in [Procs -> [FDs -> Files \cup {NoFile}]]
    BY <1>4 DEF OFiles
  <2> QED BY <1>1, <2>1, <2>2, <2>3 DEF PipeTypeOK
<1>11. /\ LockHeldToSleep' /\ CallsHaveFiles' /\ SleepersWait'
       /\ \A q \in Pipes : Count(q)' <= PIPESIZE
       /\ (\A f \in Files : ref[f] = 0 <=> ref'[f] = 0) => EndsHaveOneFile'
  <2>1. pc[c] \notin InCalls /\ pc'[c] \notin InCalls
    BY <1>1, <1>5 DEF InCalls, Writing, Reading
  <2> QED BY <1>1, <1>4, <1>5, <2>1, QuietStep
<1>12. ClosingMatchesCalls'
  <2> SUFFICES ASSUME NEW a \in Procs
      PROVE /\ pc'[a] \notin {"descriptors", "close", "pipeclose"} => closing'[a] = <<>>
            /\ pc'[a] = "descriptors" => Len(closing'[a]) = 2
            /\ pc'[a] = "unborn" => OpenFDs(a)' = {}
    BY DEF ClosingMatchesCalls
  <2>1. CASE a = c
    BY <1>1, <1>2, <1>5, <2>1
  <2>2. CASE a # c
    <3>1. OpenFDs(a)' = OpenFDs(a)
      BY <1>4, <2>2 DEF OpenFDs, FreeFDs
    <3> QED BY <1>1, <1>5, <2>2, <3>1 DEF ClosingMatchesCalls
  <2> QED BY <2>1, <2>2
<1> QED BY <1>8, <1>9, <1>10, <1>11, <1>12

LEMMA RestIs ==
  ASSUME NEW s \in Seq(Files), s # <<>>, Len(s) <= 2, NEW f
  PROVE  /\ Tail(s) \in Seq(Files) /\ Len(Tail(s)) <= 2 /\ s[1] \in Files /\ Len(s) >= 1
         /\ IsAt(s, 1, f) = Is(s[1], f)
         /\ IsAt(Tail(s), 1, f) = IsAt(s, 2, f) /\ IsAt(Tail(s), 2, f) = 0
<1>1. Tail(s) \in Seq(Files) /\ s[1] \in Files /\ Len(s) \in Nat /\ Len(s) >= 1
  OBVIOUS
<1>2. Len(Tail(s)) = Len(s) - 1 /\ \A i \in 1 .. Len(s) - 1 : Tail(s)[i] = s[i + 1]
  OBVIOUS
<1>3. IsAt(s, 1, f) = Is(s[1], f)
  BY <1>1 DEF IsAt, Is
<1>4. IsAt(Tail(s), 2, f) = 0
  BY <1>1, <1>2 DEF IsAt
<1>5. IsAt(Tail(s), 1, f) = IsAt(s, 2, f)
  <2>1. CASE Len(s) = 1
    <3>1. Len(Tail(s)) = 0
      BY <1>2, <2>1
    <3>2. ~(0 >= 1) /\ ~(1 >= 2)
      OBVIOUS
    <3>3. ~(Len(Tail(s)) >= 1) /\ ~(Len(s) >= 2)
      BY ONLY <2>1, <3>1, <3>2, Zenon
    <3> QED BY <3>3 DEF IsAt
  <2>2. CASE Len(s) # 1
    <3>1. Tail(s)[1] = s[2] /\ Len(s) >= 2 /\ Len(Tail(s)) >= 1
      BY <1>1, <1>2, <2>2
    <3> QED BY <3>1 DEF IsAt
  <2> QED BY <2>1, <2>2
<1> QED BY <1>1, <1>2, <1>3, <1>4, <1>5

\* fileclose() gives the reference back that its caller held.
LEMMA filecloseIs ==
  ASSUME PipeInv, NEW p \in Procs, fileclose(p)
  PROVE  \E f \in Files :
           /\ f = closing[p][1] /\ Len(closing[p]) >= 1 /\ ref[f] \in Nat /\ ref[f] >= 1
           /\ closing' \in Closings /\ \A o \in Procs : o # p => closing'[o] = closing[o]
           /\ ref' = [ref EXCEPT ![f] = @ - 1]
           /\ \A g \in Files : ref'[g] = ref[g] - Is(f, g)
           /\ RefIsExact'
           /\ file' = IF ref[f] = 1 THEN [file EXCEPT ![f] = NoPipe] ELSE file
           /\ \A o \in Procs, d \in FDs : ofile[o][d] = f => ref[f] # 1
<1> USE DEF PipeInv
<1>1. pc[p] = "close" /\ closing[p] # <<>> /\ UNCHANGED ofile
  BY DEF fileclose
<1>2. PICK s \in Seq(Files) : s = closing[p] /\ Len(s) <= 2 /\ s # <<>>
  <2>1. closing[p] \in Seq(Files) /\ Len(closing[p]) <= 2
    BY DEF PipeTypeOK
  <2> QED BY <1>1, <2>1
<1>3. PICK t \in Seq(Files) : t = Tail(s) /\ Len(t) <= 2
  <2>1. Tail(s) \in Seq(Files) /\ Len(Tail(s)) <= 2
    BY <1>2, RestIs
  <2> QED BY <2>1
<1>4. PICK f \in Files : f = s[1]
  BY <1>2, RestIs
<1>5. /\ ref' = [ref EXCEPT ![f] = @ - 1] /\ closing' = [closing EXCEPT ![p] = t]
      /\ file' = IF ref[f] = 1 THEN [file EXCEPT ![f] = NoPipe] ELSE file
  BY <1>2, <1>3, <1>4 DEF fileclose, LastReference, PipeTypeOK
<1>6. PICK o \in OFiles, c \in Closings : o = ofile /\ c = closing
  BY DEF PipeTypeOK, OFiles, Closings
<1>7. Len(c[p]) >= 1 /\ c[p][1] = f
  BY <1>2, <1>4, <1>6, RestIs
<1>8. ref[f] = Refs(o, c, f) /\ ref[f] >= 1 /\ ref[f] \in Nat
  BY <1>6, <1>7, RefsCount, ReferencesAre DEF RefIsExact, PipeTypeOK
<1>9. \A x \in Procs, d \in FDs : o[x][d] = f => ref[f] # 1
  BY <1>7, <1>8, RefsCount
<1>10. \A g \in Files : ref'[g] = ref[g] - Is(f, g) /\ ref[g] \in Nat
  <2> TAKE g \in Files
  <2>1. ref[g] \in Nat
    BY DEF PipeTypeOK
  <2>2. CASE g = f
    BY <1>5, <1>8, <2>1, <2>2 DEF PipeTypeOK, Is
  <2>3. CASE g # f
    BY <1>5, <2>1, <2>3 DEF PipeTypeOK, Is
  <2> QED BY <2>1, <2>2, <2>3
<1>11. \A g \in Files : Refs(ofile', closing', g) = Refs(o, c, g) - Is(f, g)
  <2> TAKE g \in Files
  <2>1. Queues(c, closing', p, t)
    BY <1>5, <1>6 DEF Queues
  <2>2. /\ Cardinality(Closing(c, g, 1)) \in Nat /\ Cardinality(Closing(closing', g, 1)) \in Nat
        /\ Cardinality(Closing(closing', g, 1)) = Cardinality(Closing(c, g, 1))
             - IsAt(c[p], 1, g) + IsAt(t, 1, g)
    BY <2>1, ClosingMoves
  <2>3. /\ Cardinality(Closing(c, g, 2)) \in Nat /\ Cardinality(Closing(closing', g, 2)) \in Nat
        /\ Cardinality(Closing(closing', g, 2)) = Cardinality(Closing(c, g, 2))
             - IsAt(c[p], 2, g) + IsAt(t, 2, g)
    BY <2>1, ClosingMoves
  <2>4. /\ IsAt(c[p], 1, g) = Is(f, g)
        /\ IsAt(t, 1, g) = IsAt(c[p], 2, g) /\ IsAt(t, 2, g) = 0
    BY <1>2, <1>3, <1>4, <1>6, RestIs
  <2>5. PICK i \in Nat, j \in Nat : i = Is(f, g) /\ j = IsAt(c[p], 2, g)
    <3>1. Is(f, g) \in Nat /\ IsAt(c[p], 2, g) \in Nat
      BY DEF Is, IsAt
    <3> QED BY <3>1
  <2>6. PICK h \in Nat, a \in Nat, b \in Nat, a1 \in Nat, b1 \in Nat :
          /\ h = Cardinality(Holding(o, g))
          /\ a = Cardinality(Closing(c, g, 1)) /\ b = Cardinality(Closing(c, g, 2))
          /\ a1 = Cardinality(Closing(closing', g, 1)) /\ b1 = Cardinality(Closing(closing', g, 2))
    BY <2>2, <2>3, RefsInNat
  <2>7. a1 = a - i + j /\ b1 = b - j
    BY <2>2, <2>3, <2>4, <2>5, <2>6
  <2>8. Refs(ofile', closing', g) = h + a1 + b1 /\ Refs(o, c, g) = h + a + b
    BY <1>1, <1>6, <2>6 DEF Refs
  <2>9. h + a1 + b1 = (h + a + b) - i
    BY <2>7
  <2> QED BY <2>5, <2>8, <2>9, Zenon
<1>12. RefIsExact'
  <2>1. \A g \in Files : ref[g] = Refs(o, c, g) /\ References(g)' = Refs(ofile', closing', g)
    BY <1>6, ReferencesAre DEF RefIsExact
  <2> QED BY <1>10, <1>11, <2>1 DEF RefIsExact
<1>13. /\ closing' \in [Procs -> Seq(Files)]
       /\ \A x \in Procs : closing'[x] = IF x = p THEN t ELSE closing[x]
  BY <1>5 DEF PipeTypeOK
<1>14. \A x \in Procs : Len(closing'[x]) <= 2
  BY <1>3, <1>13 DEF PipeTypeOK
<1>15. closing' \in Closings
  BY <1>13, <1>14 DEF Closings
<1>16. f = closing[p][1] /\ Len(closing[p]) >= 1
  BY <1>6, <1>7
<1>17. \A x \in Procs : x # p => closing'[x] = closing[x]
  BY <1>13
<1>18. \A x \in Procs, d \in FDs : ofile[x][d] = f => ref[f] # 1
  BY <1>6, <1>9
<1> WITNESS f \in Files
<1> QED BY <1>5, <1>8, <1>10, <1>12, <1>15, <1>16, <1>17, <1>18

LEMMA filecloseInv ==
  ASSUME PipeInv, NEW p \in Procs, fileclose(p)
  PROVE  PipeInv'
<1> USE DEF PipeInv
<1>1. PICK f \in Files :
        /\ f = closing[p][1] /\ Len(closing[p]) >= 1 /\ ref[f] \in Nat /\ ref[f] >= 1
        /\ closing' \in Closings /\ \A o \in Procs : o # p => closing'[o] = closing[o]
        /\ ref' = [ref EXCEPT ![f] = @ - 1]
        /\ \A g \in Files : ref'[g] = ref[g] - Is(f, g)
        /\ RefIsExact'
        /\ file' = IF ref[f] = 1 THEN [file EXCEPT ![f] = NoPipe] ELSE file
        /\ \A o \in Procs, d \in FDs : ofile[o][d] = f => ref[f] # 1
  BY filecloseIs
<1>2. pc[p] = "close" /\ UNCHANGED <<pipe, plock, ofile, got, result, exiting, killed>>
  BY DEF fileclose
<1>3. PICK x \in {NoPipe, Device} \cup Ends : x = file[f]
  BY DEF PipeTypeOK
<1>4. x # NoPipe
  BY <1>1, <1>3 DEF EndsHaveOneFile
<1>5. \A g \in Files : ref[g] \in Nat /\ (ref'[g] = 0 <=> ref[g] = 0 \/ (g = f /\ ref[f] = 1))
                       /\ ref'[g] \in Nat
  <2> TAKE g \in Files
  <2>1. ref[g] \in Nat
    BY DEF PipeTypeOK
  <2>2. CASE g = f
    BY <1>1, <2>1, <2>2 DEF Is
  <2>3. CASE g # f
    BY <1>1, <2>1, <2>3 DEF Is
  <2> QED BY <2>1, <2>2, <2>3
<1>6. ref' \in [Files -> Nat]
  BY <1>1, <1>5 DEF PipeTypeOK
<1>7. file' \in [Files -> {NoPipe, Device} \cup Ends]
  BY <1>1 DEF PipeTypeOK
<1>8. \A g \in Files : file'[g] = IF g = f /\ ref[f] = 1 THEN NoPipe ELSE file[g]
  BY <1>1 DEF PipeTypeOK
<1>9. \A o \in Procs, d \in FDs : ofile[o][d] # NoFile => file'[ofile[o][d]] = file[ofile[o][d]]
  <2> SUFFICES ASSUME NEW o \in Procs, NEW d \in FDs, ofile[o][d] # NoFile
      PROVE file'[ofile[o][d]] = file[ofile[o][d]]
    OBVIOUS
  <2>1. PICK g \in Files : g = ofile[o][d]
    BY SMTT(30) DEF PipeTypeOK
  <2> QED BY <1>1, <1>8, <2>1
<1>10. CASE ~(ref[f] = 1 /\ x \in Ends)
  <2>1. arg' = arg /\ pc' = pc
    <3>1. ~(ref[f] = 1 /\ x.type = "pipe")
      BY <1>3, <1>10, EndIs
    <3> QED BY <1>1, <1>3, <3>1 DEF fileclose, LastReference
  <2>2. PipeTypeOK'
    BY <1>1, <1>2, <1>6, <1>7, <2>1 DEF PipeTypeOK, Closings
  <2>3. LockHeldToSleep'
    BY <1>2, <2>1, LocksStay
  <2>4. CallsHaveFiles'
    BY <1>2, <1>9, <2>1, CallsStay
  <2>5. SleepersWait'
    BY <1>2, <2>1, WaitersStay
  <2>6. ClosingMatchesCalls'
    BY <1>1, <1>2, <2>1 DEF ClosingMatchesCalls, OpenFDs, FreeFDs
  <2>7. EndsHaveOneFile'
    <3>1. (\A g \in Files : ref'[g] = 0 <=> file'[g] = NoPipe)
          /\ \A y \in Ends, g \in Files : file'[g] = y <=> file[g] = y
      BY <1>3, <1>4, <1>5, <1>8, <1>10, EndIs DEF EndsHaveOneFile
    <3>2. \A y \in Ends, o \in Procs : Closes(o, y)' <=> Closes(o, y)
      BY <2>1 DEF Closes
    <3>3. \A y \in Ends : IsOpen(y)' <=> IsOpen(y)
      BY <1>2 DEF IsOpen
    <3>4. \A y \in Pipes : pipe'[y].live <=> pipe'[y].readopen \/ pipe'[y].writeopen
      BY <1>2 DEF EndsHaveOneFile
    <3>5. \A y \in Ends : IsOpen(y)' <=> (\E g \in Files : file'[g] = y) \/ (\E o \in Procs : Closes(o, y)')
      BY <3>1, <3>2, <3>3 DEF EndsHaveOneFile
    <3>6. \A g, h \in Files : file'[g] \in Ends /\ file'[g] = file'[h] => g = h
      BY <3>1 DEF EndsHaveOneFile
    <3>7. \A y \in Ends, o \in Procs : Closes(o, y)' =>
            /\ \A g \in Files : file'[g] # y
            /\ \A u \in Procs : Closes(u, y)' => u = o
      BY <3>1, <3>2 DEF EndsHaveOneFile
    <3> QED BY <3>1, <3>4, <3>5, <3>6, <3>7 DEF EndsHaveOneFile
  <2>8. \A q \in Pipes : Count(q)' <= PIPESIZE
    BY <1>2, CountsStay
  <2> QED BY <1>1, <2>2, <2>3, <2>4, <2>5, <2>6, <2>7, <2>8
<1>11. CASE ref[f] = 1 /\ x \in Ends
  <2>1. /\ arg' = [arg EXCEPT ![p] = [NoCall EXCEPT !.pipe = x]]
        /\ pc' = [pc EXCEPT ![p] = "pipeclose"]
    <3>1. x.type = "pipe"
      BY <1>11, EndIs
    <3> QED BY <1>1, <1>3, <1>11, <3>1 DEF fileclose, LastReference
  <2>2. PICK a \in Calls : a = [NoCall EXCEPT !.pipe = x] /\ a.pipe = x
    <3>1. [NoCall EXCEPT !.pipe = x] \in Calls /\ [NoCall EXCEPT !.pipe = x].pipe = x
      <4>1. [NoCall EXCEPT !.pipe = x] = [pipe |-> x, todo |-> <<>>, n |-> 0, done |-> 0]
        BY DEF NoCall
      <4>2. x \in Pipes \cup Ends \cup {NoPipe} /\ <<>> \in Seq(Byte) /\ 0 \in Nat
        BY <1>11
      <4>3. [pipe |-> x, todo |-> <<>>, n |-> 0, done |-> 0] \in Calls
        BY <4>2, CallMade
      <4> QED BY <4>1, <4>3
    <3> QED BY <3>1
  <2>3. /\ arg' \in [Procs -> Calls] /\ arg'[p].pipe = x
        /\ \A o \in Procs : o # p => arg'[o] = arg[o]
    BY <2>1, <2>2 DEF PipeTypeOK, Calls
  <2>4. \A o \in Procs : pc'[o] = IF o = p THEN "pipeclose" ELSE pc[o]
    BY <2>1 DEF PipeTypeOK
  <2>5. PipeTypeOK'
    <3>1. pc' \in [Procs -> Points]
      BY <2>1 DEF PipeTypeOK, Points
    <3>2. arg' \in [Procs -> [pipe : Pipes \cup Ends \cup {NoPipe}, todo : Seq(Byte), n : Nat, done : Nat]]
      BY <2>3 DEF Calls
    <3> QED BY <1>1, <1>2, <1>6, <1>7, <3>1, <3>2 DEF PipeTypeOK, Closings
  <2>6. LockHeldToSleep'
    <3>1. \A o \in Procs : \/ pc'[o] = pc[o] /\ arg'[o].pipe = arg[o].pipe
                           \/ pc[o] \notin Tested /\ pc'[o] \notin Tested
      BY <1>2, <2>3, <2>4 DEF Tested
    <3> QED BY <1>2, <3>1, LocksStay
  <2>7. CallsHaveFiles'
    <3> SUFFICES ASSUME NEW o \in Procs
        PROVE /\ pc'[o] \in Writing => /\ arg'[o].pipe \in Pipes
                                       /\ \E d \in FDs : File(o, d)' = End(arg'[o].pipe, TRUE)
              /\ pc'[o] \in Reading => /\ arg'[o].pipe \in Pipes
                                       /\ \E d \in FDs : File(o, d)' = End(arg'[o].pipe, FALSE)
              /\ pc'[o] = "pipeclose" => arg'[o].pipe \in Ends
      BY DEF CallsHaveFiles
    <3>1. CASE o = p
      BY <1>11, <2>3, <2>4, <3>1 DEF Writing, Reading
    <3>2. CASE o # p
      <4>1. \A d \in FDs : File(o, d)' = File(o, d)
        BY <1>2, <1>9 DEF File
      <4> QED BY <2>3, <2>4, <3>2, <4>1 DEF CallsHaveFiles
    <3> QED BY <3>1, <3>2
  <2>8. SleepersWait'
    <3>1. \A o \in Procs : \/ pc'[o] \notin ToRead \cup ToWrite
                           \/ /\ arg'[o].pipe = arg[o].pipe
                              /\ pc[o] \in ToRead <=> pc'[o] \in ToRead
                              /\ pc[o] \in ToWrite <=> pc'[o] \in ToWrite
      BY <2>3, <2>4 DEF ToRead, ToWrite
    <3> QED BY <1>2, <3>1, WaitersStay
  <2>9. ClosingMatchesCalls'
    BY <1>1, <1>2, <2>4 DEF ClosingMatchesCalls, OpenFDs, FreeFDs
  <2>10. EndsHaveOneFile'
    <3>1. \A g \in Files : ref'[g] = 0 <=> file'[g] = NoPipe
      BY <1>5, <1>8, <1>11 DEF EndsHaveOneFile
    <3>2. \A y \in Ends, g \in Files : file'[g] = y <=> file[g] = y /\ y # x
      <4> TAKE y \in Ends, g \in Files
      <4>1. file[g] = x => g = f
        BY <1>3, <1>11 DEF EndsHaveOneFile
      <4>2. CASE g = f
        BY <1>3, <1>8, <1>11, <4>2, EndIs
      <4>3. CASE g # f
        BY <1>8, <4>1, <4>3
      <4> QED BY <4>2, <4>3
    <3>3. \A y \in Ends, o \in Procs : Closes(o, y)' <=> Closes(o, y) \/ (o = p /\ y = x)
      <4> TAKE y \in Ends, o \in Procs
      <4>1. CASE o = p
        BY <1>2, <2>3, <2>4, <4>1 DEF Closes
      <4>2. CASE o # p
        BY <2>3, <2>4, <4>2 DEF Closes
      <4> QED BY <4>1, <4>2
    <3>4. \A y \in Ends : IsOpen(y)' <=> IsOpen(y)
      BY <1>2 DEF IsOpen
    <3>5. \A o \in Procs : ~Closes(o, x)
      BY <1>3, <1>11 DEF EndsHaveOneFile
    <3>6. \A y \in Pipes : pipe'[y].live <=> pipe'[y].readopen \/ pipe'[y].writeopen
      BY <1>2 DEF EndsHaveOneFile
    <3>7. \A y \in Ends : IsOpen(y)' <=> (\E g \in Files : file'[g] = y) \/ (\E o \in Procs : Closes(o, y)')
      <4> TAKE y \in Ends
      <4>1. IsOpen(y) <=> (\E g \in Files : file[g] = y) \/ (\E o \in Procs : Closes(o, y))
        BY DEF EndsHaveOneFile
      <4>2. CASE y = x
        BY <1>3, <3>3, <3>4, <4>1, <4>2
      <4>3. CASE y # x
        BY <3>2, <3>3, <3>4, <4>1, <4>3
      <4> QED BY <4>2, <4>3
    <3>8. \A g, h \in Files : file'[g] \in Ends /\ file'[g] = file'[h] => g = h
      BY <3>2 DEF EndsHaveOneFile
    <3>9. \A y \in Ends, o \in Procs : Closes(o, y)' =>
            /\ \A g \in Files : file'[g] # y
            /\ \A u \in Procs : Closes(u, y)' => u = o
      <4> TAKE y \in Ends, o \in Procs
      <4>1. CASE y = x
        BY <3>2, <3>3, <3>5, <4>1
      <4>2. CASE y # x
        BY <3>2, <3>3, <4>2 DEF EndsHaveOneFile
      <4> QED BY <4>1, <4>2
    <3> QED BY <3>1, <3>6, <3>7, <3>8, <3>9 DEF EndsHaveOneFile
  <2>11. \A q \in Pipes : Count(q)' <= PIPESIZE
    BY <1>2, CountsStay
  <2> QED BY <1>1, <2>5, <2>6, <2>7, <2>8, <2>9, <2>10, <2>11
<1> QED BY <1>10, <1>11

Fresh == [Empty EXCEPT !.live = TRUE, !.readopen = TRUE, !.writeopen = TRUE]

LEMMA FreshIs ==
  /\ Empty \in Structs /\ ~Empty.live /\ ~Empty.readopen /\ ~Empty.writeopen
  /\ Empty.nread = 0 /\ Empty.nwrite = 0
  /\ Fresh \in Structs /\ Fresh.live /\ Fresh.readopen /\ Fresh.writeopen
  /\ Fresh.nread = 0 /\ Fresh.nwrite = 0
<1>1. PICK b \in Byte : b = CHOOSE x \in Byte : TRUE
  <2>1. (CHOOSE x \in Byte : TRUE) \in Byte
    BY PipeAssumption
  <2> QED BY <2>1
<1>2. PICK data \in Slots(PIPESIZE, Byte) : data = [i \in 0 .. PIPESIZE - 1 |-> b]
  <2>1. [i \in 0 .. PIPESIZE - 1 |-> b] \in Slots(PIPESIZE, Byte)
    BY DEF Slots
  <2> QED BY <2>1
<1>3. 0 \in 0 .. WORD - 1
  BY Constants
<1>4. Empty = [live |-> FALSE, data |-> data, nread |-> 0, nwrite |-> 0, readopen |-> FALSE,
               writeopen |-> FALSE]
  BY <1>1, <1>2 DEF Empty
<1>5. Fresh = [live |-> TRUE, data |-> data, nread |-> 0, nwrite |-> 0, readopen |-> TRUE,
               writeopen |-> TRUE]
  <2>1. PICK g : g = [Empty EXCEPT !.live = TRUE]
    OBVIOUS
  <2>2. g = [live |-> TRUE, data |-> data, nread |-> 0, nwrite |-> 0, readopen |-> FALSE,
             writeopen |-> FALSE]
    BY <1>4, <2>1
  <2>3. PICK h : h = [g EXCEPT !.readopen = TRUE]
    OBVIOUS
  <2>4. h = [live |-> TRUE, data |-> data, nread |-> 0, nwrite |-> 0, readopen |-> TRUE,
             writeopen |-> FALSE]
    BY <2>2, <2>3
  <2>5. Fresh = [h EXCEPT !.writeopen = TRUE]
    BY <2>1, <2>3 DEF Fresh
  <2> QED BY <2>4, <2>5
<1>6. data \in [0 .. PIPESIZE - 1 -> Byte]
  BY DEF Slots
<1> QED BY <1>3, <1>4, <1>5, <1>6 DEF Structs

LEMMA FreeFileIs ==
  ASSUME Cardinality(FreeFiles) >= 2
  PROVE  \E f \in Files, g \in Files : /\ f = Min(FreeFiles) /\ g = Min(FreeFiles \ {f})
                                       /\ f # g /\ ref[f] = 0 /\ ref[g] = 0
<1>1. PICK S : S = FreeFiles /\ S \in SUBSET Files /\ \A f \in S : ref[f] = 0
  BY DEF FreeFiles
<1>2. Files \in SUBSET Nat /\ IsFiniteSet(Files)
  BY Constants, FS_Interval DEF Files
<1>3. IsFiniteSet(S)
  BY <1>1, <1>2, FS_Subset
<1>4. S # {}
  <2> SUFFICES ASSUME S = {} PROVE FALSE
    OBVIOUS
  <2> QED BY <1>1, FS_EmptySet
<1>5. PICK f \in S : f = Min(S)
  <2>1. S \in SUBSET Nat
    BY <1>1, <1>2
  <2>2. Min(S) \in S
    BY <1>4, <2>1, FirstIsMember
  <2> QED BY <2>2
<1>6. S \ {f} # {}
  <2> SUFFICES ASSUME S \ {f} = {} PROVE FALSE
    OBVIOUS
  <2>1. S \in SUBSET {f}
    OBVIOUS
  <2>2. IsFiniteSet({f}) /\ Cardinality({f}) = 1
    BY FS_Singleton
  <2>3. Cardinality(S) <= 1 /\ Cardinality(S) \in Nat
    BY <1>3, <2>1, <2>2, FS_Subset, FS_CardinalityType
  <2> QED BY <1>1, <2>3
<1>7. PICK g \in S : g = Min(S \ {f}) /\ g # f
  <2>1. S \ {f} \in SUBSET Nat
    BY <1>1, <1>2
  <2>2. Min(S \ {f}) \in S \ {f}
    BY <1>6, <2>1, FirstIsMember
  <2> QED BY <2>2
<1> QED BY <1>1, <1>5, <1>7

\* An end of a pipe that is not open is nobody's.
LEMMA ShutEnd ==
  ASSUME PipeInv, NEW q \in Pipes, ~pipe[q].live, NEW v \in BOOLEAN
  PROVE  /\ \A f \in Files : file[f] # End(q, v)
         /\ \A p \in Procs : ~Closes(p, End(q, v))
         /\ ~pipe[q].readopen /\ ~pipe[q].writeopen
<1> USE DEF PipeInv
<1>1. ~pipe[q].readopen /\ ~pipe[q].writeopen
  BY DEF EndsHaveOneFile
<1>2. PICK x \in Ends : x = End(q, v) /\ x.pipe = q /\ x.writable = v
  BY EndIs
<1>3. ~IsOpen(x)
  BY <1>1, <1>2 DEF IsOpen
<1> QED BY <1>1, <1>2, <1>3 DEF EndsHaveOneFile

LEMMA pipeallocIs ==
  ASSUME PipeInv, NEW p \in Procs, pipealloc(p)
  PROVE  \E q \in Pipes, f \in Files, g \in Files :
           /\ ~pipe[q].live /\ f # g /\ ref[f] = 0 /\ ref[g] = 0
           /\ ref'  = [ref EXCEPT ![f] = 1, ![g] = 1]
           /\ file' = [file EXCEPT ![f] = End(q, FALSE), ![g] = End(q, TRUE)]
           /\ closing' = [closing EXCEPT ![p] = <<f, g>>]
           /\ pipe' = [pipe EXCEPT ![q] = Fresh]
           /\ pc[p] = "run" /\ pc' = [pc EXCEPT ![p] = "descriptors"]
           /\ UNCHANGED <<plock, ofile, arg, got, result, exiting, killed>>
<1>1. PICK f \in Files, g \in Files : /\ f = Min(FreeFiles) /\ g = Min(FreeFiles \ {f})
                                      /\ f # g /\ ref[f] = 0 /\ ref[g] = 0
  BY FreeFileIs DEF pipealloc
<1>2. PICK q \in Pipes :
        /\ ~pipe[q].live
        /\ ref'  = [ref EXCEPT ![f] = 1, ![g] = 1]
        /\ file' = [file EXCEPT ![f] = End(q, FALSE), ![g] = End(q, TRUE)]
        /\ closing' = [closing EXCEPT ![p] = <<f, g>>]
        /\ pipe' = [pipe EXCEPT ![q] = Fresh]
  BY <1>1, Zenon DEF pipealloc, Fresh
<1>3. /\ pc[p] = "run" /\ pc' = [pc EXCEPT ![p] = "descriptors"]
      /\ UNCHANGED <<plock, ofile, arg, got, result, exiting, killed>>
  BY DEF pipealloc
<1> QED BY <1>1, <1>2, <1>3, Zenon

LEMMA pipeallocInv ==
  ASSUME PipeInv, NEW p \in Procs, pipealloc(p)
  PROVE  PipeInv'
<1> USE DEF PipeInv
<1>1. PICK q \in Pipes, f \in Files, g \in Files :
           /\ ~pipe[q].live /\ f # g /\ ref[f] = 0 /\ ref[g] = 0
           /\ ref'  = [ref EXCEPT ![f] = 1, ![g] = 1]
           /\ file' = [file EXCEPT ![f] = End(q, FALSE), ![g] = End(q, TRUE)]
           /\ closing' = [closing EXCEPT ![p] = <<f, g>>]
           /\ pipe' = [pipe EXCEPT ![q] = Fresh]
           /\ pc[p] = "run" /\ pc' = [pc EXCEPT ![p] = "descriptors"]
           /\ UNCHANGED <<plock, ofile, arg, got, result, exiting, killed>>
  BY pipeallocIs
<1>2. /\ pipe' \in [Pipes -> Structs] /\ pipe'[q] = Fresh
      /\ \A y \in Pipes : y # q => pipe'[y] = pipe[y]
  BY <1>1, FreshIs DEF PipeTypeOK, Structs
<1>3. /\ ref' \in [Files -> Nat]
      /\ \A h \in Files : ref'[h] = IF h \in {f, g} THEN 1 ELSE ref[h]
  BY <1>1 DEF PipeTypeOK
<1>4. PICK x \in Ends, y \in Ends : /\ x = End(q, FALSE) /\ x.pipe = q /\ ~x.writable
                                    /\ y = End(q, TRUE) /\ y.pipe = q /\ y.writable
                                    /\ x # NoPipe /\ y # NoPipe /\ x # y
  <2>1. /\ End(q, FALSE) \in Ends /\ End(q, FALSE).pipe = q /\ End(q, FALSE).writable = FALSE
        /\ End(q, TRUE) \in Ends /\ End(q, TRUE).pipe = q /\ End(q, TRUE).writable = TRUE
        /\ End(q, FALSE) # NoPipe /\ End(q, TRUE) # NoPipe
    BY EndIs
  <2> QED BY <2>1
<1>5. /\ file' \in [Files -> {NoPipe, Device} \cup Ends]
      /\ \A h \in Files : file'[h] = IF h = f THEN x ELSE IF h = g THEN y ELSE file[h]
  BY <1>1, <1>4 DEF PipeTypeOK
<1>6. PICK s \in Seq(Files) : s = <<f, g>> /\ Len(s) = 2
  <2>1. <<f, g>> \in Seq(Files) /\ Len(<<f, g>>) = 2
    OBVIOUS
  <2> QED BY <2>1
<1>7. /\ closing' \in [Procs -> Seq(Files)]
      /\ \A o \in Procs : closing'[o] = IF o = p THEN s ELSE closing[o]
  BY <1>1, <1>6 DEF PipeTypeOK
<1>8. \A o \in Procs : Len(closing'[o]) <= 2
  <2> TAKE o \in Procs
  <2>1. CASE o = p
    <3>1. Len(closing'[o]) = 2
      BY <1>6, <1>7, <2>1
    <3>2. 2 <= 2
      OBVIOUS
    <3> QED BY ONLY <3>1, <3>2, Zenon
  <2>2. CASE o # p
    BY <1>7, <2>2 DEF PipeTypeOK
  <2> QED BY <2>1, <2>2
<1>9. pc' \in [Procs -> Points] /\ \A o \in Procs : pc'[o] = IF o = p THEN "descriptors" ELSE pc[o]
  BY <1>1 DEF PipeTypeOK, Points
<1>10. PipeTypeOK'
  BY <1>1, <1>2, <1>3, <1>5, <1>7, <1>8, <1>9 DEF PipeTypeOK, Structs
<1>11. LockHeldToSleep'
  <2>1. \A o \in Procs : \/ pc'[o] = pc[o] /\ arg'[o].pipe = arg[o].pipe
                         \/ pc[o] \notin Tested /\ pc'[o] \notin Tested
    BY <1>1, <1>9 DEF Tested
  <2> QED BY <1>1, <2>1, LocksStay
<1>12. PICK o0 \in OFiles, c \in Closings : o0 = ofile /\ c = closing
  BY DEF PipeTypeOK, OFiles, Closings
<1>13. CallsHaveFiles'
  <2>1. \A o \in Procs, d \in FDs : ofile[o][d] # NoFile => file'[ofile[o][d]] = file[ofile[o][d]]
    <3> SUFFICES ASSUME NEW o \in Procs, NEW d \in FDs, ofile[o][d] # NoFile
        PROVE file'[ofile[o][d]] = file[ofile[o][d]]
      OBVIOUS
    <3>1. PICK h \in Files : h = ofile[o][d]
      BY SMTT(30) DEF PipeTypeOK
    <3>2. ref[h] >= 1
      BY <1>12, <3>1, RefsCount, ReferencesAre DEF RefIsExact
    <3>3. h # f /\ h # g
      BY <1>1, <3>2
    <3> QED BY <1>5, <3>1, <3>3
  <2>2. \A o \in Procs : \/ pc'[o] \notin InCalls
                         \/ /\ arg'[o].pipe = arg[o].pipe /\ ofile'[o] = ofile[o]
                            /\ pc'[o] \in Writing => pc[o] \in Writing
                            /\ pc'[o] \in Reading => pc[o] \in Reading
                            /\ pc'[o] = "pipeclose" => pc[o] = "pipeclose"
    BY <1>1, <1>9 DEF InCalls, Writing, Reading
  <2> QED BY <2>1, <2>2, CallsStay
<1>14. ~pipe[q].readopen /\ ~pipe[q].writeopen
  BY <1>1, ShutEnd
<1>15. SleepersWait'
  <2> SUFFICES ASSUME NEW o \in Procs, pc'[o] \in ToRead \cup ToWrite
      PROVE /\ pc'[o] \in ToRead => /\ (Count(arg[o].pipe) = 0)' \/ \E u \in Procs : killed'[u]
                                    /\ pipe'[arg'[o].pipe].writeopen
            /\ pc'[o] \in ToWrite => (Room(arg[o].pipe) = 0)' /\ pipe'[arg'[o].pipe].readopen
    BY DEF SleepersWait, ToRead, ToWrite
  <2>1. pc[o] = pc'[o] /\ arg'[o] = arg[o]
    BY <1>1, <1>9 DEF ToRead, ToWrite
  <2>2. PICK z \in Pipes : z = arg[o].pipe
    BY <2>1 DEF CallsHaveFiles, ToRead, ToWrite, Reading, Writing
  <2>3. /\ pc[o] \in ToRead => /\ Count(z) = 0 \/ \E u \in Procs : killed[u]
                               /\ pipe[z].writeopen
        /\ pc[o] \in ToWrite => Room(z) = 0 /\ pipe[z].readopen
    BY <2>2 DEF SleepersWait, ToRead, ToWrite
  <2>4. pipe'[z] = pipe[z]
    BY <1>2, <1>14, <2>1, <2>3
  <2>5. Count(arg[o].pipe)' = Count(z) /\ Room(arg[o].pipe)' = Room(z)
    BY <2>1, <2>2, <2>4 DEF Count, Room
  <2> QED BY <1>1, <2>1, <2>2, <2>3, <2>4, <2>5
<1>16. ClosingMatchesCalls'
  <2>1. \A o \in Procs : OpenFDs(o)' = OpenFDs(o)
    BY <1>1 DEF OpenFDs, FreeFDs
  <2>2. Len(closing'[p]) = 2
    BY <1>6, <1>7
  <2> QED BY <1>7, <1>9, <2>1, <2>2 DEF ClosingMatchesCalls
<1>17. RefIsExact'
  <2>1. c[p] = <<>> /\ Queues(c, closing', p, s)
    BY <1>1, <1>6, <1>12 DEF ClosingMatchesCalls, Queues
  <2>2. \A h \in Files : ref'[h] = ref[h] + Is(f, h) + Is(g, h)
    BY <1>1, <1>3 DEF PipeTypeOK, Is
  <2>3. \A h \in Files : Refs(ofile', closing', h) = Refs(o0, c, h) + Is(f, h) + Is(g, h)
    <3> TAKE h \in Files
    <3>1. /\ Cardinality(Closing(c, h, 1)) \in Nat /\ Cardinality(Closing(closing', h, 1)) \in Nat
          /\ Cardinality(Closing(closing', h, 1)) = Cardinality(Closing(c, h, 1))
               - IsAt(c[p], 1, h) + IsAt(s, 1, h)
      BY <2>1, ClosingMoves
    <3>2. /\ Cardinality(Closing(c, h, 2)) \in Nat /\ Cardinality(Closing(closing', h, 2)) \in Nat
          /\ Cardinality(Closing(closing', h, 2)) = Cardinality(Closing(c, h, 2))
               - IsAt(c[p], 2, h) + IsAt(s, 2, h)
      BY <2>1, ClosingMoves
    <3>3. /\ IsAt(c[p], 1, h) = 0 /\ IsAt(c[p], 2, h) = 0
      BY <2>1 DEF IsAt
    <3>4. IsAt(s, 1, h) = Is(f, h) /\ IsAt(s, 2, h) = Is(g, h)
      BY <1>6 DEF Is, IsAt
    <3>5. PICK i \in Nat, j \in Nat : i = Is(f, h) /\ j = Is(g, h)
      <4>1. Is(f, h) \in Nat /\ Is(g, h) \in Nat
        BY DEF Is
      <4> QED BY <4>1
    <3>6. PICK n \in Nat, a \in Nat, b \in Nat, a1 \in Nat, b1 \in Nat :
            /\ n = Cardinality(Holding(o0, h))
            /\ a = Cardinality(Closing(c, h, 1)) /\ b = Cardinality(Closing(c, h, 2))
            /\ a1 = Cardinality(Closing(closing', h, 1)) /\ b1 = Cardinality(Closing(closing', h, 2))
      BY <3>1, <3>2, RefsInNat
    <3>7. a1 = a + i /\ b1 = b + j
      BY <3>1, <3>2, <3>3, <3>4, <3>5, <3>6
    <3>8. Refs(ofile', closing', h) = n + a1 + b1 /\ Refs(o0, c, h) = n + a + b
      BY <1>1, <1>12, <3>6 DEF Refs
    <3>9. n + a1 + b1 = n + a + b + i + j
      BY <3>7
    <3> QED BY <3>5, <3>8, <3>9, Zenon
  <2>4. \A h \in Files : ref[h] = Refs(o0, c, h) /\ References(h)' = Refs(ofile', closing', h)
    BY <1>12, ReferencesAre DEF RefIsExact
  <2> QED BY <2>2, <2>3, <2>4 DEF RefIsExact
<1>18. EndsHaveOneFile'
  <2>1. \A h \in Files : ref'[h] = 0 <=> file'[h] = NoPipe
    <3> TAKE h \in Files
    <3>1. CASE h \in {f, g}
      <4>1. ref'[h] = 1 /\ 1 # 0
        BY <1>3, <3>1
      <4>2. file'[h] = x \/ file'[h] = y
        BY <1>5, <3>1
      <4>3. x # NoPipe /\ y # NoPipe
        BY <1>4
      <4> QED BY ONLY <4>1, <4>2, <4>3, Zenon
    <3>2. CASE h \notin {f, g}
      BY <1>3, <1>5, <3>2 DEF EndsHaveOneFile
    <3> QED BY <3>1, <3>2
  <2>2. \A z \in Ends : z.pipe = q => z = x \/ z = y
    <3> SUFFICES ASSUME NEW z \in Ends, z.pipe = q PROVE z = x \/ z = y
      OBVIOUS
    <3>1. PICK v \in BOOLEAN : z = End(q, v)
      BY EndIs
    <3>2. v = TRUE \/ v = FALSE
      OBVIOUS
    <3> QED BY <1>4, <3>1, <3>2
  <2>3. /\ \A h \in Files : file[h] # x /\ file[h] # y
        /\ \A o \in Procs : ~Closes(o, x) /\ ~Closes(o, y)
    BY <1>1, <1>4, ShutEnd
  <2>4. file[f] = NoPipe /\ file[g] = NoPipe
    BY <1>1 DEF EndsHaveOneFile
  <2>5. \A z \in Ends, h \in Files : file'[h] = z <=> \/ file[h] = z
                                                      \/ h = f /\ z = x
                                                      \/ h = g /\ z = y
    <3>1. \A z \in Ends : z # NoPipe
      BY EndIs
    <3> QED BY <1>1, <1>5, <2>3, <2>4, <3>1
  <2>6. \A z \in Ends, o \in Procs : Closes(o, z)' <=> Closes(o, z)
    BY <1>1, <1>9 DEF Closes
  <2>7. \A z \in Ends : IsOpen(z)' <=> IsOpen(z) \/ z = x \/ z = y
    <3> TAKE z \in Ends
    <3>1. z.pipe \in Pipes /\ (z = x \/ z = y => z.pipe = q)
      BY <1>4, EndIs
    <3>2. CASE z.pipe = q
      BY <1>2, <2>2, <3>2, FreshIs DEF IsOpen
    <3>3. CASE z.pipe # q
      BY <1>2, <3>1, <3>3 DEF IsOpen
    <3> QED BY <3>2, <3>3
  <2>8. \A z \in Ends : IsOpen(z)' <=> (\E h \in Files : file'[h] = z) \/ (\E o \in Procs : Closes(o, z)')
    <3> TAKE z \in Ends
    <3>1. IsOpen(z) <=> (\E h \in Files : file[h] = z) \/ (\E o \in Procs : Closes(o, z))
      BY DEF EndsHaveOneFile
    <3> QED BY <2>5, <2>6, <2>7, <3>1
  <2>9. \A h, h2 \in Files : file'[h] \in Ends /\ file'[h] = file'[h2] => h = h2
    <3> SUFFICES ASSUME NEW h \in Files, NEW h2 \in Files, NEW z \in Ends, file'[h] = z, file'[h2] = z
        PROVE h = h2
      OBVIOUS
    <3>1. CASE z = x
      <4>1. \A n \in Files : file'[n] = x => n = f
        BY <1>4, <2>3, <2>5
      <4> QED BY <3>1, <4>1
    <3>2. CASE z = y
      <4>1. \A n \in Files : file'[n] = y => n = g
        BY <1>4, <2>3, <2>5
      <4> QED BY <3>2, <4>1
    <3>3. CASE z # x /\ z # y
      <4>1. file[h] = z /\ file[h2] = z
        BY <2>5, <3>3
      <4> QED BY <4>1 DEF EndsHaveOneFile
    <3> QED BY <3>1, <3>2, <3>3
  <2>10. \A z \in Ends, o \in Procs : Closes(o, z)' =>
           /\ \A h \in Files : file'[h] # z
           /\ \A u \in Procs : Closes(u, z)' => u = o
    BY <2>3, <2>5, <2>6 DEF EndsHaveOneFile
  <2>11. \A z \in Pipes : pipe'[z].live <=> pipe'[z].readopen \/ pipe'[z].writeopen
    BY <1>2, FreshIs DEF EndsHaveOneFile
  <2> QED BY <2>1, <2>8, <2>9, <2>10, <2>11 DEF EndsHaveOneFile
<1>19. \A z \in Pipes : Count(z)' <= PIPESIZE
  <2> TAKE z \in Pipes
  <2>1. CASE z = q
    <3>1. Count(z)' = (0 - 0 + WORD) % WORD
      BY <1>2, <2>1, FreshIs DEF Count
    <3>2. WORD % WORD = 0
      BY Constants, DistIs, 0 \in 0 .. WORD - 1 DEF Dist
    <3> QED BY <3>1, <3>2, Constants
  <2>2. CASE z # q
    BY <1>2, <2>2, CountKeeps
  <2> QED BY <2>1, <2>2
<1> QED BY <1>10, <1>11, <1>13, <1>15, <1>16, <1>17, <1>18, <1>19

LEMMA PipeInitInv ==
  ASSUME NEW fds \in ConsoleFDs, PipeInit({"sh"}, fds)
  PROVE  PipeInv
<1>1. fds \in SUBSET FDs /\ fds # {} /\ IsFiniteSet(fds)
  BY ShellAssumption, Constants, FS_Subset
<1>2. Cardinality(fds) \in Nat /\ Cardinality(fds) # 0
  BY <1>1, FS_CardinalityType, FS_EmptySet
<1>3. Cardinality({"sh"}) * Cardinality(fds) = Cardinality(fds)
  <2>1. Cardinality({"sh"}) = 1
    BY FS_Singleton
  <2> QED BY <1>2, <2>1
<1>4. /\ pipe \in [Pipes -> Structs] /\ \A q \in Pipes : pipe[q] = Empty
      /\ plock = [q \in Pipes |-> Nobody]
      /\ ref \in [Files -> Nat]
      /\ \A f \in Files : ref[f] = IF f = 1 THEN Cardinality(fds) ELSE 0
      /\ file \in [Files -> {NoPipe, Device} \cup Ends]
      /\ \A f \in Files : file[f] = IF f = 1 THEN Device ELSE NoPipe
  BY <1>2, <1>3, FreshIs DEF PipeInit
<1>5. /\ ofile \in [Procs -> [FDs -> Files \cup {NoFile}]]
      /\ \A p \in Procs, d \in FDs : ofile[p][d] = IF p = "sh" /\ d \in fds THEN 1 ELSE NoFile
  <2>1. 1 \in Files
    BY Constants DEF Files
  <2> QED BY <2>1 DEF PipeInit
<1>6. /\ pc \in [Procs -> Points]
      /\ \A p \in Procs : pc[p] = IF p = "sh" THEN "run" ELSE "unborn"
  BY DEF PipeInit, Points
<1>7. arg \in [Procs -> Calls]
  <2>1. NoCall \in Calls
    BY DEF NoCall, Calls
  <2> QED BY <2>1 DEF PipeInit
<1>8. closing \in [Procs -> Seq(Files)] /\ \A p \in Procs : closing[p] = <<>>
  BY DEF PipeInit
<1>9. \A p \in Procs : Len(closing[p]) <= 2
  <2>1. Len(<<>>) <= 2
    OBVIOUS
  <2> QED BY ONLY <1>8, <2>1, Zenon
<1>10. PipeTypeOK
  <2>1. pipe \in [Pipes -> [live : BOOLEAN, data : [0 .. PIPESIZE - 1 -> Byte],
                            nread : 0 .. WORD - 1, nwrite : 0 .. WORD - 1,
                            readopen : BOOLEAN, writeopen : BOOLEAN]]
    BY <1>4 DEF Structs
  <2>2. plock \in [Pipes -> Procs \cup {Nobody}]
    BY <1>4
  <2>3. arg \in [Procs -> [pipe : Pipes \cup Ends \cup {NoPipe}, todo : Seq(Byte), n : Nat, done : Nat]]
    BY <1>7 DEF Calls
  <2>4. /\ got \in [Procs -> Seq(Byte)] /\ result \in [Procs -> Int]
        /\ killed \in [Procs -> BOOLEAN] /\ exiting \in [Procs -> BOOLEAN]
    BY DEF PipeInit
  <2> QED BY <1>4, <1>5, <1>6, <1>8, <1>9, <2>1, <2>2, <2>3, <2>4 DEF PipeTypeOK
<1>11. LockHeldToSleep
  BY <1>4, <1>6, Constants DEF LockHeldToSleep
<1>12. CallsHaveFiles
  BY <1>6 DEF CallsHaveFiles, Writing, Reading
<1>13. ClosingMatchesCalls
  BY <1>5, <1>6, <1>8 DEF ClosingMatchesCalls, OpenFDs, FreeFDs
<1>14. RefIsExact
  <2> SUFFICES ASSUME NEW f \in Files PROVE ref[f] = Refs(ofile, closing, f)
    BY ReferencesAre DEF RefIsExact
  <2>1. Closing(closing, f, 1) = {} /\ Closing(closing, f, 2) = {}
    BY <1>8 DEF Closing
  <2>2. Cardinality(Closing(closing, f, 1)) = 0 /\ Cardinality(Closing(closing, f, 2)) = 0
    BY <2>1, FS_EmptySet
  <2>3. CASE f = 1
    <3>1. Holding(ofile, f) = {"sh"} \X fds
      <4>1. \A p \in Procs, d \in FDs : <<p, d>> \in Holding(ofile, f) <=> <<p, d>> \in {"sh"} \X fds
        BY <1>5, <2>3 DEF Holding, NoFile
      <4>2. /\ Holding(ofile, f) \in SUBSET (Procs \X FDs)
            /\ {"sh"} \X fds \in SUBSET (Procs \X FDs)
        BY <1>1, Constants DEF Holding
      <4> QED BY <4>1, <4>2
    <3>2. Cardinality(Holding(ofile, f)) = Cardinality(fds)
      BY <1>1, <3>1, CardRow
    <3> QED BY <1>2, <1>4, <2>2, <2>3, <3>2 DEF Refs
  <2>4. CASE f # 1
    <3>1. Holding(ofile, f) = {}
      BY <1>5, <2>4 DEF Holding, NoFile, Files
    <3>2. Cardinality(Holding(ofile, f)) = 0
      BY <3>1, FS_EmptySet
    <3> QED BY <1>4, <2>2, <2>4, <3>2 DEF Refs
  <2> QED BY <2>3, <2>4
<1>15. EndsHaveOneFile
  <2>1. \A f \in Files : ref[f] = 0 <=> file[f] = NoPipe
    BY <1>2, <1>4, EndIs
  <2>2. \A x \in Ends, f \in Files : file[f] # x
    BY <1>4, EndIs
  <2>3. \A x \in Ends, p \in Procs : ~Closes(p, x)
    BY <1>6 DEF Closes
  <2>4. \A x \in Ends : ~IsOpen(x)
    BY <1>4, EndIs, FreshIs DEF IsOpen
  <2>5. \A q \in Pipes : pipe[q].live <=> pipe[q].readopen \/ pipe[q].writeopen
    BY <1>4, FreshIs
  <2> QED BY <2>1, <2>2, <2>3, <2>4, <2>5 DEF EndsHaveOneFile
<1>16. SleepersWait
  BY <1>6 DEF SleepersWait
<1>17. \A q \in Pipes : Count(q) <= PIPESIZE /\ Count(q) = 0
  <2> TAKE q \in Pipes
  <2>1. Count(q) = (0 - 0 + WORD) % WORD
    BY <1>4, FreshIs DEF Count
  <2>2. WORD % WORD = 0
    BY Constants, DistIs, 0 \in 0 .. WORD - 1 DEF Dist
  <2> QED BY <2>1, <2>2, Constants
<1> QED BY <1>10, <1>11, <1>12, <1>13, <1>14, <1>15, <1>16, <1>17 DEF PipeInv

\* The properties of pipes follow from the invariant.
LEMMA PipesMatch ==
  ASSUME PipeInv
  PROVE  PipeMatchesFiles /\ NobodyOversleeps
<1> USE DEF PipeInv
<1>1. ASSUME NEW q \in Pipes, NEW v \in BOOLEAN
      PROVE  (IF v THEN pipe[q].writeopen ELSE pipe[q].readopen) <=>
               \/ \E f \in Files : ref[f] > 0 /\ file[f] = End(q, v)
               \/ \E p \in Procs : pc[p] = "pipeclose" /\ arg[p].pipe = End(q, v)
  <2>1. PICK x \in Ends : x = End(q, v) /\ x.pipe = q /\ x.writable = v /\ x # NoPipe
    BY EndIs
  <2>2. IsOpen(x) <=> (\E f \in Files : file[f] = x) \/ (\E p \in Procs : Closes(p, x))
    BY DEF EndsHaveOneFile
  <2>3. \A f \in Files : file[f] = x => ref[f] > 0
    <3> SUFFICES ASSUME NEW f \in Files, file[f] = x PROVE ref[f] > 0
      OBVIOUS
    <3>1. ref[f] \in Nat
      BY DEF PipeTypeOK
    <3>2. ref[f] # 0
      BY <2>1 DEF EndsHaveOneFile
    <3> QED BY <3>1, <3>2
  <2>4. IsOpen(x) <=> (IF v THEN pipe[q].writeopen ELSE pipe[q].readopen)
    BY <2>1 DEF IsOpen
  <2>5. \A p \in Procs : Closes(p, x) <=> pc[p] = "pipeclose" /\ arg[p].pipe = x
    BY DEF Closes
  <2> QED BY <2>1, <2>2, <2>3, <2>4, <2>5
<1>2. ASSUME NEW p \in Procs, NEW d \in FDs, ofile[p][d] # NoFile
      PROVE  File(p, d) # NoPipe
  <2>1. PICK o \in OFiles, c \in Closings : o = ofile /\ c = closing
    BY DEF PipeTypeOK, OFiles, Closings
  <2>2. PICK f \in Files : f = ofile[p][d]
    BY <1>2 DEF PipeTypeOK
  <2>3. ref[f] >= 1
    BY <2>1, <2>2, RefsCount, ReferencesAre DEF RefIsExact
  <2>4. file[f] # NoPipe
    BY <2>3 DEF EndsHaveOneFile
  <2> QED BY <1>2, <2>2, <2>4 DEF File
<1>3. PipeMatchesFiles
  BY <1>1, <1>2 DEF PipeMatchesFiles, EndsHaveOneFile
<1>4. NobodyOversleeps
  BY DEF NobodyOversleeps, SleepersWait
<1> QED BY <1>3, <1>4

-------------------------------------------------------------------------------
(* A ring of which the first n slots are confirmed and the next m are not. *)

Ahead(W, a, b, n)       == n = Dist(W, a, b)
Places(data, new, j, x) == new = [data EXCEPT ![j] = x]
Parts(P, W, a, b, c, n, m) ==
  /\ Wheel(P, W) /\ P < W /\ a \in 0 .. W - 1 /\ b \in 0 .. W - 1 /\ c \in 0 .. W - 1
  /\ Ahead(W, a, b, n) /\ Ahead(W, b, c, m) /\ n \in Nat /\ m \in Nat /\ n + m <= P

LEMMA PartsAre ==
  ASSUME NEW P, NEW W, NEW a, NEW b, NEW c, NEW n, NEW m, Parts(P, W, a, b, c, n, m)
  PROVE  /\ P \in Nat \ {0} /\ W \in Nat \ {0} /\ P < W /\ a \in Int /\ b \in Int /\ c \in Int
         /\ n \in Nat /\ m \in Nat /\ n + m <= P
         /\ b = (a + n) % W /\ c = (b + m) % W
         /\ Dist(W, a, c) = n + m /\ c = (a + (n + m)) % W
<1>1. P \in Nat \ {0} /\ W \in Nat \ {0} /\ P < W
  BY DEF Parts, Wheel
<1>2. a \in 0 .. W - 1 /\ b \in 0 .. W - 1 /\ c \in 0 .. W - 1 /\ n \in Nat /\ m \in Nat /\ n + m <= P
  BY DEF Parts
<1>3. n = Dist(W, a, b) /\ m = Dist(W, b, c)
  BY DEF Parts, Ahead
<1>4. a \in Int /\ b \in Int /\ c \in Int
  BY <1>1, <1>2
<1>5. b = (a + n) % W
  <2>1. PICK x \in Int : x = a + n
    BY <1>2, <1>4
  <2> QED BY <1>1, <1>2, <1>3, <2>1, DistAhead
<1>6. c = (b + m) % W
  <2>1. PICK x \in Int : x = b + m
    BY <1>2, <1>4
  <2> QED BY <1>1, <1>2, <1>3, <2>1, DistAhead
<1>7. Dist(W, a, c) = n + m
  <2>1. Dist(W, a, b) + m < W
    BY <1>1, <1>2, <1>3
  <2>2. Dist(W, a, c) = Dist(W, a, b) + m
    BY <1>1, <1>2, <1>6, <2>1, DistGrows
  <2> QED BY <1>3, <2>2
<1>8. c = (a + (n + m)) % W
  <2>1. PICK x \in Int : x = a + (n + m)
    BY <1>2, <1>4
  <2>2. x = a + Dist(W, a, c)
    BY <1>7, <2>1
  <2>3. c = x % W
    BY <1>1, <1>2, <2>2, DistAhead
  <2> QED BY <2>1, <2>3
<1> QED BY <1>1, <1>2, <1>4, <1>5, <1>6, <1>7, <1>8

\* One more slot is filled, at the end.
LEMMA PlacedIsFilled ==
  ASSUME NEW S, NEW P, NEW W, Wheel(P, W), NEW data \in Slots(P, S), NEW c \in Int, NEW x \in S,
         NEW new, Places(data, new, c % P, x)
  PROVE  new = Fill(P, W, data, c, <<x>>, 1)
<1>1. P \in Nat \ {0}
  BY DEF Wheel
<1>2. PICK t \in 0 .. P - 1 : t = c % P
  BY <1>1
<1>3. Slot(P, c, 1) = t
  <2>1. c + 1 - 1 = c
    OBVIOUS
  <2> QED BY <1>2, <2>1 DEF Slot
<1>4. Offset(P, W, c, t) = 0
  <2>1. 1 \in 1 .. P
    BY <1>1
  <2>2. Offset(P, W, c, Slot(P, c, 1)) = 1 - 1
    BY <2>1, OffsetOf
  <2> QED BY <1>3, <2>2
<1>5. \A j \in 0 .. P - 1 : new[j] = IF j = t THEN x ELSE data[j]
  BY <1>2 DEF Places, Slots
<1>6. PICK F : F = Fill(P, W, data, c, <<x>>, 1)
  OBVIOUS
<1>7. \A j \in 0 .. P - 1 : F[j] = IF j = t THEN x ELSE data[j]
  <2> TAKE j \in 0 .. P - 1
  <2>1. PICK u \in 0 .. P - 1 : u = Offset(P, W, c, j)
    BY <1>1, OffsetIs
  <2>2. PICK v \in Int : v = u + 1
    BY <1>1
  <2>3. F[j] = IF v <= 1 THEN <<x>>[v] ELSE data[j]
    BY <1>6, <2>1, <2>2, FillIs
  <2>4. CASE j = t
    <3>1. v = 1
      BY <1>4, <2>1, <2>2, <2>4
    <3> QED BY <2>3, <2>4, <3>1
  <2>5. CASE j # t
    <3>1. Slot(P, c, v) = j
      BY <1>1, <2>1, <2>2, SlotOf
    <3>2. v # 1
      BY <1>3, <2>5, <3>1
    <3>3. ~(v <= 1)
      BY <1>1, <2>1, <2>2, <3>2
    <3> QED BY <2>3, <2>5, <3>3
  <2> QED BY <2>4, <2>5
<1>8. new \in [0 .. P - 1 -> S] /\ DOMAIN F = 0 .. P - 1 /\ F = [j \in 0 .. P - 1 |-> F[j]]
  BY <1>2, <1>6 DEF Places, Slots, Fill
<1>9. new = [j \in 0 .. P - 1 |-> new[j]]
  BY <1>8
<1> QED BY <1>5, <1>6, <1>7, <1>8, <1>9

IsJoined(x, y, z) == x = y \o z

LEMMA RingJoins ==
  ASSUME NEW S, NEW P \in Nat \ {0}, NEW data \in Slots(P, S), NEW a \in Int,
         NEW n \in Nat, NEW m \in Nat, NEW b \in Int, IsSum(b, a, n), NEW l \in Nat, IsSum(l, n, m)
  PROVE  IsJoined(Ring(data, P, a, l), Ring(data, P, a, n), Ring(data, P, b, m))
BY RingSplits DEF IsJoined

\* FillKeeps, for counters that are sums and remainders.
LEMMA FillSpares ==
  ASSUME NEW P, NEW W, Wheel(P, W), NEW data, NEW a \in Int, NEW n \in Nat,
         NEW c \in Int, IsSum(c, a, n), NEW b \in Int, IsMod(b, c, W),
         NEW s, NEW k \in Nat, n + k <= P
  PROVE  Ring(Fill(P, W, data, b, s, k), P, a, n) = Ring(data, P, a, n)
<1>1. c = a + n /\ b = c % W
  BY DEF IsSum, IsMod
<1> QED BY <1>1, FillKeeps

LEMMA RingGrows ==
  ASSUME NEW S, NEW P, NEW W, NEW a, NEW b, NEW c, NEW n, NEW m, Parts(P, W, a, b, c, n, m), n + m < P,
         NEW data \in Slots(P, S), NEW x \in S,
         NEW new, Places(data, new, c % P, x),
         NEW k \in Nat, IsSum(k, m, 1), NEW l \in Nat, IsSum(l, n, k)
  PROVE  /\ new \in Slots(P, S)
         /\ Ring(new, P, a, n) = Ring(data, P, a, n)
         /\ Ring(new, P, b, k) = Append(Ring(data, P, b, m), x)
         /\ Ring(new, P, a, l) = Ring(data, P, a, n) \o Append(Ring(data, P, b, m), x)
<1>1. /\ P \in Nat \ {0} /\ W \in Nat \ {0} /\ P < W /\ a \in Int /\ b \in Int /\ c \in Int
      /\ n \in Nat /\ m \in Nat
  BY PartsAre
<1>2. Wheel(P, W)
  BY DEF Parts
<1>3. b = (a + n) % W /\ c = (b + m) % W /\ c = (a + (n + m)) % W
  BY PartsAre
<1>4. PICK s \in Seq(S) : s = <<x>>
  <2>1. <<x>> \in Seq(S)
    OBVIOUS
  <2> QED BY <2>1
<1>5. PICK one \in Nat : one = 1
  OBVIOUS
<1>6. Len(s) = one /\ SubSeq(s, 1, one) = s /\ one \in 0 .. Len(s)
  <2>1. Len(<<x>>) = 1
    OBVIOUS
  <2>2. Len(s) = one
    BY <1>4, <1>5, <2>1
  <2>3. SubSeq(s, 1, Len(s)) = s
    BY SubSeqFull
  <2> QED BY <2>2, <2>3
<1>61. new = Fill(P, W, data, c, s, one)
  BY <1>1, <1>2, <1>4, <1>5, PlacedIsFilled
<1>7. new \in Slots(P, S)
  BY <1>1, <1>2, <1>6, <1>61, FillInSlots
<1>8. PICK an \in Int : an = a + n
  BY <1>1
<1>9. PICK bm \in Int : bm = b + m
  BY <1>1
<1>10. PICK nm \in Nat : nm = n + m
  BY <1>1
<1>11. PICK anm \in Int : anm = a + nm
  BY <1>1
<1>12. IsSum(bm, b, m) /\ IsMod(c, bm, W) /\ IsSum(anm, a, nm) /\ IsMod(c, anm, W) /\ IsMod(b, an, W)
  BY <1>3, <1>8, <1>9, <1>10, <1>11 DEF IsSum, IsMod
<1>13. /\ k <= P /\ l <= P /\ IsSum(l, nm, one) /\ IsSum(k, m, one)
       /\ IsSum(nm, n, m) /\ IsSum(an, a, n) /\ n \in 0 .. nm
  BY <1>1, <1>5, <1>8, <1>10 DEF IsSum
<1>131. Ring(new, P, c, one) = s
  <2>1. PICK t \in Seq(S) : t = Ring(new, P, c, one)
    BY <1>1, <1>7, RingInSeq
  <2>2. Len(t) = one /\ \A i \in 1 .. one : t[i] = new[Slot(P, c, i)]
    BY <2>1, RingIs
  <2>3. Slot(P, c, 1) = c % P
    <3>1. c + 1 - 1 = c
      BY <1>1
    <3> QED BY <3>1 DEF Slot
  <2>4. c % P \in 0 .. P - 1
    BY <1>1, DivMod
  <2>5. new[c % P] = x
    BY <2>4 DEF Places, Slots
  <2>6. \A i \in 1 .. one : t[i] = s[i]
    BY <1>4, <1>5, <2>2, <2>3, <2>5
  <2>7. t = s
    BY <1>6, <2>2, <2>6, SeqEqual
  <2> QED BY <2>1, <2>7
<1>14. Ring(new, P, b, k) = Ring(data, P, b, m) \o s
  <2>1. IsJoined(Ring(new, P, b, k), Ring(new, P, b, m), Ring(new, P, bm, one))
    BY <1>1, <1>7, <1>12, <1>13, RingJoins
  <2>2. m + one <= P
    BY <1>1, <1>5
  <2>3. Ring(Fill(P, W, data, c, s, one), P, b, m) = Ring(data, P, b, m)
    BY <1>1, <1>2, <1>12, <2>2, FillSpares, SMTT(30)
  <2>4. c = bm % W
    BY <1>12 DEF IsMod
  <2>5. Ring(new, P, c, one) = Ring(new, P, bm, one)
    BY <1>1, <1>2, <2>4, RingWraps
  <2>6. IsJoined(Ring(new, P, b, k), Ring(data, P, b, m), s)
    BY <1>61, <1>131, <2>1, <2>3, <2>5, Zenon
  <2> QED BY <2>6 DEF IsJoined
<1>141. Ring(new, P, a, nm) = Ring(data, P, a, nm)
  <2>1. nm + one <= P
    BY <1>1, <1>5, <1>10
  <2>2. Ring(Fill(P, W, data, c, s, one), P, a, nm) = Ring(data, P, a, nm)
    BY <1>1, <1>2, <1>12, <2>1, FillSpares, SMTT(30)
  <2> QED BY <1>61, <2>2
<1>15. Ring(new, P, a, l) = Ring(data, P, a, nm) \o s
  <2>1. IsJoined(Ring(new, P, a, l), Ring(new, P, a, nm), Ring(new, P, anm, one))
    BY <1>1, <1>7, <1>12, <1>13, RingJoins
  <2>2. c = anm % W
    BY <1>12 DEF IsMod
  <2>3. Ring(new, P, c, one) = Ring(new, P, anm, one)
    BY <1>1, <1>2, <2>2, RingWraps
  <2>4. IsJoined(Ring(new, P, a, l), Ring(data, P, a, nm), s)
    BY <1>131, <1>141, <2>1, <2>3, Zenon
  <2> QED BY <2>4 DEF IsJoined
<1>16. Ring(data, P, a, nm) = Ring(data, P, a, n) \o Ring(data, P, b, m)
  <2>1. Ring(data, P, a, nm) = Ring(data, P, a, n) \o Ring(data, P, an, m)
    <3>1. IsJoined(Ring(data, P, a, nm), Ring(data, P, a, n), Ring(data, P, an, m))
      BY <1>1, <1>13, RingJoins
    <3> QED BY <3>1 DEF IsJoined
  <2>2. b = an % W
    BY <1>12 DEF IsMod
  <2>3. Ring(data, P, b, m) = Ring(data, P, an, m)
    BY <1>1, <1>2, <2>2, RingWraps
  <2> QED BY <2>1, <2>3
<1>17. Ring(new, P, a, n) = Ring(data, P, a, n)
  <2>1. Ring(new, P, a, nm) = Ring(data, P, a, nm)
    BY <1>141
  <2>2. /\ SubSeq(Ring(new, P, a, nm), 1, n) = Ring(new, P, a, n)
        /\ SubSeq(Ring(data, P, a, nm), 1, n) = Ring(data, P, a, n)
    <3>1. SubSeq(Ring(new, P, a, nm), 1, n) = Ring(new, P, a, n)
      BY <1>1, <1>7, <1>13, RingCut, SMTT(30)
    <3>2. SubSeq(Ring(data, P, a, nm), 1, n) = Ring(data, P, a, n)
      BY <1>1, <1>13, RingCut, SMTT(30)
    <3> QED BY <3>1, <3>2
  <2> QED BY <2>1, <2>2
<1>18. PICK u \in Seq(S), v \in Seq(S) : u = Ring(data, P, a, n) /\ v = Ring(data, P, b, m)
  <2>1. Ring(data, P, a, n) \in Seq(S) /\ Ring(data, P, b, m) \in Seq(S)
    BY <1>1, RingInSeq
  <2> QED BY <2>1
<1>19. v \o s = Append(v, x) /\ (u \o v) \o s = u \o Append(v, x)
  <2>1. v \o s = Append(v, x)
    BY <1>4, AppendIsConcat
  <2>2. (u \o v) \o s = u \o (v \o s)
    BY ConcatAssociative, SMTT(30)
  <2> QED BY <2>1, <2>2
<1> QED BY <1>7, <1>14, <1>15, <1>16, <1>17, <1>18, <1>19

\* A counter goes back.
LEMMA DistBack ==
  ASSUME NEW W \in Nat \ {0}, NEW b \in 0 .. W - 1, NEW c \in 0 .. W - 1,
         NEW m \in 0 .. W - 1, Ahead(W, b, c, m), NEW k \in 0 .. m, NEW d, d = (c - k + W) % W,
         NEW h \in Nat, IsSum(m, h, k)
  PROVE  d \in 0 .. W - 1 /\ Ahead(W, b, d, h)
<1>1. m = IF b <= c THEN c - b ELSE c - b + W
  BY DistIs DEF Ahead
<1>2. k \in 0 .. W - 1
  OBVIOUS
<1>3. d = IF k <= c THEN c - k ELSE c - k + W
  BY <1>2, DistanceIs
<1>4. d \in 0 .. W - 1
  BY <1>2, <1>3
<1>5. h = IF b <= d THEN d - b ELSE d - b + W
  BY <1>1, <1>3, <1>4 DEF IsSum
<1>6. Dist(W, b, d) = IF b <= d THEN d - b ELSE d - b + W
  BY <1>4, DistIs
<1> QED BY <1>4, <1>5, <1>6 DEF Ahead

\* The end goes back by k.
LEMMA PartsShrink ==
  ASSUME NEW P, NEW W, NEW a, NEW b, NEW c, NEW n, NEW m, Parts(P, W, a, b, c, n, m),
         NEW k \in 0 .. m, NEW d, d = (c - k + W) % W
  PROVE  Parts(P, W, a, b, d, n, m - k)
<1>1. /\ W \in Nat \ {0} /\ a \in 0 .. W - 1 /\ b \in 0 .. W - 1 /\ c \in 0 .. W - 1 /\ P < W
      /\ n \in Nat /\ m \in Nat /\ n + m <= P /\ P \in Nat
  BY DEF Parts, Wheel
<1>2. Ahead(W, a, b, n) /\ Ahead(W, b, c, m) /\ Wheel(P, W)
  BY DEF Parts
<1>3. m \in 0 .. W - 1
  BY <1>1
<1>4. PICK h \in Nat : h = m - k
  BY <1>1
<1>5. IsSum(m, h, k)
  BY <1>1, <1>4 DEF IsSum
<1>6. d \in 0 .. W - 1 /\ Ahead(W, b, d, h)
  BY <1>1, <1>2, <1>3, <1>5, DistBack
<1>7. n + h <= P
  BY <1>1, <1>4
<1>8. Parts(P, W, a, b, d, n, h)
  BY <1>1, <1>2, <1>6, <1>7 DEF Parts
<1> QED BY <1>4, <1>8

\* The start goes on by k.
LEMMA PartsAdvance ==
  ASSUME NEW P, NEW W, NEW a, NEW b, NEW c, NEW n, NEW m, Parts(P, W, a, b, c, n, m),
         NEW k \in 0 .. n, NEW d, d = (a + k) % W
  PROVE  Parts(P, W, d, b, c, n - k, m)
<1>1. /\ W \in Nat \ {0} /\ a \in 0 .. W - 1 /\ b \in 0 .. W - 1 /\ c \in 0 .. W - 1 /\ P < W
      /\ n \in Nat /\ m \in Nat /\ n + m <= P /\ P \in Nat
  BY DEF Parts, Wheel
<1>2. Ahead(W, a, b, n) /\ Ahead(W, b, c, m) /\ Wheel(P, W)
  BY DEF Parts
<1>3. k \in Nat /\ k <= Dist(W, a, b)
  BY <1>1, <1>2 DEF Ahead
<1>4. d \in 0 .. W - 1 /\ Dist(W, d, b) = Dist(W, a, b) - k
  BY <1>1, <1>3, DistShrinks
<1>5. PICK h \in Nat : h = n - k
  BY <1>1
<1>6. Ahead(W, d, b, h)
  BY <1>2, <1>4, <1>5 DEF Ahead
<1>7. h + m <= P
  BY <1>1, <1>5
<1>8. Parts(P, W, d, b, c, h, m)
  BY <1>1, <1>2, <1>4, <1>6, <1>7 DEF Parts
<1> QED BY <1>5, <1>8

\* The end goes on by one; the middle may follow it.
LEMMA PartsGrow ==
  ASSUME NEW P, NEW W, NEW a, NEW b, NEW c, NEW n, NEW m, Parts(P, W, a, b, c, n, m), n + m < P,
         NEW d, d = (c + 1) % W, NEW k \in Nat, IsSum(k, m, 1), NEW l \in Nat, IsSum(l, n, k)
  PROVE  Parts(P, W, a, b, d, n, k) /\ Parts(P, W, a, d, d, l, 0)
<1>1. /\ W \in Nat \ {0} /\ a \in 0 .. W - 1 /\ b \in 0 .. W - 1 /\ c \in 0 .. W - 1 /\ P < W
      /\ n \in Nat /\ m \in Nat /\ n + m <= P /\ P \in Nat
  BY DEF Parts, Wheel
<1>2. Ahead(W, a, b, n) /\ Ahead(W, b, c, m) /\ Wheel(P, W)
  BY DEF Parts
<1>3. Dist(W, b, c) = m /\ Dist(W, a, c) = n + m
  BY <1>2, PartsAre DEF Ahead
<1>4. 1 \in Nat /\ Dist(W, b, c) + 1 < W /\ Dist(W, a, c) + 1 < W
  BY <1>1, <1>3
<1>5. d \in 0 .. W - 1 /\ Dist(W, b, d) = Dist(W, b, c) + 1
  BY <1>1, <1>4, DistGrows
<1>6. Dist(W, a, d) = Dist(W, a, c) + 1
  BY <1>1, <1>4, DistGrows
<1>7. Ahead(W, b, d, k) /\ Ahead(W, a, d, l) /\ n + k <= P /\ l <= P /\ l + 0 <= P
  BY <1>1, <1>3, <1>5, <1>6 DEF IsSum, Ahead
<1>8. Ahead(W, d, d, 0)
  BY <1>1, <1>5, DistZero DEF Ahead
<1>9. 0 \in Nat
  OBVIOUS
<1> QED BY <1>1, <1>2, <1>5, <1>7, <1>8, <1>9 DEF Parts

IsPart(x, y, i, j) == x = SubSeq(y, i, j)

\* What is left of the parts.
LEMMA RingShrinks ==
  ASSUME NEW S, NEW P, NEW W, NEW a, NEW b, NEW c, NEW n, NEW m, Parts(P, W, a, b, c, n, m),
         NEW data \in Slots(P, S), NEW k \in 0 .. m, NEW h, IsSum(m, h, k), h \in Nat
  PROVE  IsPart(Ring(data, P, b, h), Ring(data, P, b, m), 1, h)
<1>1. P \in Nat \ {0} /\ b \in Int /\ m \in Nat
  BY PartsAre
<1>2. h \in 0 .. m
  BY <1>1 DEF IsSum
<1>3. SubSeq(Ring(data, P, b, m), 1, h) = Ring(data, P, b, h)
  BY ONLY <1>1, <1>2, data \in Slots(P, S), RingCut
<1> QED BY <1>3 DEF IsPart

LEMMA RingAdvances ==
  ASSUME NEW S, NEW P, NEW W, NEW a, NEW b, NEW c, NEW n, NEW m, Parts(P, W, a, b, c, n, m),
         NEW data \in Slots(P, S), NEW k \in 0 .. n, NEW x \in Int, IsSum(x, a, k), NEW d, IsMod(d, x, W)
  PROVE  IsPart(Ring(data, P, d, n - k), Ring(data, P, a, n), k + 1, n)
<1>1. P \in Nat \ {0} /\ W \in Nat \ {0} /\ a \in Int /\ n \in Nat /\ Wheel(P, W)
  BY PartsAre DEF Parts
<1>2. PICK h \in Nat : h = n - k
  BY <1>1
<1>3. d = x % W /\ d \in Int
  BY <1>1 DEF IsMod
<1>4. Ring(data, P, d, h) = Ring(data, P, x, h)
  BY <1>1, <1>3, RingWraps
<1>5. SubSeq(Ring(data, P, a, n), k + 1, n) = Ring(data, P, a + k, n - k)
  BY ONLY <1>1, k \in 0 .. n, data \in Slots(P, S), RingCut
<1>6. x = a + k
  BY DEF IsSum
<1> QED BY <1>2, <1>4, <1>5, <1>6 DEF IsPart

-------------------------------------------------------------------------------
(* The console: its ring in parts, what was confirmed and the line behind it. *)

LEMMA ConsoleConstants ==
  /\ INPUT_BUF \in Nat \ {0} /\ CWORD \in Nat \ {0} /\ INPUT_BUF < CWORD /\ Wheel(INPUT_BUF, CWORD)
  /\ NoReader \notin Readers
<1>1. INPUT_BUF \in Nat \ {0} /\ CWORD \in Nat /\ CWORD > INPUT_BUF /\ CWORD % INPUT_BUF = 0
  BY ConsoleAssumption
<1>2. CWORD > 0 /\ CWORD \in Nat \ {0} /\ INPUT_BUF < CWORD
  BY <1>1
<1> QED BY <1>1, <1>2, ConsoleAssumption DEF Wheel

InParts(n, m)  == Parts(INPUT_BUF, CWORD, r, w, e, n, m)
Confirmed == Span(r, w)
Draft     == Span(w, e)

LEMMA ConsoleIs ==
  ASSUME ConsoleTypeOK
  PROVE  \E n, m \in Nat : InParts(n, m)
<1>1. r \in 0 .. CWORD - 1 /\ w \in 0 .. CWORD - 1 /\ e \in 0 .. CWORD - 1
  BY DEF ConsoleTypeOK
<1>2. PICK n \in Nat : n = Dist(CWORD, r, w)
  BY <1>1, DistIs, ConsoleConstants
<1>3. PICK m \in Nat : m = Dist(CWORD, w, e)
  BY <1>1, DistIs, ConsoleConstants
<1>4. n + m <= INPUT_BUF
  BY <1>2, <1>3 DEF ConsoleTypeOK, Distance, Dist
<1>5. InParts(n, m)
  BY <1>1, <1>2, <1>3, <1>4, ConsoleConstants DEF InParts, Parts, Ahead
<1> QED BY <1>5

LEMMA InPartsIs ==
  ASSUME NEW n, NEW m, InParts(n, m)
  PROVE  /\ n \in Nat /\ m \in Nat /\ n + m <= INPUT_BUF
         /\ r \in 0 .. CWORD - 1 /\ w \in 0 .. CWORD - 1 /\ e \in 0 .. CWORD - 1
         /\ Distance(r, w) = n /\ Distance(w, e) = m /\ Distance(r, e) = n + m
         /\ r = w <=> n = 0
         /\ Confirmed = Ring(buf, INPUT_BUF, r, n) /\ Draft = Ring(buf, INPUT_BUF, w, m)
<1>1. Parts(INPUT_BUF, CWORD, r, w, e, n, m)
  BY DEF InParts
<1>2. /\ n \in Nat /\ m \in Nat /\ n + m <= INPUT_BUF
      /\ r \in 0 .. CWORD - 1 /\ w \in 0 .. CWORD - 1 /\ e \in 0 .. CWORD - 1
      /\ Dist(CWORD, r, w) = n /\ Dist(CWORD, w, e) = m
  BY <1>1 DEF Parts, Ahead
<1>3. Dist(CWORD, r, e) = n + m
  BY <1>1, PartsAre
<1>4. Dist(CWORD, r, w) = 0 <=> r = w
  BY <1>2, DistZero, ConsoleConstants
<1>5. Distance(r, w) = n /\ Distance(w, e) = m /\ Distance(r, e) = n + m
  BY <1>2, <1>3 DEF Distance, Dist
<1>6. Confirmed = Ring(buf, INPUT_BUF, r, n) /\ Draft = Ring(buf, INPUT_BUF, w, m)
  BY <1>5 DEF Confirmed, Draft, Span, Ring, Slot
<1> QED BY <1>2, <1>4, <1>5, <1>6

\* The same in the next state.
LEMMA InPartsNext ==
  ASSUME NEW n, NEW m, InParts(n, m)'
  PROVE  /\ n \in Nat /\ m \in Nat /\ n + m <= INPUT_BUF
         /\ r' \in 0 .. CWORD - 1 /\ w' \in 0 .. CWORD - 1 /\ e' \in 0 .. CWORD - 1
         /\ Distance(r', w') = n /\ Distance(w', e') = m /\ Distance(r', e') = n + m
         /\ r' = w' <=> n = 0
         /\ Confirmed' = Ring(buf', INPUT_BUF, r', n) /\ Draft' = Ring(buf', INPUT_BUF, w', m)
<1>1. Parts(INPUT_BUF, CWORD, r', w', e', n, m)
  BY DEF InParts
<1>2. /\ n \in Nat /\ m \in Nat /\ n + m <= INPUT_BUF
      /\ r' \in 0 .. CWORD - 1 /\ w' \in 0 .. CWORD - 1 /\ e' \in 0 .. CWORD - 1
      /\ Dist(CWORD, r', w') = n /\ Dist(CWORD, w', e') = m
  BY <1>1 DEF Parts, Ahead
<1>3. Dist(CWORD, r', e') = n + m
  BY <1>1, PartsAre
<1>4. Dist(CWORD, r', w') = 0 <=> r' = w'
  BY <1>2, DistZero, ConsoleConstants
<1>5. Distance(r', w') = n /\ Distance(w', e') = m /\ Distance(r', e') = n + m
  BY <1>2, <1>3 DEF Distance, Dist
<1>6. Confirmed' = Ring(buf', INPUT_BUF, r', n) /\ Draft' = Ring(buf', INPUT_BUF, w', m)
  BY <1>5 DEF Confirmed, Draft, Span, Ring, Slot
<1> QED BY <1>2, <1>4, <1>5, <1>6

LEMMA TextIs ==
  ASSUME NEW n, NEW m, InParts(n, m), buf \in Slots(INPUT_BUF, Chars)
  PROVE  /\ Confirmed \in Seq(Chars) /\ Len(Confirmed) = n
         /\ Draft \in Seq(Chars) /\ Len(Draft) = m
<1>1. /\ n \in Nat /\ m \in Nat
      /\ Confirmed = Ring(buf, INPUT_BUF, r, n) /\ Draft = Ring(buf, INPUT_BUF, w, m)
      /\ r \in Int /\ w \in Int
  BY InPartsIs
<1> QED BY <1>1, RingInSeq, RingIs, ConsoleConstants

\* What there is to show when the ring or its counters change.
LEMMA ConsoleTypeNext ==
  ASSUME NEW n, NEW m, InParts(n, m)', buf' \in Slots(INPUT_BUF, Chars),
         clock' \in Readers \cup {NoReader}, cpc' \in [Readers -> ConsolePoints],
         room' \in [Readers -> Nat], line' \in [Readers -> Seq(Chars)],
         killedReader' \in [Readers -> BOOLEAN]
  PROVE  ConsoleTypeOK'
<1>1. /\ n + m <= INPUT_BUF /\ Distance(r', w') = n /\ Distance(w', e') = m
      /\ r' \in 0 .. CWORD - 1 /\ w' \in 0 .. CWORD - 1 /\ e' \in 0 .. CWORD - 1
  BY InPartsNext
<1>2. {r', w', e'} \subseteq 0 .. CWORD - 1
  BY <1>1
<1>3. Distance(r', w') + Distance(w', e') <= INPUT_BUF
  BY <1>1
<1> QED BY <1>2, <1>3 DEF ConsoleTypeOK, Slots, Distance

-------------------------------------------------------------------------------
(* What the promises of the console allow. *)

EditorSteps == [Editor!Next]_(Editor!vars)

LEMMA EditorStays ==
  ASSUME Confirmed' = Confirmed, Draft' = Draft
  PROVE  EditorSteps
BY DEF EditorSteps, Editor!vars, Confirmed, Draft

LEMMA EditorTypes ==
  ASSUME NEW c \in Chars, Len(Confirmed) + Len(Draft) < INPUT_BUF,
         Draft' = Append(Draft, c), Confirmed' = Confirmed
  PROVE  EditorSteps
<1>1. Editor!Type(c)
  BY DEF Editor!Type, Confirmed, Draft
<1> QED BY <1>1 DEF EditorSteps, Editor!Next

LEMMA EditorConfirms ==
  ASSUME NEW c \in Chars, Len(Confirmed) + Len(Draft) < INPUT_BUF,
         Confirmed' = Confirmed \o Append(Draft, c), Draft' = <<>>
  PROVE  EditorSteps
<1>1. Editor!Confirm(c)
  BY DEF Editor!Confirm, Confirmed, Draft
<1> QED BY <1>1 DEF EditorSteps, Editor!Next

LEMMA EditorErases ==
  ASSUME NEW k \in 1 .. Len(Draft), k \in 1 .. INPUT_BUF,
         Draft' = SubSeq(Draft, 1, Len(Draft) - k), Confirmed' = Confirmed
  PROVE  EditorSteps
<1>1. Editor!Erase(k)
  BY DEF Editor!Erase, Confirmed, Draft
<1> QED BY <1>1 DEF EditorSteps, Editor!Next

LEMMA EditorTakes ==
  ASSUME NEW k \in 1 .. Len(Confirmed), k \in 1 .. INPUT_BUF,
         Confirmed' = SubSeq(Confirmed, k + 1, Len(Confirmed)), Draft' = Draft
  PROVE  EditorSteps
<1>1. Editor!Take(k)
  BY DEF Editor!Take, Confirmed, Draft
<1> QED BY <1>1 DEF EditorSteps, Editor!Next

-------------------------------------------------------------------------------
(* The actions of the console keep ConsoleInv and are steps of LineEditor. *)

LEMMA typedInv ==
  ASSUME ConsoleInv, NEW c, typed(c)
  PROVE  ConsoleInv' /\ EditorSteps
<1>1. ConsoleTypeOK /\ FullIsReadable /\ c \in Chars /\ clock = NoReader
  BY DEF ConsoleInv, typed
<1>2. PICK n \in Nat, m \in Nat : InParts(n, m)
  BY <1>1, ConsoleIs
<1>3. /\ n + m <= INPUT_BUF /\ Distance(r, w) = n /\ Distance(r, e) = n + m
      /\ r = w <=> n = 0
      /\ Confirmed = Ring(buf, INPUT_BUF, r, n) /\ Draft = Ring(buf, INPUT_BUF, w, m)
  BY <1>2, InPartsIs
<1>4. buf \in Slots(INPUT_BUF, Chars)
  BY <1>1 DEF ConsoleTypeOK, Slots
<1>5. /\ Confirmed \in Seq(Chars) /\ Len(Confirmed) = n
      /\ Draft \in Seq(Chars) /\ Len(Draft) = m
  BY <1>2, <1>4, TextIs
<1>6. UNCHANGED <<r, clock, room, line, killedReader>>
  BY DEF typed
<1>7. CASE ~HasRoom
  <2>1. UNCHANGED <<buf, e, w, cpc>>
    BY <1>7 DEF typed
  <2>2. ConsoleInv'
    BY <1>6, <2>1 DEF ConsoleInv, ConsoleTypeOK, FullIsReadable, Distance
  <2>3. Confirmed' = Confirmed /\ Draft' = Draft
    BY <1>6, <2>1 DEF Confirmed, Draft, Span, Distance
  <2> QED BY <2>2, <2>3, EditorStays
<1>8. CASE HasRoom
  <2>1. n + m < INPUT_BUF
    BY <1>3, <1>8 DEF HasRoom
  <2>2. buf' = [buf EXCEPT ![EditPlace] = c] /\ e' = Forward(e, 1)
    BY <1>8 DEF typed
  <2>3. Places(buf, buf', e % INPUT_BUF, c)
    BY <2>2 DEF Places, EditPlace
  <2>4. PICK k \in Nat : k = m + 1
    BY <1>2
  <2>5. PICK l \in Nat : l = n + k
    BY <1>2
  <2>6. IsSum(k, m, 1) /\ IsSum(l, n, k)
    BY <2>4, <2>5 DEF IsSum
  <2>7. Parts(INPUT_BUF, CWORD, r, w, e, n, m)
    BY <1>2 DEF InParts
  <2>8. /\ buf' \in Slots(INPUT_BUF, Chars)
        /\ Ring(buf', INPUT_BUF, r, n) = Confirmed
        /\ Ring(buf', INPUT_BUF, w, k) = Append(Draft, c)
        /\ Ring(buf', INPUT_BUF, r, l) = Confirmed \o Append(Draft, c)
    <3>1. /\ buf' \in Slots(INPUT_BUF, Chars)
          /\ Ring(buf', INPUT_BUF, r, n) = Ring(buf, INPUT_BUF, r, n)
          /\ Ring(buf', INPUT_BUF, w, k) = Append(Ring(buf, INPUT_BUF, w, m), c)
          /\ Ring(buf', INPUT_BUF, r, l) = Ring(buf, INPUT_BUF, r, n) \o Append(Ring(buf, INPUT_BUF, w, m), c)
      BY <1>1, <1>4, <2>1, <2>3, <2>6, <2>7, RingGrows, SMTT(30)
    <3> QED BY <1>3, <3>1
  <2>9. /\ Parts(INPUT_BUF, CWORD, r, w, e', n, k)
        /\ Parts(INPUT_BUF, CWORD, r, e', e', l, 0)
    <3>1. e' = (e + 1) % CWORD
      BY <2>2 DEF Forward
    <3> QED BY <2>1, <2>6, <2>7, <3>1, PartsGrow
  <2>10. Len(Confirmed) + Len(Draft) < INPUT_BUF
    BY <1>5, <2>1
  <2>11. CASE Confirms(c)
    <3>1. w' = e' /\ cpc' = Roused
      BY <1>8, <2>11 DEF typed
    <3>2. InParts(l, 0)'
      BY <1>6, <2>9, <3>1 DEF InParts
    <3>3. Confirmed' = Ring(buf', INPUT_BUF, r, l) /\ Draft' = <<>> /\ r' # w'
      <4>1. /\ Confirmed' = Ring(buf', INPUT_BUF, r', l) /\ Draft' = Ring(buf', INPUT_BUF, w', 0)
            /\ r' = w' <=> l = 0
        BY <3>2, InPartsNext
      <4>2. Ring(buf', INPUT_BUF, w', 0) = <<>>
        BY DEF Ring
      <4>3. l # 0
        BY <2>4, <2>5
      <4> QED BY <1>6, <4>1, <4>2, <4>3
    <3>4. cpc' \in [Readers -> ConsolePoints]
      BY <1>1, <3>1 DEF ConsoleTypeOK, Roused, ConsolePoints
    <3>5. ConsoleTypeOK'
      BY <1>1, <1>6, <2>8, <3>2, <3>4, ConsoleTypeNext DEF ConsoleTypeOK
    <3>6. \A p \in Readers : cpc[p] # "tested"
      BY <1>1, ConsoleConstants DEF ConsoleInv
    <3>7. ASSUME NEW p \in Readers
          PROVE  /\ clock' = p <=> cpc'[p] = "tested"
                 /\ cpc'[p] \in {"tested", "sleeps"} => r' = w'
                 /\ cpc'[p] \in {"read", "tested", "sleeps"} => room'[p] > 0
      <4>1. cpc'[p] = IF cpc[p] = "sleeps" THEN "read" ELSE cpc[p]
        BY <3>1 DEF Roused
      <4>2. cpc'[p] \notin {"tested", "sleeps"} /\ clock' # p
        BY <1>1, <1>6, <3>6, <4>1, ConsoleConstants
      <4>3. cpc[p] \in {"read", "tested", "sleeps"} => room[p] > 0
        BY DEF ConsoleInv
      <4> QED BY <1>6, <4>1, <4>2, <4>3
    <3>8. FullIsReadable'
      BY <3>3 DEF FullIsReadable
    <3>9. ConsoleInv'
      BY <3>5, <3>7, <3>8 DEF ConsoleInv
    <3>10. EditorSteps
      BY <1>1, <2>8, <2>10, <3>3, EditorConfirms
    <3> QED BY <3>9, <3>10
  <2>12. CASE ~Confirms(c)
    <3>1. UNCHANGED <<w, cpc>>
      BY <1>8, <2>12 DEF typed
    <3>2. InParts(n, k)'
      BY <1>6, <2>9, <3>1 DEF InParts
    <3>3. /\ Confirmed' = Ring(buf', INPUT_BUF, r', n) /\ Draft' = Ring(buf', INPUT_BUF, w', k)
          /\ Distance(r', e') = n + k
      BY <3>2, InPartsNext
    <3>4. Confirmed' = Confirmed /\ Draft' = Append(Draft, c)
      BY <1>6, <2>8, <3>1, <3>3
    <3>5. ConsoleTypeOK'
      BY <1>1, <1>6, <2>8, <3>1, <3>2, ConsoleTypeNext DEF ConsoleTypeOK
    <3>6. n + k # INPUT_BUF
      <4> SUFFICES ASSUME n + k = INPUT_BUF PROVE FALSE
        OBVIOUS
      <4>1. e' = (r + (n + k)) % CWORD
        BY <2>9, PartsAre
      <4>2. Confirms(c)
        BY <2>2, <4>1 DEF Confirms, Forward
      <4> QED BY <2>12, <4>2
    <3>7. FullIsReadable'
      BY <3>3, <3>6 DEF FullIsReadable, Distance
    <3>8. ConsoleInv'
      BY <1>6, <3>1, <3>5, <3>7 DEF ConsoleInv
    <3>9. EditorSteps
      BY <1>1, <2>10, <3>4, EditorTypes
    <3> QED BY <3>8, <3>9
  <2> QED BY <2>11, <2>12
<1> QED BY <1>7, <1>8

LEMMA ErasedIs ==
  ASSUME NEW c, NEW m \in Nat, Distance(w, e) = m
  PROVE  Erased(c) \in 0 .. m
<1>1. CASE c = KILL_LINE
  <2> DEFINE S == {0} \cup {i \in 1 .. m : Span(w, e)[i] = NL}
  <2>1. LineStart = Max(S)
    BY DEF LineStart
  <2>2. S \in SUBSET (0 .. m) /\ S # {}
    OBVIOUS
  <2> HIDE DEF S
  <2>3. Max(S) \in S
    BY <2>2, LastIsMember
  <2>4. LineStart \in 0 .. m
    BY <2>1, <2>2, <2>3
  <2> QED BY <1>1, <2>4 DEF Erased
<1>2. CASE c # KILL_LINE
  <2>1. 1 \in Nat
    OBVIOUS
  <2>2. Min({1, m}) = IF 1 <= m THEN 1 ELSE m
    BY <2>1, LesserOf
  <2>3. Erased(c) = Min({1, m})
    BY <1>2 DEF Erased
  <2> QED BY <2>2, <2>3
<1> QED BY <1>1, <1>2

LEMMA editedInv ==
  ASSUME ConsoleInv, NEW c, edited(c)
  PROVE  ConsoleInv' /\ EditorSteps
<1>1. ConsoleTypeOK /\ FullIsReadable
  BY DEF ConsoleInv
<1>2. PICK n \in Nat, m \in Nat : InParts(n, m)
  BY <1>1, ConsoleIs
<1>3. /\ n + m <= INPUT_BUF /\ Distance(w, e) = m /\ Distance(r, e) = n + m
      /\ r = w <=> n = 0
      /\ Confirmed = Ring(buf, INPUT_BUF, r, n) /\ Draft = Ring(buf, INPUT_BUF, w, m)
  BY <1>2, InPartsIs
<1>4. buf \in Slots(INPUT_BUF, Chars)
  BY <1>1 DEF ConsoleTypeOK, Slots
<1>5. Len(Confirmed) = n /\ Len(Draft) = m
  BY <1>2, <1>4, TextIs
<1>6. UNCHANGED <<buf, r, w, clock, cpc, room, line, killedReader>>
  BY DEF edited
<1>7. PICK k \in 0 .. m : k = Erased(c)
  BY <1>3, ErasedIs
<1>8. e' = (e - k + CWORD) % CWORD
  BY <1>7 DEF edited, Back
<1>9. PICK h \in Nat : h = m - k
  BY <1>7
<1>10. Parts(INPUT_BUF, CWORD, r, w, e, n, m)
  BY <1>2 DEF InParts
<1>11. Parts(INPUT_BUF, CWORD, r, w, e', n, h)
  BY <1>8, <1>9, <1>10, PartsShrink
<1>12. InParts(n, h)'
  BY <1>6, <1>11 DEF InParts
<1>13. /\ Confirmed' = Ring(buf', INPUT_BUF, r', n) /\ Draft' = Ring(buf', INPUT_BUF, w', h)
       /\ Distance(r', e') = n + h
  BY <1>12, InPartsNext
<1>14. Ring(buf, INPUT_BUF, w, h) = SubSeq(Ring(buf, INPUT_BUF, w, m), 1, h)
  <2>1. IsSum(m, h, k)
    BY <1>3, <1>9 DEF IsSum
  <2>2. IsPart(Ring(buf, INPUT_BUF, w, h), Ring(buf, INPUT_BUF, w, m), 1, h)
    BY <1>4, <1>10, <2>1, RingShrinks
  <2> QED BY <2>2 DEF IsPart
<1>15. Confirmed' = Confirmed /\ Draft' = SubSeq(Draft, 1, Len(Draft) - k)
  <2>1. Draft' = SubSeq(Draft, 1, h)
    BY <1>3, <1>6, <1>13, <1>14
  <2>2. h = Len(Draft) - k
    BY <1>5, <1>9
  <2>3. Confirmed' = Confirmed
    BY <1>3, <1>6, <1>13
  <2> QED BY <2>1, <2>2, <2>3
<1>16. ConsoleTypeOK'
  BY <1>1, <1>4, <1>6, <1>12, ConsoleTypeNext DEF ConsoleTypeOK
<1>17. FullIsReadable'
  <2> SUFFICES ASSUME n + h = INPUT_BUF PROVE r # w
    BY <1>6, <1>13 DEF FullIsReadable, Distance
  <2>1. Distance(r, e) = INPUT_BUF
    BY <1>3, <1>7, <1>9
  <2> QED BY <1>1, <2>1 DEF FullIsReadable
<1>18. ConsoleInv'
  BY <1>6, <1>16, <1>17 DEF ConsoleInv
<1>19. EditorSteps
  <2>1. CASE k = 0
    <3>1. h = m
      BY <1>9, <2>1
    <3>2. Draft' = Draft
      BY <1>3, <1>6, <1>13, <3>1
    <3> QED BY <1>15, <3>2, EditorStays
  <2>2. CASE k # 0
    <3>1. k \in 1 .. Len(Draft) /\ k \in 1 .. INPUT_BUF
      BY <1>3, <1>5, <1>7, <2>2, ConsoleConstants
    <3> QED BY <1>15, <3>1, EditorErases
  <2> QED BY <2>1, <2>2
<1> QED BY <1>18, <1>19

\* What the loop looks at is a beginning of what was confirmed.
LEMMA LookedIs ==
  ASSUME ConsoleInv, NEW p \in Readers, cpc[p] = "read", NEW n \in Nat, NEW m \in Nat, InParts(n, m), n # 0
  PROVE  \E j \in 1 .. n : /\ j <= room[p] /\ Looked(p) \in Seq(Chars) /\ Len(Looked(p)) = j
                           /\ Looked(p) = SubSeq(Confirmed, 1, j)
<1>1. buf \in Slots(INPUT_BUF, Chars)
  BY DEF ConsoleInv, ConsoleTypeOK, Slots
<1>2. Confirmed \in Seq(Chars) /\ Len(Confirmed) = n
  BY <1>1, TextIs
<1>3. PICK s \in Seq(Chars) : s = Confirmed
  BY <1>2
<1>4. PICK k \in Nat : k = room[p] /\ k > 0
  BY DEF ConsoleInv, ConsoleTypeOK
<1> DEFINE T == {Len(s), room[p]} \cup {i \in DOMAIN s : s[i] \in {NL, EOF}}
<1>5. Looked(p) = SubSeq(s, 1, Min(T))
  BY <1>3 DEF Looked, Confirmed
<1>6. Len(s) = n /\ DOMAIN s = 1 .. n
  BY <1>2, <1>3
<1>7. T \in SUBSET Nat /\ T # {} /\ n \in T /\ k \in T /\ 0 \notin T
  BY <1>4, <1>6
<1> HIDE DEF T
<1>8. Min(T) \in T /\ \A i \in T : Min(T) <= i
  BY <1>7, FirstIsMember
<1>9. PICK j \in Nat : j = Min(T)
  BY <1>7, <1>8
<1>10. j \in 1 .. n /\ j <= room[p]
  BY <1>4, <1>7, <1>8, <1>9
<1>11. PICK one \in 1 .. n + 1 : one = 1
  OBVIOUS
<1>12. SubSeq(s, one, j) \in Seq(Chars) /\ Len(SubSeq(s, one, j)) = j - one + 1
  <2>1. one \in 1 .. Len(s) + 1 /\ j \in 0 .. Len(s) /\ one <= j + 1
    BY <1>6, <1>10, <1>11
  <2> QED BY <2>1, SubSeqIs
<1>13. Looked(p) = SubSeq(s, one, j) /\ Len(Looked(p)) = j
  BY <1>5, <1>9, <1>10, <1>11, <1>12
<1> QED BY <1>3, <1>10, <1>11, <1>12, <1>13

LEMMA FrontIs ==
  ASSUME NEW S, NEW s \in Seq(S), NEW j \in Nat, Len(s) = j, j > 0
  PROVE  Front(s) \in Seq(S) /\ Len(Front(s)) = j - 1
<1>1. Front(s) = SubSeq(s, 1, j - 1)
  BY DEF Front
<1>2. PICK k \in 0 .. j : k = j - 1
  OBVIOUS
<1>3. PICK one \in 1 .. j + 1 : one = 1
  OBVIOUS
<1>4. SubSeq(s, one, k) \in Seq(S) /\ Len(SubSeq(s, one, k)) = k - one + 1
  <2>1. one \in 1 .. Len(s) + 1 /\ k \in 0 .. Len(s) /\ one <= k + 1
    BY <1>2, <1>3
  <2> QED BY <2>1, SubSeqIs
<1>5. Front(s) = SubSeq(s, one, k)
  BY <1>1, <1>2, <1>3
<1> QED BY <1>2, <1>3, <1>4, <1>5

LEMMA copiesInv ==
  ASSUME ConsoleInv, NEW p \in Readers, copies(p)
  PROVE  ConsoleInv' /\ EditorSteps
<1>1. ConsoleTypeOK /\ FullIsReadable /\ cpc[p] = "read" /\ clock = NoReader /\ r # w
  BY DEF ConsoleInv, copies
<1>2. PICK n \in Nat, m \in Nat : InParts(n, m)
  BY <1>1, ConsoleIs
<1>3. /\ n + m <= INPUT_BUF /\ Distance(r, w) = n /\ n # 0
      /\ Confirmed = Ring(buf, INPUT_BUF, r, n) /\ Draft = Ring(buf, INPUT_BUF, w, m)
  BY <1>1, <1>2, InPartsIs
<1>4. buf \in Slots(INPUT_BUF, Chars)
  BY <1>1 DEF ConsoleTypeOK, Slots
<1>5. Len(Confirmed) = n
  BY <1>2, <1>4, TextIs
<1>6. PICK j \in 1 .. n : /\ j <= room[p] /\ Looked(p) \in Seq(Chars) /\ Len(Looked(p)) = j
  BY <1>1, <1>2, <1>3, LookedIs
<1>7. PICK s \in Seq(Chars) : s = Looked(p)
  BY <1>6
<1>8. PICK given \in Seq(Chars) : given = IF Last(s) = EOF THEN Front(s) ELSE s
  BY <1>6, <1>7, FrontIs
<1>9. Len(given) = IF Last(s) = EOF THEN j - 1 ELSE j
  BY <1>6, <1>7, <1>8, FrontIs
<1>10. PICK k \in 0 .. n : k = Consumed(p, s)
  <2>1. Consumed(p, s) = j - 1 \/ Consumed(p, s) = j
    BY <1>6, <1>7 DEF Consumed
  <2> QED BY <1>6, <2>1
<1>11. /\ r' = Forward(r, k) /\ line' = [line EXCEPT ![p] = line[p] \o given]
       /\ room' = [room EXCEPT ![p] = room[p] - Len(given)]
       /\ cpc' = [cpc EXCEPT ![p] = IF Last(s) \in {NL, EOF} \/ Len(s) = room[p] THEN "done" ELSE "read"]
       /\ UNCHANGED <<buf, w, e, clock, killedReader>>
  BY <1>7, <1>8, <1>10 DEF copies
<1>12. PICK h \in Nat : h = n - k
  BY <1>10
<1>13. PICK x \in Int : x = r + k
  BY <1>1, <1>10 DEF ConsoleTypeOK
<1>14. Parts(INPUT_BUF, CWORD, r, w, e, n, m)
  BY <1>2 DEF InParts
<1>15. Parts(INPUT_BUF, CWORD, r', w, e, h, m)
  <2>1. r' = (r + k) % CWORD
    BY <1>11 DEF Forward
  <2> QED BY <1>12, <1>14, <2>1, PartsAdvance
<1>16. InParts(h, m)'
  BY <1>11, <1>15 DEF InParts
<1>17. /\ Confirmed' = Ring(buf', INPUT_BUF, r', h) /\ Draft' = Ring(buf', INPUT_BUF, w', m)
       /\ r' = w' <=> h = 0
       /\ Distance(r', e') = h + m
  BY <1>16, InPartsNext
<1>18. Ring(buf, INPUT_BUF, r', h) = SubSeq(Confirmed, k + 1, n)
  <2>1. IsSum(x, r, k) /\ IsMod(r', x, CWORD)
    BY <1>11, <1>13 DEF IsSum, IsMod, Forward
  <2>2. IsPart(Ring(buf, INPUT_BUF, r', n - k), Ring(buf, INPUT_BUF, r, n), k + 1, n)
    BY <1>4, <1>14, <2>1, RingAdvances
  <2> QED BY <1>3, <1>12, <2>2 DEF IsPart
<1>19. EditorSteps
  <2>1. Draft' = Draft
    BY <1>3, <1>11, <1>17
  <2>2. CASE k = 0
    <3>1. Confirmed' = SubSeq(Confirmed, 1, n) /\ h = n
      BY <1>11, <1>12, <1>17, <1>18, <2>2
    <3>2. r' = r
      <4>1. r' = (r + 0) % CWORD
        BY <1>11, <2>2 DEF Forward
      <4>2. r \in 0 .. CWORD - 1 /\ 0 \in 0 .. CWORD /\ r + 0 = r
        BY <1>1, ConsoleConstants DEF ConsoleTypeOK
      <4>3. (r + 0) % CWORD = IF r + 0 < CWORD THEN r + 0 ELSE r + 0 - CWORD
        BY <4>2, ForwardIs, ConsoleConstants
      <4> QED BY <4>1, <4>2, <4>3, ConsoleConstants
    <3>3. Confirmed' = Confirmed
      BY <1>3, <1>11, <1>17, <3>1, <3>2
    <3> QED BY <2>1, <3>3, EditorStays
  <2>3. CASE k # 0
    <3>1. k \in 1 .. Len(Confirmed) /\ k \in 1 .. INPUT_BUF
      BY <1>2, <1>3, <1>5, <1>10, <2>3, ConsoleConstants
    <3>2. Confirmed' = SubSeq(Confirmed, k + 1, Len(Confirmed))
      BY <1>5, <1>11, <1>17, <1>18
    <3> QED BY <2>1, <3>1, <3>2, EditorTakes
  <2> QED BY <2>2, <2>3
<1>20. ConsoleTypeOK'
  <2>1. cpc' \in [Readers -> ConsolePoints]
    BY <1>1, <1>11 DEF ConsoleTypeOK, ConsolePoints
  <2>2. room[p] - Len(given) \in Nat
    BY <1>1, <1>6, <1>9 DEF ConsoleTypeOK
  <2>3. room' \in [Readers -> Nat]
    BY <1>1, <1>11, <2>2 DEF ConsoleTypeOK
  <2>4. line[p] \o given \in Seq(Chars)
    BY <1>1 DEF ConsoleTypeOK
  <2>5. line' \in [Readers -> Seq(Chars)]
    BY <1>1, <1>11, <2>4 DEF ConsoleTypeOK
  <2> QED BY <1>1, <1>4, <1>11, <1>16, <2>1, <2>3, <2>5, ConsoleTypeNext DEF ConsoleTypeOK
<1>21. FullIsReadable'
  <2> SUFFICES ASSUME h + m = INPUT_BUF PROVE h # 0
    BY <1>17 DEF FullIsReadable, Distance
  <2> QED BY <1>2, <1>3, <1>12, ConsoleConstants
<1>22. ASSUME NEW o \in Readers
       PROVE  /\ clock' = o <=> cpc'[o] = "tested"
              /\ cpc'[o] \in {"tested", "sleeps"} => r' = w'
              /\ cpc'[o] \in {"read", "tested", "sleeps"} => room'[o] > 0
  <2>1. cpc[o] \notin {"tested", "sleeps"} /\ clock' # o
    BY <1>1, <1>11, ConsoleConstants DEF ConsoleInv
  <2>2. CASE o = p
    <3>1. cpc'[p] = IF Last(s) \in {NL, EOF} \/ Len(s) = room[p] THEN "done" ELSE "read"
      BY <1>1, <1>11 DEF ConsoleTypeOK
    <3>2. cpc'[p] = "read" => room'[p] > 0
      <4> SUFFICES ASSUME cpc'[p] = "read" PROVE room'[p] > 0
        OBVIOUS
      <4>1. Last(s) # EOF /\ j # room[p]
        BY <1>6, <1>7, <3>1
      <4>2. Len(given) = j
        BY <1>9, <4>1
      <4>3. room'[p] = room[p] - Len(given) /\ room[p] \in Nat
        BY <1>1, <1>11 DEF ConsoleTypeOK
      <4> QED BY <1>6, <4>1, <4>2, <4>3
    <3> QED BY <2>1, <2>2, <3>1, <3>2
  <2>3. CASE o # p
    <3>1. cpc'[o] = cpc[o] /\ room'[o] = room[o]
      BY <1>1, <1>11, <2>3 DEF ConsoleTypeOK
    <3>2. cpc[o] = "read" => room[o] > 0
      BY DEF ConsoleInv
    <3> QED BY <2>1, <3>1, <3>2
  <2> QED BY <2>2, <2>3
<1>23. ConsoleInv'
  BY <1>20, <1>21, <1>22 DEF ConsoleInv
<1> QED BY <1>19, <1>23

\* The ring stays.
LEMMA RingStays ==
  ASSUME ConsoleInv, UNCHANGED <<buf, r, w, e>>,
         clock' \in Readers \cup {NoReader}, cpc' \in [Readers -> ConsolePoints],
         room' \in [Readers -> Nat], line' \in [Readers -> Seq(Chars)],
         killedReader' \in [Readers -> BOOLEAN],
         \A p \in Readers :
           /\ clock' = p <=> cpc'[p] = "tested"
           /\ cpc'[p] \in {"tested", "sleeps"} => r = w
           /\ cpc'[p] \in {"read", "tested", "sleeps"} => room'[p] > 0
  PROVE  ConsoleInv' /\ EditorSteps
<1>1. ConsoleTypeOK /\ FullIsReadable
  BY DEF ConsoleInv
<1>2. ConsoleTypeOK' /\ FullIsReadable'
  BY <1>1 DEF ConsoleTypeOK, FullIsReadable, Distance
<1>3. ConsoleInv'
  BY <1>2 DEF ConsoleInv
<1>4. Confirmed' = Confirmed /\ Draft' = Draft
  BY DEF Confirmed, Draft, Span, Distance
<1> QED BY <1>3, <1>4, EditorStays

LEMMA ConsoleStays ==
  ASSUME ConsoleInv, UNCHANGED consVars
  PROVE  ConsoleInv' /\ EditorSteps
<1>1. ConsoleInv'
  BY DEF consVars, ConsoleInv, ConsoleTypeOK, FullIsReadable, Distance
<1>2. Confirmed' = Confirmed /\ Draft' = Draft
  BY DEF consVars, Confirmed, Draft, Span, Distance
<1> QED BY <1>1, <1>2, EditorStays

LEMMA consolereadInv ==
  ASSUME ConsoleInv, NEW p \in Readers, NEW n \in Nat \ {0}, consoleread(p, n)
  PROVE  ConsoleInv' /\ EditorSteps
<1>1. ConsoleTypeOK
  BY DEF ConsoleInv
<1>2. <<>> \in Seq(Chars)
  OBVIOUS
<1>3. /\ clock' \in Readers \cup {NoReader} /\ cpc' \in [Readers -> ConsolePoints]
      /\ room' \in [Readers -> Nat] /\ line' \in [Readers -> Seq(Chars)]
      /\ killedReader' \in [Readers -> BOOLEAN]
  BY <1>1, <1>2 DEF consoleread, ConsoleTypeOK, ConsolePoints
<1>4. ASSUME NEW o \in Readers
      PROVE  /\ clock' = o <=> cpc'[o] = "tested"
             /\ cpc'[o] \in {"tested", "sleeps"} => r = w
             /\ cpc'[o] \in {"read", "tested", "sleeps"} => room'[o] > 0
  <2>1. /\ clock = o <=> cpc[o] = "tested"
        /\ cpc[o] \in {"tested", "sleeps"} => r = w
        /\ cpc[o] \in {"read", "tested", "sleeps"} => room[o] > 0
    BY DEF ConsoleInv
  <2>2. CASE o = p
    <3>1. cpc[o] = "out" /\ cpc'[o] = "read" /\ room'[o] = n /\ clock' = clock
      BY <1>1, <2>2 DEF consoleread, ConsoleTypeOK
    <3> QED BY <2>1, <3>1
  <2>3. CASE o # p
    <3>1. cpc'[o] = cpc[o] /\ room'[o] = room[o] /\ clock' = clock
      BY <1>1, <2>3 DEF consoleread, ConsoleTypeOK
    <3> QED BY <2>1, <3>1
  <2> QED BY <2>2, <2>3
<1>5. UNCHANGED <<buf, r, w, e>>
  BY DEF consoleread
<1> QED BY <1>3, <1>4, <1>5, RingStays

LEMMA waitsInv ==
  ASSUME ConsoleInv, NEW p \in Readers, waits(p)
  PROVE  ConsoleInv' /\ EditorSteps
<1>1. ConsoleTypeOK /\ cpc[p] = "read" /\ clock = NoReader /\ r = w
  BY DEF ConsoleInv, waits
<1>2. UNCHANGED <<buf, r, w, e, room, killedReader>>
  BY DEF waits
<1>3. /\ clock' \in Readers \cup {NoReader} /\ cpc' \in [Readers -> ConsolePoints]
      /\ room' \in [Readers -> Nat] /\ line' \in [Readers -> Seq(Chars)]
      /\ killedReader' \in [Readers -> BOOLEAN]
  <2>1. <<>> \in Seq(Chars)
    OBVIOUS
  <2>2. CASE killedReader[p]
    BY <1>1, <1>2, <2>1, <2>2 DEF waits, ConsoleTypeOK, ConsolePoints
  <2>3. CASE ~killedReader[p]
    BY <1>1, <1>2, <2>3 DEF waits, ConsoleTypeOK, ConsolePoints
  <2> QED BY <2>2, <2>3
<1>4. ASSUME NEW o \in Readers
      PROVE  /\ clock' = o <=> cpc'[o] = "tested"
             /\ cpc'[o] \in {"tested", "sleeps"} => r = w
             /\ cpc'[o] \in {"read", "tested", "sleeps"} => room'[o] > 0
  <2>1. cpc[o] # "tested" /\ (cpc[o] \in {"read", "tested", "sleeps"} => room[o] > 0)
    BY <1>1, ConsoleConstants DEF ConsoleInv
  <2>2. CASE killedReader[p]
    <3>1. cpc' = [cpc EXCEPT ![p] = "done"] /\ clock' = clock
      BY <2>2 DEF waits
    <3>2. cpc'[o] = IF o = p THEN "done" ELSE cpc[o]
      BY <1>1, <3>1 DEF ConsoleTypeOK
    <3> QED BY <1>1, <1>2, <2>1, <3>1, <3>2, ConsoleConstants
  <2>3. CASE ~killedReader[p]
    <3>1. cpc' = [cpc EXCEPT ![p] = "tested"] /\ clock' = p
      BY <2>3 DEF waits
    <3>2. cpc'[o] = IF o = p THEN "tested" ELSE cpc[o]
      BY <1>1, <3>1 DEF ConsoleTypeOK
    <3>3. room[p] > 0
      BY <1>1 DEF ConsoleInv
    <3> QED BY <1>1, <1>2, <2>1, <3>1, <3>2, <3>3
  <2> QED BY <2>2, <2>3
<1> QED BY <1>2, <1>3, <1>4, RingStays

LEMMA sleepsInv ==
  ASSUME ConsoleInv, NEW p \in Readers, sleeps(p)
  PROVE  ConsoleInv' /\ EditorSteps
<1>1. ConsoleTypeOK /\ cpc[p] = "tested"
  BY DEF ConsoleInv, sleeps
<1>2. UNCHANGED <<buf, r, w, e, room, line, killedReader>> /\ clock' = NoReader
  BY DEF sleeps
<1>3. /\ clock' \in Readers \cup {NoReader} /\ cpc' \in [Readers -> ConsolePoints]
      /\ room' \in [Readers -> Nat] /\ line' \in [Readers -> Seq(Chars)]
      /\ killedReader' \in [Readers -> BOOLEAN]
  BY <1>1, <1>2 DEF sleeps, ConsoleTypeOK, ConsolePoints
<1>4. ASSUME NEW o \in Readers
      PROVE  /\ clock' = o <=> cpc'[o] = "tested"
             /\ cpc'[o] \in {"tested", "sleeps"} => r = w
             /\ cpc'[o] \in {"read", "tested", "sleeps"} => room'[o] > 0
  <2>1. /\ cpc[o] = "tested" => o = p
        /\ cpc[o] \in {"tested", "sleeps"} => r = w
        /\ cpc[o] \in {"read", "tested", "sleeps"} => room[o] > 0
    BY <1>1 DEF ConsoleInv
  <2>2. cpc'[o] = IF o = p THEN "sleeps" ELSE cpc[o]
    BY <1>1 DEF sleeps, ConsoleTypeOK
  <2> QED BY <1>1, <1>2, <2>1, <2>2, ConsoleConstants
<1> QED BY <1>2, <1>3, <1>4, RingStays

LEMMA killReaderInv ==
  ASSUME ConsoleInv, NEW p \in Readers, killReader(p)
  PROVE  ConsoleInv' /\ EditorSteps
<1>1. ConsoleTypeOK
  BY DEF ConsoleInv
<1>2. UNCHANGED <<buf, r, w, e, clock, room, line>>
  BY DEF killReader
<1>3. /\ clock' \in Readers \cup {NoReader} /\ cpc' \in [Readers -> ConsolePoints]
      /\ room' \in [Readers -> Nat] /\ line' \in [Readers -> Seq(Chars)]
      /\ killedReader' \in [Readers -> BOOLEAN]
  BY <1>1, <1>2 DEF killReader, ConsoleTypeOK, ConsolePoints
<1>4. ASSUME NEW o \in Readers
      PROVE  /\ clock' = o <=> cpc'[o] = "tested"
             /\ cpc'[o] \in {"tested", "sleeps"} => r = w
             /\ cpc'[o] \in {"read", "tested", "sleeps"} => room'[o] > 0
  <2>1. /\ clock = o <=> cpc[o] = "tested"
        /\ cpc[o] \in {"tested", "sleeps"} => r = w
        /\ cpc[o] \in {"read", "tested", "sleeps"} => room[o] > 0
    BY DEF ConsoleInv
  <2>2. cpc'[o] = IF o = p /\ cpc[o] = "sleeps" THEN "read" ELSE cpc[o]
    BY <1>1 DEF killReader, ConsoleTypeOK
  <2> QED BY <1>2, <2>1, <2>2
<1> QED BY <1>2, <1>3, <1>4, RingStays

LEMMA returnsInv ==
  ASSUME ConsoleInv, NEW p \in Readers, returns(p)
  PROVE  ConsoleInv' /\ EditorSteps
<1>1. ConsoleTypeOK /\ cpc[p] = "done"
  BY DEF ConsoleInv, returns
<1>2. UNCHANGED <<buf, r, w, e, clock, room, line, killedReader>>
  BY DEF returns
<1>3. /\ clock' \in Readers \cup {NoReader} /\ cpc' \in [Readers -> ConsolePoints]
      /\ room' \in [Readers -> Nat] /\ line' \in [Readers -> Seq(Chars)]
      /\ killedReader' \in [Readers -> BOOLEAN]
  BY <1>1, <1>2 DEF returns, ConsoleTypeOK, ConsolePoints
<1>4. ASSUME NEW o \in Readers
      PROVE  /\ clock' = o <=> cpc'[o] = "tested"
             /\ cpc'[o] \in {"tested", "sleeps"} => r = w
             /\ cpc'[o] \in {"read", "tested", "sleeps"} => room'[o] > 0
  <2>1. /\ clock = o <=> cpc[o] = "tested"
        /\ cpc[o] \in {"tested", "sleeps"} => r = w
        /\ cpc[o] \in {"read", "tested", "sleeps"} => room[o] > 0
    BY DEF ConsoleInv
  <2>2. cpc'[o] = IF o = p THEN "out" ELSE cpc[o]
    BY <1>1 DEF returns, ConsoleTypeOK
  <2> QED BY <1>1, <1>2, <2>1, <2>2
<1> QED BY <1>2, <1>3, <1>4, RingStays

LEMMA ConsoleStarts ==
  ASSUME ConsoleInit
  PROVE  ConsoleInv /\ Editor!Init
<1>1. 0 \in 0 .. CWORD - 1 /\ 0 \in Nat
  BY ConsoleConstants
<1>2. r = 0 /\ w = 0 /\ e = 0
  BY DEF ConsoleInit
<1>3. Dist(CWORD, 0, 0) = 0
  BY <1>1, DistZero, ConsoleConstants
<1>4. Distance(r, w) = 0 /\ Distance(w, e) = 0 /\ Distance(r, e) = 0
  BY <1>2, <1>3 DEF Distance, Dist
<1>5. ConsoleTypeOK
  <2>1. {r, w, e} \subseteq 0 .. CWORD - 1
    BY <1>1, <1>2
  <2>2. Distance(r, w) + Distance(w, e) <= INPUT_BUF
    BY <1>4, ConsoleConstants
  <2>3. <<>> \in Seq(Chars) /\ NL \in Chars
    BY DEF Chars
  <2> QED BY <1>1, <2>1, <2>2, <2>3 DEF ConsoleTypeOK, ConsoleInit, ConsolePoints
<1>6. FullIsReadable
  BY <1>4, ConsoleConstants DEF FullIsReadable
<1>7. \A p \in Readers : cpc[p] = "out" /\ clock # p
  BY ConsoleConstants DEF ConsoleInit
<1>8. ConsoleInv
  BY <1>5, <1>6, <1>7 DEF ConsoleInv
<1>9. Span(r, w) = <<>> /\ Span(w, e) = <<>>
  BY <1>4 DEF Span
<1> QED BY <1>8, <1>9 DEF Editor!Init

-------------------------------------------------------------------------------
(* What the calls do to those who make them, and leave to the others. *)

\* Where a process is, as far as its program is concerned.
Kind(x) == IF x \in Writing THEN "writing" ELSE IF x \in Reading THEN "reading" ELSE x

SameFor(o) ==
  /\ Kind(pc'[o]) = Kind(pc[o]) /\ arg'[o].todo = arg[o].todo /\ got'[o] = got[o]
  /\ result'[o] = result[o] /\ exiting'[o] = exiting[o]
Alone(p)   == \A o \in Procs : o # p => SameFor(o)
SameQueues == \A q \in Pipes : Queue(q)' = Queue(q)
\* It comes to x, and all else that its program sees stays.
Comes(p, x) ==
  /\ Kind(pc'[p]) = x /\ arg'[p].todo = arg[p].todo /\ got'[p] = got[p]
  /\ result'[p] = result[p] /\ exiting'[p] = exiting[p]

LEMMA KindIs ==
  \A x \in Points : /\ x \in Writing <=> Kind(x) = "writing"
                    /\ x \in Reading <=> Kind(x) = "reading"
                    /\ x \notin Writing \cup Reading => Kind(x) = x
                    /\ \A y \in {"unborn", "run", "descriptors", "close", "pipeclose", "dead"} :
                         Kind(x) = y <=> x = y
BY DEF Kind, Writing, Reading, Points

LEMMA QueuesStay ==
  ASSUME \A q \in Pipes : /\ pipe'[q].data = pipe[q].data
                          /\ pipe'[q].nread = pipe[q].nread /\ pipe'[q].nwrite = pipe[q].nwrite
  PROVE  SameQueues
BY DEF SameQueues, Queue, Count

LEMMA WokenKind ==
  ASSUME NEW q \in Pipes, NEW o \in Procs
  PROVE  /\ Kind(WakeReaders(pc, q)[o]) = Kind(pc[o])
         /\ Kind(WakeWriters(pc, q)[o]) = Kind(pc[o])
<1>1. /\ WakeReaders(pc, q)[o] = IF pc[o] = "readSleeps" /\ arg[o].pipe = q THEN "read" ELSE pc[o]
      /\ WakeWriters(pc, q)[o] = IF pc[o] = "writeSleeps" /\ arg[o].pipe = q THEN "write" ELSE pc[o]
  BY DEF WakeReaders, WakeWriters, Woken
<1>2. Kind("read") = Kind("readSleeps") /\ Kind("write") = Kind("writeSleeps")
  BY DEF Kind, Reading, Writing
<1> QED BY <1>1, <1>2

LEMMA pipeallocFoot ==
  ASSUME PipeInv, NEW p \in Procs, pipealloc(p)
  PROVE  /\ Alone(p) /\ killed' = killed /\ Comes(p, "descriptors")
         /\ (\A q \in Pipes : Queue(q)' = <<>>)
<1>1. PICK q \in Pipes : /\ pipe' = [pipe EXCEPT ![q] = Fresh]
                         /\ pc' = [pc EXCEPT ![p] = "descriptors"]
                         /\ UNCHANGED <<arg, got, result, exiting, killed>>
  BY pipeallocIs
<1>2. PipeTypeOK
  BY DEF PipeInv
<1>3. pc'[p] = "descriptors" /\ \A o \in Procs : o # p => pc'[o] = pc[o]
  BY <1>1, <1>2 DEF PipeTypeOK
<1>4. Alone(p) /\ killed' = killed /\ Comes(p, "descriptors")
  BY <1>1, <1>3, KindIs DEF Alone, SameFor, Comes, Kind, Writing, Reading
<1>5. ASSUME NEW x \in Pipes PROVE Queue(x)' = <<>>
  <2>1. x = q
    BY ShellAssumption
  <2>2. pipe'[x] = Fresh
    BY <1>1, <1>2, <2>1 DEF PipeTypeOK
  <2>3. pipe'[x].nread = 0 /\ pipe'[x].nwrite = 0
    BY <2>2, FreshIs
  <2>4. WORD \in Nat \ {0} /\ 0 \in 0 .. WORD - 1
    BY Constants
  <2>5. Dist(WORD, 0, 0) = 0
    BY <2>4, DistZero
  <2>6. Count(x)' = 0
    BY <2>3, <2>5 DEF Count, Dist
  <2> QED BY <2>6 DEF Queue
<1> QED BY <1>4, <1>5

LEMMA pipeallocFailsFoot ==
  ASSUME PipeInv, NEW p \in Procs, pipeallocFails(p)
  PROVE  /\ Alone(p) /\ killed' = killed /\ SameQueues
         /\ Kind(pc'[p]) = "run" /\ exiting'[p] = exiting[p] /\ got'[p] = got[p]
<1>1. PipeTypeOK
  BY DEF PipeInv
<1>2. pc'[p] = "run" /\ \A o \in Procs : o # p => pc'[o] = pc[o] /\ result'[o] = result[o]
  BY <1>1 DEF pipeallocFails, Return, PipeTypeOK
<1>3. Alone(p) /\ killed' = killed /\ Kind(pc'[p]) = "run" /\ exiting'[p] = exiting[p] /\ got'[p] = got[p]
  BY <1>2 DEF pipeallocFails, Alone, SameFor, Kind, Writing, Reading
<1>4. SameQueues
  BY QueuesStay DEF pipeallocFails
<1> QED BY <1>3, <1>4

LEMMA pipeDescriptorsFoot ==
  ASSUME PipeInv, NEW p \in Procs, pipeDescriptors(p)
  PROVE  /\ Alone(p) /\ killed' = killed /\ SameQueues
         /\ Kind(pc'[p]) \in {"run", "close"} /\ exiting'[p] = exiting[p] /\ got'[p] = got[p]
<1>1. PipeTypeOK
  BY DEF PipeInv
<1>2. pc'[p] \in {"run", "close"} /\ \A o \in Procs : o # p => pc'[o] = pc[o] /\ result'[o] = result[o]
  <2>1. CASE Cardinality(FreeFDs(p)) >= 2
    BY <1>1, <2>1 DEF pipeDescriptors, Return, PipeTypeOK
  <2>2. CASE ~(Cardinality(FreeFDs(p)) >= 2)
    BY <1>1, <2>2 DEF pipeDescriptors, PipeTypeOK
  <2> QED BY <2>1, <2>2
<1>3. Alone(p) /\ killed' = killed /\ Kind(pc'[p]) \in {"run", "close"} /\ exiting'[p] = exiting[p] /\ got'[p] = got[p]
  BY <1>2 DEF pipeDescriptors, Alone, SameFor, Kind, Writing, Reading
<1>4. SameQueues
  BY QueuesStay DEF pipeDescriptors
<1> QED BY <1>3, <1>4

LEMMA sys_dupFoot ==
  ASSUME PipeInv, NEW p \in Procs, NEW d \in FDs, sys_dup(p, d)
  PROVE  /\ Alone(p) /\ killed' = killed /\ SameQueues
         /\ Kind(pc'[p]) = "run" /\ exiting'[p] = exiting[p] /\ got'[p] = got[p]
<1>1. PipeTypeOK
  BY DEF PipeInv
<1>2. pc'[p] = "run" /\ \A o \in Procs : o # p => pc'[o] = pc[o] /\ result'[o] = result[o]
  <2>1. CASE ofile[p][d] = NoFile \/ FreeFDs(p) = {}
    BY <1>1, <2>1 DEF sys_dup, Return, PipeTypeOK
  <2>2. CASE ~(ofile[p][d] = NoFile \/ FreeFDs(p) = {})
    BY <1>1, <2>2 DEF sys_dup, Return, PipeTypeOK
  <2> QED BY <2>1, <2>2
<1>3. Alone(p) /\ killed' = killed /\ Kind(pc'[p]) = "run" /\ exiting'[p] = exiting[p] /\ got'[p] = got[p]
  BY <1>2 DEF sys_dup, Alone, SameFor, Kind, Writing, Reading
<1>4. SameQueues
  BY QueuesStay DEF sys_dup
<1> QED BY <1>3, <1>4

LEMMA sys_closeFoot ==
  ASSUME PipeInv, NEW p \in Procs, NEW d \in FDs, sys_close(p, d)
  PROVE  /\ Alone(p) /\ killed' = killed /\ SameQueues
         /\ Kind(pc'[p]) \in {"run", "close"} /\ exiting'[p] = exiting[p] /\ got'[p] = got[p]
<1>1. PipeTypeOK
  BY DEF PipeInv
<1>2. pc'[p] \in {"run", "close"} /\ \A o \in Procs : o # p => pc'[o] = pc[o] /\ result'[o] = result[o]
  <2>1. CASE ofile[p][d] = NoFile
    BY <1>1, <2>1 DEF sys_close, Return, PipeTypeOK
  <2>2. CASE ofile[p][d] # NoFile
    BY <1>1, <2>2 DEF sys_close, PipeTypeOK
  <2> QED BY <2>1, <2>2
<1>3. Alone(p) /\ killed' = killed /\ Kind(pc'[p]) \in {"run", "close"} /\ exiting'[p] = exiting[p] /\ got'[p] = got[p]
  BY <1>2 DEF sys_close, Alone, SameFor, Kind, Writing, Reading
<1>4. SameQueues
  BY QueuesStay DEF sys_close
<1> QED BY <1>3, <1>4

LEMMA exitFoot ==
  ASSUME PipeInv, NEW p \in Procs, exit(p)
  PROVE  /\ Alone(p) /\ killed' = killed /\ SameQueues
         /\ Kind(pc'[p]) = "close" /\ exiting'[p] /\ got'[p] = got[p]
         /\ arg'[p].todo = arg[p].todo /\ result'[p] = result[p]
<1>1. PipeTypeOK
  BY DEF PipeInv
<1>2. /\ pc'[p] = "close" /\ exiting'[p] = TRUE
      /\ \A o \in Procs : o # p => pc'[o] = pc[o] /\ exiting'[o] = exiting[o]
  BY <1>1 DEF exit, PipeTypeOK
<1>3. Alone(p) /\ killed' = killed /\ Kind(pc'[p]) = "close" /\ got'[p] = got[p]
  BY <1>2 DEF exit, Alone, SameFor, Kind, Writing, Reading
<1>4. SameQueues
  BY QueuesStay DEF exit
<1>5. arg'[p].todo = arg[p].todo /\ result'[p] = result[p]
  BY DEF exit
<1> QED BY <1>2, <1>3, <1>4, <1>5

LEMMA forkFoot ==
  ASSUME PipeInv, NEW p \in Procs, NEW c \in Procs, fork(p, c)
  PROVE  /\ Alone(c) /\ killed' = killed /\ SameQueues /\ Comes(c, "run")
         /\ Kind(pc[c]) = "unborn" /\ p # c
<1>1. PipeTypeOK
  BY DEF PipeInv
<1>2. pc'[c] = "run" /\ pc[c] = "unborn" /\ pc[p] = "run" /\ \A o \in Procs : o # c => pc'[o] = pc[o]
  BY <1>1 DEF fork, PipeTypeOK
<1>3. Alone(c) /\ killed' = killed /\ Comes(c, "run") /\ Kind(pc[c]) = "unborn"
  BY <1>2 DEF fork, Alone, SameFor, Comes, Kind, Writing, Reading
<1>4. SameQueues
  BY QueuesStay DEF fork
<1> QED BY <1>2, <1>3, <1>4

LEMMA fileclosedFoot ==
  ASSUME PipeInv, NEW p \in Procs, fileclosed(p)
  PROVE  /\ Alone(p) /\ killed' = killed /\ SameQueues
         /\ Kind(pc[p]) = "close" /\ Kind(pc'[p]) \in {"run", "close", "dead"}
         /\ (exiting[p] => Kind(pc'[p]) # "run")
         /\ exiting'[p] = exiting[p] /\ got'[p] = got[p]
<1>1. PipeTypeOK
  BY DEF PipeInv
<1>2. /\ pc[p] = "close" /\ pc'[p] \in {"run", "close", "dead"} /\ (exiting[p] => pc'[p] # "run")
      /\ \A o \in Procs : o # p => pc'[o] = pc[o]
  <2>1. CASE exiting[p] /\ OpenFDs(p) # {}
    BY <1>1, <2>1 DEF fileclosed, PipeTypeOK
  <2>2. CASE ~(exiting[p] /\ OpenFDs(p) # {})
    <3>1. pc[p] = "close" /\ pc' = [pc EXCEPT ![p] = IF exiting[p] THEN "dead" ELSE "run"]
      BY <2>2 DEF fileclosed
    <3> QED BY <1>1, <3>1 DEF PipeTypeOK
  <2> QED BY <2>1, <2>2
<1>3. /\ Alone(p) /\ killed' = killed /\ Kind(pc[p]) = "close" /\ Kind(pc'[p]) = pc'[p]
      /\ exiting'[p] = exiting[p] /\ got'[p] = got[p]
  BY <1>2 DEF fileclosed, Alone, SameFor, Kind, Writing, Reading
<1>4. SameQueues
  BY QueuesStay DEF fileclosed
<1> QED BY <1>2, <1>3, <1>4

LEMMA filecloseFoot ==
  ASSUME PipeInv, NEW p \in Procs, fileclose(p)
  PROVE  /\ Alone(p) /\ killed' = killed /\ SameQueues
         /\ Kind(pc[p]) = "close" /\ Kind(pc'[p]) \in {"close", "pipeclose"}
         /\ exiting'[p] = exiting[p] /\ got'[p] = got[p]
<1>1. PipeTypeOK
  BY DEF PipeInv
<1> DEFINE f == closing[p][1]
<1>2. /\ pc[p] = "close" /\ pc'[p] \in {"close", "pipeclose"}
      /\ \A o \in Procs : o # p => pc'[o] = pc[o] /\ arg'[o] = arg[o]
  <2>1. CASE LastReference(f) /\ file[f].type = "pipe"
    <3>1. /\ pc[p] = "close" /\ pc' = [pc EXCEPT ![p] = "pipeclose"]
          /\ arg' = [arg EXCEPT ![p] = [NoCall EXCEPT !.pipe = file[f]]]
      BY <2>1 DEF fileclose
    <3> QED BY <1>1, <3>1 DEF PipeTypeOK
  <2>2. CASE ~(LastReference(f) /\ file[f].type = "pipe")
    BY <2>2 DEF fileclose
  <2> QED BY <2>1, <2>2
<1>3. /\ Alone(p) /\ killed' = killed /\ Kind(pc[p]) = "close" /\ Kind(pc'[p]) = pc'[p]
      /\ exiting'[p] = exiting[p] /\ got'[p] = got[p]
  BY <1>2 DEF fileclose, Alone, SameFor, Kind, Writing, Reading
<1>4. SameQueues
  BY QueuesStay DEF fileclose
<1> QED BY <1>2, <1>3, <1>4

LEMMA pipecloseFoot ==
  ASSUME PipeInv, NEW p \in Procs, pipeclose(p)
  PROVE  /\ Alone(p) /\ killed' = killed /\ SameQueues
         /\ Kind(pc[p]) = "pipeclose" /\ Kind(pc'[p]) = "close"
         /\ exiting'[p] = exiting[p] /\ got'[p] = got[p]
<1>1. PipeTypeOK
  BY DEF PipeInv
<1>2. PICK q \in Pipes, x \in BOOLEAN : arg[p].pipe = End(q, x)
  <2>1. arg[p].pipe \in Ends
    BY DEF PipeInv, CallsHaveFiles, pipeclose
  <2> QED BY <2>1 DEF Ends
<1>3. arg[p].pipe.pipe = q /\ arg[p].pipe.writable = x
  BY <1>2 DEF End
<1>4. /\ pc[p] = "pipeclose" /\ pc' = [ClosedWakes(q, x) EXCEPT ![p] = "close"]
      /\ arg' = [arg EXCEPT ![p] = NoCall]
      /\ UNCHANGED <<got, result, exiting, killed>>
  BY <1>3 DEF pipeclose
<1>5. ASSUME NEW o \in Procs PROVE Kind(ClosedWakes(q, x)[o]) = Kind(pc[o])
  BY WokenKind DEF ClosedWakes
<1>6. DOMAIN ClosedWakes(q, x) = Procs
  BY DEF ClosedWakes, WakeReaders, WakeWriters, Woken
<1>7. pc'[p] = "close" /\ \A o \in Procs : o # p => pc'[o] = ClosedWakes(q, x)[o] /\ arg'[o] = arg[o]
  <2>1. PICK W : W = ClosedWakes(q, x)
    OBVIOUS
  <2> QED BY <1>1, <1>4, <1>6, <2>1 DEF PipeTypeOK
<1>8. Alone(p)
  BY <1>4, <1>5, <1>7 DEF Alone, SameFor
<1>9. Kind(pc[p]) = "pipeclose" /\ Kind(pc'[p]) = "close"
  BY <1>4, <1>7 DEF Kind, Writing, Reading
<1>10. SameQueues
  <2> SUFFICES ASSUME NEW y \in Pipes
               PROVE  /\ pipe'[y].data = pipe[y].data
                      /\ pipe'[y].nread = pipe[y].nread /\ pipe'[y].nwrite = pipe[y].nwrite
    BY QueuesStay
  <2>1. y = q
    BY ShellAssumption
  <2>2. pipe[q] \in Structs
    BY <1>1 DEF PipeTypeOK, Structs
  <2>3. PICK z \in Structs : z = pipe[q]
    BY <2>2
  <2>4. CASE x
    <3>1. PICK u : u = [z EXCEPT !.writeopen = FALSE]
      OBVIOUS
    <3>2. pipe' = [pipe EXCEPT ![q] = [u EXCEPT !.live = u.readopen \/ u.writeopen]]
      BY <1>3, <2>3, <2>4, <3>1 DEF pipeclose
    <3>3. u.data = z.data /\ u.nread = z.nread /\ u.nwrite = z.nwrite /\ u \in Structs
      BY <2>3, <3>1 DEF Structs
    <3>4. pipe'[q] = [u EXCEPT !.live = u.readopen \/ u.writeopen]
      BY <1>1, <3>2 DEF PipeTypeOK
    <3> QED BY <2>1, <2>3, <3>3, <3>4 DEF Structs
  <2>5. CASE ~x
    <3>1. PICK u : u = [z EXCEPT !.readopen = FALSE]
      OBVIOUS
    <3>2. pipe' = [pipe EXCEPT ![q] = [u EXCEPT !.live = u.readopen \/ u.writeopen]]
      BY <1>3, <2>3, <2>5, <3>1 DEF pipeclose
    <3>3. u.data = z.data /\ u.nread = z.nread /\ u.nwrite = z.nwrite /\ u \in Structs
      BY <2>3, <3>1 DEF Structs
    <3>4. pipe'[q] = [u EXCEPT !.live = u.readopen \/ u.writeopen]
      BY <1>1, <3>2 DEF PipeTypeOK
    <3> QED BY <2>1, <2>3, <3>3, <3>4 DEF Structs
  <2> QED BY <2>4, <2>5
<1> QED BY <1>4, <1>8, <1>9, <1>10

LEMMA sys_writeFoot ==
  ASSUME PipeInv, NEW p \in Procs, NEW d \in FDs, NEW s \in Seq(Byte), sys_write(p, d, s)
  PROVE  /\ Alone(p) /\ killed' = killed /\ SameQueues
         /\ exiting'[p] = exiting[p] /\ got'[p] = got[p]
         /\ \/ Kind(pc'[p]) = "run" /\ result'[p] = -1
            \/ Kind(pc'[p]) = "writing" /\ result'[p] = result[p] /\ arg'[p].todo = s
<1>1. PipeTypeOK
  BY DEF PipeInv
<1>2. UNCHANGED <<pipe, got, exiting, killed>>
  BY DEF sys_write
<1>3. SameQueues
  BY <1>2, QueuesStay
<1>4. CASE File(p, d).type # "pipe" \/ ~File(p, d).writable
  <2>1. pc' = [pc EXCEPT ![p] = "run"] /\ result' = [result EXCEPT ![p] = -1] /\ arg' = arg
    BY <1>4 DEF sys_write, Return
  <2>2. /\ pc'[p] = "run" /\ result'[p] = -1
        /\ \A o \in Procs : o # p => pc'[o] = pc[o] /\ result'[o] = result[o]
    BY <1>1, <2>1 DEF PipeTypeOK
  <2>3. Alone(p) /\ Kind(pc'[p]) = "run"
    BY <1>2, <2>1, <2>2 DEF Alone, SameFor, Kind, Writing, Reading
  <2> QED BY <1>2, <1>3, <2>2, <2>3
<1>5. CASE ~(File(p, d).type # "pipe" \/ ~File(p, d).writable)
  <2>1. PICK call : call = [pipe |-> File(p, d).pipe, todo |-> s, n |-> Len(s), done |-> 0]
    OBVIOUS
  <2>2. pc' = [pc EXCEPT ![p] = "write"] /\ result' = result /\ arg' = [arg EXCEPT ![p] = call]
    BY <1>5, <2>1 DEF sys_write
  <2>3. call.todo = s
    BY <2>1
  <2>4. /\ pc'[p] = "write" /\ arg'[p] = call
        /\ \A o \in Procs : o # p => pc'[o] = pc[o] /\ arg'[o] = arg[o]
    BY <1>1, <2>2 DEF PipeTypeOK
  <2>5. Alone(p) /\ Kind(pc'[p]) = "writing"
    BY <1>2, <2>2, <2>4 DEF Alone, SameFor, Kind, Writing, Reading
  <2> QED BY <1>2, <1>3, <2>2, <2>3, <2>4, <2>5
<1> QED BY <1>4, <1>5

LEMMA sys_readFoot ==
  ASSUME PipeInv, NEW p \in Procs, NEW d \in FDs, NEW n \in Nat, sys_read(p, d, n)
  PROVE  /\ Alone(p) /\ killed' = killed /\ SameQueues
         /\ exiting'[p] = exiting[p] /\ got'[p] = <<>> /\ Kind(pc'[p]) \in {"run", "reading"}
<1>1. PipeTypeOK
  BY DEF PipeInv
<1>2. UNCHANGED <<pipe, exiting, killed>> /\ got' = [got EXCEPT ![p] = <<>>]
  BY DEF sys_read
<1>3. SameQueues
  BY <1>2, QueuesStay
<1>4. got'[p] = <<>> /\ \A o \in Procs : o # p => got'[o] = got[o]
  BY <1>1, <1>2 DEF PipeTypeOK
<1>5. CASE File(p, d).type # "pipe" \/ File(p, d).writable
  <2>1. pc' = [pc EXCEPT ![p] = "run"] /\ result' = [result EXCEPT ![p] = -1] /\ arg' = arg
    BY <1>5 DEF sys_read, Return
  <2>2. pc'[p] = "run" /\ \A o \in Procs : o # p => pc'[o] = pc[o] /\ result'[o] = result[o]
    BY <1>1, <2>1 DEF PipeTypeOK
  <2>3. Alone(p) /\ Kind(pc'[p]) = "run"
    BY <1>2, <1>4, <2>1, <2>2 DEF Alone, SameFor, Kind, Writing, Reading
  <2> QED BY <1>2, <1>3, <1>4, <2>3
<1>6. CASE ~(File(p, d).type # "pipe" \/ File(p, d).writable)
  <2>1. PICK call : call = [pipe |-> File(p, d).pipe, todo |-> <<>>, n |-> n, done |-> 0]
    OBVIOUS
  <2>2. pc' = [pc EXCEPT ![p] = "read"] /\ result' = result /\ arg' = [arg EXCEPT ![p] = call]
    BY <1>6, <2>1 DEF sys_read
  <2>3. pc'[p] = "read" /\ \A o \in Procs : o # p => pc'[o] = pc[o] /\ arg'[o] = arg[o]
    BY <1>1, <2>2 DEF PipeTypeOK
  <2>4. Alone(p) /\ Kind(pc'[p]) = "reading"
    BY <1>2, <1>4, <2>2, <2>3 DEF Alone, SameFor, Kind, Writing, Reading
  <2> QED BY <1>2, <1>3, <1>4, <2>4
<1> QED BY <1>5, <1>6

\* The two parts of a sequence.
LEMMA CutJoins ==
  ASSUME NEW S, NEW s \in Seq(S), NEW k \in 0 .. Len(s)
  PROVE  /\ SubSeq(s, 1, k) \in Seq(S) /\ SubSeq(s, k + 1, Len(s)) \in Seq(S)
         /\ SubSeq(s, 1, k) \o SubSeq(s, k + 1, Len(s)) = s
         /\ k = Len(s) => SubSeq(s, k + 1, Len(s)) = <<>>
<1>1. PICK n \in Nat : n = Len(s)
  OBVIOUS
<1>2. PICK one \in 1 .. n + 1 : one = 1
  BY <1>1
<1>3. PICK j \in 1 .. n + 1 : j = k + 1
  BY <1>1
<1>4. /\ SubSeq(s, one, k) \in Seq(S) /\ Len(SubSeq(s, one, k)) = k - one + 1
      /\ \A i \in 1 .. k - one + 1 : SubSeq(s, one, k)[i] = s[one + i - 1]
  <2>1. one \in 1 .. Len(s) + 1 /\ k \in 0 .. Len(s) /\ one <= k + 1
    BY <1>1, <1>2
  <2> QED BY <2>1, SubSeqIs
<1>5. /\ SubSeq(s, j, n) \in Seq(S) /\ Len(SubSeq(s, j, n)) = n - j + 1
      /\ \A i \in 1 .. n - j + 1 : SubSeq(s, j, n)[i] = s[j + i - 1]
  <2>1. j \in 1 .. Len(s) + 1 /\ n \in 0 .. Len(s) /\ j <= n + 1
    BY <1>1, <1>3
  <2> QED BY <2>1, SubSeqIs
<1>6. PICK a \in Seq(S) : a = SubSeq(s, one, k)
  BY <1>4
<1>7. PICK b \in Seq(S) : b = SubSeq(s, j, n)
  BY <1>5
<1>8. Len(a) = k /\ \A i \in 1 .. k : a[i] = s[i]
  BY <1>1, <1>2, <1>4, <1>6
<1>9. Len(b) = n - k /\ \A i \in 1 .. n - k : b[i] = s[k + i]
  BY <1>1, <1>3, <1>5, <1>7
<1>10. PICK z \in Seq(S) : z = a \o b
  <2>1. a \o b \in Seq(S)
    OBVIOUS
  <2> QED BY <2>1
<1>11. Len(z) = n /\ \A i \in 1 .. n : z[i] = IF i <= k THEN a[i] ELSE b[i - k]
  <2>1. /\ Len(a \o b) = Len(a) + Len(b)
        /\ \A i \in 1 .. Len(a) + Len(b) : (a \o b)[i] = IF i <= Len(a) THEN a[i] ELSE b[i - Len(a)]
    BY ConcatProperties
  <2>2. k \in Nat /\ Len(a) + Len(b) = n
    BY <1>1, <1>8, <1>9
  <2> QED BY ONLY <2>1, <2>2, <1>8, <1>10
<1>12. \A i \in 1 .. n : z[i] = s[i]
  <2> TAKE i \in 1 .. n
  <2>1. CASE i <= k
    BY <1>8, <1>11, <2>1
  <2>2. CASE i > k
    <3>1. PICK h \in 1 .. n - k : h = i - k
      BY <2>2
    <3>2. k + h = i /\ ~(i <= k)
      BY <2>2, <3>1
    <3>3. z[i] = b[h]
      BY <1>11, <3>1, <3>2
    <3> QED BY <1>9, <3>2, <3>3
  <2> QED BY <2>1, <2>2
<1>13. z = s
  BY <1>1, <1>11, <1>12, SeqEqual
<1>14. k = n => b = <<>>
  <2> SUFFICES ASSUME k = n PROVE b = <<>>
    OBVIOUS
  <2>1. Len(b) = 0
    BY <1>9
  <2> QED BY <2>1, EmptySeq
<1> QED BY <1>1, <1>2, <1>3, <1>6, <1>7, <1>10, <1>13, <1>14

Put(q, s, k) == Queue(q)' = Queue(q) \o SubSeq(s, 1, k)

LEMMA FilledPut ==
  ASSUME PipeTypeOK, NEW q \in Pipes, Count(q) <= PIPESIZE, NEW s \in Seq(Byte),
         NEW k \in Nat, k <= Len(s), k <= Room(q), pipe' = [pipe EXCEPT ![q] = Filled(q, s, k)]
  PROVE  Put(q, s, k)
BY FilledIs DEF Put

\* What a write has put into the pipe is no longer in the hands of the writer.
LEMMA pipewriteFoot ==
  ASSUME PipeInv, NEW p \in Procs, pipewrite(p)
  PROVE  /\ Alone(p) /\ killed' = killed
         /\ \A q \in Pipes : Queue(q)' \o arg'[p].todo = Queue(q) \o arg[p].todo
         /\ exiting'[p] = exiting[p] /\ got'[p] = got[p]
         /\ Kind(pc[p]) = "writing"
         /\ \/ Kind(pc'[p]) = "writing" /\ result'[p] = result[p]
            \/ Kind(pc'[p]) = "run" /\ (result'[p] = -1 \/ arg'[p].todo = <<>>)
<1>1. PipeTypeOK /\ \A q \in Pipes : Count(q) <= PIPESIZE
  BY DEF PipeInv
<1>2. PICK q \in Pipes, k \in Nat :
        /\ q = arg[p].pipe /\ pc[p] = "write"
        /\ k <= Room(q) /\ k <= Len(arg[p].todo)
        /\ pipe' = [pipe EXCEPT ![q] = Filled(q, arg[p].todo, k)]
        /\ arg'[p].todo = SubSeq(arg[p].todo, k + 1, Len(arg[p].todo))
        /\ \A o \in Procs : o # p => arg'[o] = arg[o]
        /\ UNCHANGED <<got, exiting, killed>>
        /\ \/ /\ k = Len(arg[p].todo)
              /\ pc' = [WakeReaders(pc, q) EXCEPT ![p] = "run"]
              /\ result' = [result EXCEPT ![p] = arg[p].n]
           \/ /\ pc' = [pc EXCEPT ![p] = "run"]
              /\ result' = [result EXCEPT ![p] = -1]
           \/ /\ pc' = [WakeReaders(pc, q) EXCEPT ![p] = "writeTested"]
              /\ result' = result
  BY pipewriteIs
<1>3. arg[p].todo \in Seq(Byte)
  BY <1>1 DEF PipeTypeOK
<1>4. PICK s \in Seq(Byte) : s = arg[p].todo
  BY <1>3
<1>5. Queue(q)' = Queue(q) \o SubSeq(s, 1, k)
  <2>1. Count(q) <= PIPESIZE /\ k <= Len(s) /\ k <= Room(q) /\ pipe' = [pipe EXCEPT ![q] = Filled(q, s, k)]
    BY <1>1, <1>2, <1>4
  <2>2. Put(q, s, k)
    BY <1>1, <2>1, FilledPut
  <2> QED BY <2>2 DEF Put
<1>6. k \in 0 .. Len(s)
  BY <1>2, <1>4
<1>7. PICK a \in Seq(Byte), b \in Seq(Byte) :
        a = SubSeq(s, 1, k) /\ b = SubSeq(s, k + 1, Len(s)) /\ a \o b = s /\ (k = Len(s) => b = <<>>)
  BY <1>6, CutJoins
<1>8. Queue(q) \in Seq(Byte)
  BY <1>1, CountIs
<1>9. PICK z \in Seq(Byte) : z = Queue(q)
  BY <1>8
<1>10. (z \o a) \o b = z \o s
  <2>1. (z \o a) \o b = z \o (a \o b)
    BY ConcatAssociative, SMTT(30)
  <2> QED BY <1>7, <2>1
<1>11. arg'[p].todo = b
  BY <1>2, <1>4, <1>7
<1>12. \A x \in Pipes : Queue(x)' \o arg'[p].todo = Queue(x) \o arg[p].todo
  <2> TAKE x \in Pipes
  <2>1. x = q
    BY ShellAssumption
  <2>2. Queue(q)' = z \o a
    BY <1>5, <1>7, <1>9
  <2>3. Queue(q)' \o arg'[p].todo = Queue(q) \o arg[p].todo
    BY <1>4, <1>9, <1>10, <1>11, <2>2
  <2> QED BY <2>1, <2>3
<1>13. Kind(pc[p]) = "writing"
  BY <1>2 DEF Kind, Writing
<1>14. PICK W : W = WakeReaders(pc, q)
  OBVIOUS
<1>15. DOMAIN W = Procs /\ \A o \in Procs : Kind(W[o]) = Kind(pc[o])
  BY <1>14, WokenKind DEF WakeReaders, Woken
<1>16. /\ \A o \in Procs : o # p => Kind(pc'[o]) = Kind(pc[o]) /\ result'[o] = result[o]
       /\ \/ pc'[p] = "writeTested" /\ result'[p] = result[p]
          \/ pc'[p] = "run" /\ (result'[p] = -1 \/ k = Len(s))
  <2>1. CASE k = Len(s) /\ pc' = [W EXCEPT ![p] = "run"] /\ result' = [result EXCEPT ![p] = arg[p].n]
    BY <1>1, <1>15, <2>1 DEF PipeTypeOK
  <2>2. CASE pc' = [pc EXCEPT ![p] = "run"] /\ result' = [result EXCEPT ![p] = -1]
    BY <1>1, <2>2 DEF PipeTypeOK
  <2>3. CASE pc' = [W EXCEPT ![p] = "writeTested"] /\ result' = result
    BY <1>1, <1>15, <2>3 DEF PipeTypeOK
  <2> QED BY <1>2, <1>4, <1>14, <2>1, <2>2, <2>3
<1>17. Alone(p)
  BY <1>2, <1>16 DEF Alone, SameFor
<1>18. Kind("run") = "run" /\ Kind("writeTested") = "writing"
  BY DEF Kind, Writing, Reading
<1> QED BY <1>2, <1>7, <1>11, <1>12, <1>13, <1>16, <1>17, <1>18

\* What a read has got has left the pipe.
LEMMA pipereadFoot ==
  ASSUME PipeInv, NEW p \in Procs, piperead(p)
  PROVE  /\ Alone(p) /\ killed' = killed
         /\ exiting'[p] = exiting[p] /\ arg'[p] = arg[p]
         /\ Kind(pc[p]) = "reading"
         /\ \/ Kind(pc'[p]) = "run" /\ \A q \in Pipes : Queue(q) = got'[p] \o Queue(q)'
            \/ Kind(pc'[p]) = "run" /\ killed[p]
            \/ Kind(pc'[p]) = "reading" /\ got'[p] = got[p] /\ SameQueues
         /\ got'[p] \in Seq(Byte)
<1>1. PipeTypeOK /\ PipeTypeOK'
  BY pipereadInv DEF PipeInv
<1>2. PICK q \in Pipes, k \in Nat :
           /\ q = arg[p].pipe /\ pc[p] = "read" /\ plock[q] = Nobody
           /\ k <= Count(q) /\ (Count(q) > 0 /\ arg[p].n > 0 => k > 0)
           /\ UNCHANGED <<ref, file, ofile, arg, closing, exiting, killed>>
           /\ \/ /\ pipe' = [pipe EXCEPT ![q].nread = (@ + k) % WORD]
                 /\ pc' = [WakeWriters(pc, q) EXCEPT ![p] = "run"]
                 /\ got' = [got EXCEPT ![p] = SubSeq(Queue(q), 1, k)]
                 /\ result' = [result EXCEPT ![p] = k] /\ plock' = plock
                 /\ k = 0 => Count(q) = 0 \/ arg[p].n = 0
              \/ /\ Count(q) = 0 /\ killed[p]
                 /\ pc' = [pc EXCEPT ![p] = "run"]
                 /\ result' = [result EXCEPT ![p] = -1] /\ UNCHANGED <<pipe, plock, got>>
              \/ /\ Count(q) = 0 /\ pipe[q].writeopen /\ ~killed[p]
                 /\ pc' = [pc EXCEPT ![p] = "readTested"]
                 /\ plock' = [plock EXCEPT ![q] = p] /\ UNCHANGED <<pipe, got, result>>
  BY pipereadIs
<1>3. Kind("run") = "run" /\ Kind("readTested") = "reading" /\ Kind("read") = "reading"
  BY DEF Kind, Writing, Reading
<1>4. got'[p] \in Seq(Byte)
  BY <1>1 DEF PipeTypeOK
<1>5. CASE /\ pipe' = [pipe EXCEPT ![q].nread = (@ + k) % WORD]
           /\ pc' = [WakeWriters(pc, q) EXCEPT ![p] = "run"]
           /\ got' = [got EXCEPT ![p] = SubSeq(Queue(q), 1, k)]
           /\ result' = [result EXCEPT ![p] = k]
  <2>1. Queue(q) = SubSeq(Queue(q), 1, k) \o Queue(q)'
    BY <1>1, <1>2, <1>5, DrainedIs
  <2>2. PICK W : W = WakeWriters(pc, q)
    OBVIOUS
  <2>3. DOMAIN W = Procs /\ \A o \in Procs : Kind(W[o]) = Kind(pc[o])
    BY <2>2, WokenKind DEF WakeWriters, Woken
  <2>4. PICK g : g = SubSeq(Queue(q), 1, k)
    OBVIOUS
  <2>5. pc' = [W EXCEPT ![p] = "run"] /\ got' = [got EXCEPT ![p] = g]
    BY <1>5, <2>2, <2>4
  <2>6. /\ pc'[p] = "run" /\ got'[p] = g
        /\ \A o \in Procs : o # p => Kind(pc'[o]) = Kind(pc[o]) /\ got'[o] = got[o] /\ result'[o] = result[o]
    BY <1>1, <1>5, <2>3, <2>5 DEF PipeTypeOK
  <2>7. Alone(p)
    BY <1>2, <2>6 DEF Alone, SameFor
  <2>8. \A x \in Pipes : x = q
    BY ShellAssumption
  <2>9. Queue(q) = got'[p] \o Queue(q)'
    BY <2>1, <2>4, <2>6
  <2>10. \A x \in Pipes : Queue(x) = got'[p] \o Queue(x)'
    <3> TAKE x \in Pipes
    <3>1. x = q
      BY <2>8
    <3> QED BY <2>9, <3>1
  <2> QED BY <1>2, <1>3, <1>4, <2>6, <2>7, <2>10, ZenonT(60)
<1>6. CASE killed[p] /\ pc' = [pc EXCEPT ![p] = "run"] /\ result' = [result EXCEPT ![p] = -1] /\ UNCHANGED <<pipe, got>>
  <2>1. pc'[p] = "run" /\ \A o \in Procs : o # p => pc'[o] = pc[o] /\ result'[o] = result[o]
    BY <1>1, <1>6 DEF PipeTypeOK
  <2>2. Alone(p)
    BY <1>2, <1>6, <2>1 DEF Alone, SameFor
  <2> QED BY <1>2, <1>3, <1>4, <1>6, <2>1, <2>2
<1>7. CASE pc' = [pc EXCEPT ![p] = "readTested"] /\ UNCHANGED <<pipe, got, result>>
  <2>1. pc'[p] = "readTested" /\ \A o \in Procs : o # p => pc'[o] = pc[o]
    BY <1>1, <1>7 DEF PipeTypeOK
  <2>2. Alone(p)
    BY <1>2, <1>7, <2>1 DEF Alone, SameFor
  <2>3. SameQueues
    BY <1>7, QueuesStay
  <2> QED BY <1>2, <1>3, <1>4, <1>7, <2>1, <2>2, <2>3
<1> QED BY <1>2, <1>5, <1>6, <1>7

LEMMA sleepFoot ==
  ASSUME PipeInv, NEW p \in Procs, sleep(p)
  PROVE  (\A o \in Procs : SameFor(o)) /\ killed' = killed /\ SameQueues
<1>1. PipeTypeOK
  BY DEF PipeInv
<1>2. UNCHANGED <<pipe, arg, got, result, exiting, killed>>
  BY DEF sleep
<1>3. \A o \in Procs : pc'[o] = IF o # p THEN pc[o] ELSE
                                 IF pc[o] = "writeTested" THEN "writeSleeps" ELSE "readSleeps"
  BY <1>1 DEF sleep, PipeTypeOK
<1>4. pc[p] = "writeTested" \/ pc[p] = "readTested"
  BY DEF sleep
<1>5. Kind("writeTested") = Kind("writeSleeps") /\ Kind("readTested") = Kind("readSleeps")
  BY DEF Kind, Writing, Reading
<1>6. \A o \in Procs : Kind(pc'[o]) = Kind(pc[o])
  BY <1>3, <1>4, <1>5
<1>7. SameQueues
  BY <1>2, QueuesStay
<1> QED BY <1>2, <1>6, <1>7 DEF SameFor

LEMMA killFoot ==
  ASSUME PipeInv, NEW p \in Procs, kill(p)
  PROVE  (\A o \in Procs : SameFor(o)) /\ killed'[p] /\ \A o \in Procs : killed[o] => killed'[o]
<1>1. PipeTypeOK
  BY DEF PipeInv
<1>2. UNCHANGED <<arg, got, result, exiting>> /\ killed' = [killed EXCEPT ![p] = TRUE]
  BY DEF kill
<1>3. \A o \in Procs : pc'[o] = IF o # p THEN pc[o] ELSE
                                 CASE pc[o] = "writeSleeps" -> "write" [] pc[o] = "readSleeps" -> "read"
                                   [] OTHER -> pc[o]
  BY <1>1 DEF kill, PipeTypeOK
<1>4. Kind("write") = Kind("writeSleeps") /\ Kind("read") = Kind("readSleeps")
  BY DEF Kind, Writing, Reading
<1>5. \A o \in Procs : pc'[o] = pc[o] \/ (pc[o] = "writeSleeps" /\ pc'[o] = "write")
                       \/ (pc[o] = "readSleeps" /\ pc'[o] = "read")
  BY <1>3
<1>6. \A o \in Procs : Kind(pc'[o]) = Kind(pc[o])
  BY <1>4, <1>5
<1>7. killed'[p] /\ \A o \in Procs : killed[o] => killed'[o]
  BY <1>1, <1>2 DEF PipeTypeOK
<1> QED BY <1>2, <1>6, <1>7 DEF SameFor

-------------------------------------------------------------------------------
(* The programs: ProgramsMatchCalls, one program at a time. *)

ProgTypeOK ==
  /\ step \in [Procs -> Steps] /\ quits \in BOOLEAN
  /\ keys \in Seq(Keys) /\ taken \in Seq(Chars) /\ shown \in Seq(Byte)

ShMatches ==
  /\ Kind(pc["sh"]) \notin {"writing", "reading"}
  /\ step["sh"] \in {"pipe", "fork1"} => Kind(pc["left"]) = "unborn"
  /\ step["sh"] \in {"pipe", "fork1", "fork2"} => Kind(pc["right"]) = "unborn"

LeftMatches ==
  /\ Kind(pc["left"]) \notin {"reading", "descriptors"}
  /\ Kind(pc["left"]) = "writing" => step["left"] = "written"
  /\ Kind(pc["left"]) = "unborn" => step["left"] = "redirect"
  /\ step["left"] \in Early => taken = <<>>
  /\ cpc["left"] # "out" => step["left"] = "read" /\ Kind(pc["left"]) = "run"
  /\ step["left"] = "written" =>
       Kind(pc["left"]) \in {"writing", "run"} \/ (killed["left"] /\ exiting["left"])
  /\ step["left"] = "written" /\ Kind(pc["left"]) = "run" => result["left"] = -1 \/ arg["left"].todo = <<>>

RightMatches ==
  /\ Kind(pc["right"]) \notin {"writing", "descriptors"}
  /\ Kind(pc["right"]) = "reading" => step["right"] = "show" /\ got["right"] = <<>>
  /\ Kind(pc["right"]) = "unborn" => step["right"] = "redirect"
  /\ step["right"] \in Early => shown = <<>>

Matches == ShMatches /\ LeftMatches /\ RightMatches
Whole   == PipeInv /\ ConsoleInv /\ ProgTypeOK /\ Matches /\ TextIsKept

LEMMA Names ==
  /\ "sh" \in Procs /\ "left" \in Procs /\ "right" \in Procs /\ "left" \in Readers
  /\ \A p \in Procs : p = "sh" \/ p = "left" \/ p = "right"
  /\ \A p \in Readers : p = "left"
BY ShellAssumption

LEMMA MatchesIs ==
  ASSUME PipeTypeOK
  PROVE  ProgramsMatchCalls <=> Matches
<1>1. pc["sh"] \in Points /\ pc["left"] \in Points /\ pc["right"] \in Points
  BY Names DEF PipeTypeOK
<1>2. \A p \in Procs :
        /\ pc[p] \in Writing <=> Kind(pc[p]) = "writing"
        /\ pc[p] \in Reading <=> Kind(pc[p]) = "reading"
        /\ pc[p] = "unborn" <=> Kind(pc[p]) = "unborn"
        /\ pc[p] = "run" <=> Kind(pc[p]) = "run"
        /\ pc[p] = "descriptors" <=> Kind(pc[p]) = "descriptors"
  BY KindIs DEF PipeTypeOK
<1>3. pc["left"] \in Writing \cup {"run"} <=> Kind(pc["left"]) \in {"writing", "run"}
  BY <1>2, Names
<1>4. ProgramsMatchCalls <=>
        /\ \A p \in Procs :
             /\ Kind(pc[p]) = "writing" => p = "left" /\ step[p] = "written"
             /\ Kind(pc[p]) = "reading" => p = "right" /\ step[p] = "show" /\ got[p] = <<>>
             /\ Kind(pc[p]) = "descriptors" => p = "sh"
        /\ \A c \in Children : Kind(pc[c]) = "unborn" => step[c] = "redirect"
        /\ step["sh"] \in {"pipe", "fork1"} => Kind(pc["left"]) = "unborn"
        /\ step["sh"] \in {"pipe", "fork1", "fork2"} => Kind(pc["right"]) = "unborn"
        /\ step["left"] \in Early => taken = <<>>
        /\ step["right"] \in Early => shown = <<>>
        /\ cpc["left"] # "out" => step["left"] = "read" /\ Kind(pc["left"]) = "run"
        /\ step["left"] = "written" =>
             Kind(pc["left"]) \in {"writing", "run"} \/ (killed["left"] /\ exiting["left"])
        /\ step["left"] = "written" /\ Kind(pc["left"]) = "run" => result["left"] = -1 \/ arg["left"].todo = <<>>
  BY <1>2, <1>3, Names DEF ProgramsMatchCalls, Children
<1> QED BY <1>4, Names DEF Matches, ShMatches, LeftMatches, RightMatches, Children

LEMMA WholeIs == Whole <=> IInv
<1>1. ASSUME IInv PROVE Whole
  <2>1. PipeInv /\ ConsoleInv /\ TextIsKept /\ ProgramsMatchCalls /\ ShellTypeOK
    BY <1>1 DEF IInv
  <2>2. PipeTypeOK
    BY <2>1 DEF PipeInv
  <2>3. Matches
    BY <2>1, <2>2, MatchesIs
  <2> QED BY <2>1, <2>3 DEF Whole, ShellTypeOK, ProgTypeOK
<1>2. ASSUME Whole PROVE IInv
  <2>1. PipeTypeOK /\ ConsoleTypeOK /\ Matches
    BY <1>2 DEF Whole, PipeInv, ConsoleInv
  <2>2. ProgramsMatchCalls
    BY <2>1, MatchesIs
  <2> QED BY <1>2, <2>1, <2>2 DEF Whole, IInv, ShellTypeOK, ProgTypeOK
<1> QED BY <1>1, <1>2

LEMMA LeftStays ==
  ASSUME LeftMatches, SameFor("left"), step'["left"] = step["left"], taken' = taken,
         cpc'["left"] # "out" => cpc["left"] # "out", killed["left"] => killed'["left"]
  PROVE  LeftMatches'
BY DEF LeftMatches, SameFor

LEMMA RightStays ==
  ASSUME RightMatches, SameFor("right"), step'["right"] = step["right"], shown' = shown
  PROVE  RightMatches'
BY DEF RightMatches, SameFor

\* A write that has failed is not forgotten.
LEMMA FailureStays ==
  ASSUME PipeTypeOK, PipeTypeOK', WriteFailed, SameFor("left"), step'["left"] = step["left"]
  PROVE  WriteFailed'
<1>1. pc["left"] = "run" => pc'["left"] = "run"
  <2>1. pc["left"] \in Points /\ pc'["left"] \in Points
    BY Names DEF PipeTypeOK
  <2>2. Kind(pc["left"]) = Kind(pc'["left"])
    BY DEF SameFor
  <2> QED BY <2>1, <2>2, KindIs
<1> QED BY <1>1 DEF WriteFailed, SameFor

\* Nothing that matters to the text changes.
LEMMA TextStays ==
  ASSUME Whole, PipeTypeOK', killed' = killed, SameQueues, taken' = taken, shown' = shown,
         SameFor("left"), step'["left"] = step["left"], line'["left"] = line["left"] \/ step["left"] = "read",
         Unshown' = Unshown
  PROVE  TextIsKept'
<1> SUFFICES ASSUME \A p \in Procs : ~killed'[p], ~WriteFailed', NEW q \in Pipes
             PROVE  taken' = shown' \o Unshown' \o Queue(q)' \o Written'
  BY DEF TextIsKept
<1>1. PipeTypeOK /\ TextIsKept
  BY DEF Whole, PipeInv
<1>2. ~WriteFailed
  BY <1>1, FailureStays
<1>3. taken = shown \o Unshown \o Queue(q) \o Written
  BY <1>1, <1>2 DEF TextIsKept
<1>4. Written' = Written
  BY DEF Written, SameFor
<1>5. Queue(q)' = Queue(q)
  BY DEF SameQueues
<1> QED BY <1>3, <1>4, <1>5

\* A killed process may lose text.
LEMMA TextKilled ==
  ASSUME NEW p \in Procs, killed'[p]
  PROVE  TextIsKept'
BY DEF TextIsKept

LEMMA GotoIs ==
  ASSUME ProgTypeOK, NEW p \in Procs, NEW s \in Steps, Goto(p, s)
  PROVE  /\ step' \in [Procs -> Steps] /\ step'[p] = s
         /\ \A o \in Procs : o # p => step'[o] = step[o]
BY DEF ProgTypeOK, Goto

-------------------------------------------------------------------------------
(* The shell. *)

\* A step of the shell that neither forks nor makes the pipe.
LEMMA ShActs ==
  ASSUME Whole, Same, PipeInv', Alone("sh"), killed' = killed, SameQueues,
         Kind(pc'["sh"]) \notin {"writing", "reading"},
         step' \in [Procs -> Steps], \A o \in Procs : o # "sh" => step'[o] = step[o],
         step'["sh"] \in {"pipe", "fork1"} => step["sh"] \in {"pipe", "fork1"},
         step'["sh"] \in {"pipe", "fork1", "fork2"} => step["sh"] \in {"pipe", "fork1", "fork2"}
  PROVE  Whole' /\ EditorSteps
<1>1. PipeTypeOK' /\ Matches /\ ConsoleInv /\ ProgTypeOK
  BY DEF Whole, PipeInv
<1>2. UNCHANGED consVars /\ UNCHANGED <<quits, keys, taken, shown>>
  BY DEF Same
<1>3. /\ SameFor("left") /\ SameFor("right")
      /\ step'["left"] = step["left"] /\ step'["right"] = step["right"]
  BY Names DEF Alone
<1>4. cpc' = cpc /\ line' = line
  BY <1>2 DEF consVars
<1>5. LeftMatches'
  BY <1>1, <1>2, <1>3, <1>4, LeftStays DEF Matches
<1>6. RightMatches'
  BY <1>1, <1>2, <1>3, RightStays DEF Matches
<1>7. ShMatches'
  BY <1>1, <1>3 DEF Matches, ShMatches, SameFor
<1>8. Unshown' = Unshown
  BY <1>3 DEF Unshown, SameFor
<1>9. TextIsKept'
  BY <1>1, <1>2, <1>3, <1>4, <1>8, TextStays
<1>10. ProgTypeOK'
  BY <1>1, <1>2 DEF ProgTypeOK
<1>11. ConsoleInv' /\ EditorSteps
  BY <1>1, <1>2, ConsoleStays
<1> QED BY <1>5, <1>6, <1>7, <1>9, <1>10, <1>11 DEF Whole, Matches

LEMMA sh_pipeInv ==
  ASSUME Whole, sh_pipe
  PROVE  Whole' /\ EditorSteps
<1>1. /\ PipeInv /\ ConsoleInv /\ ProgTypeOK /\ Matches
      /\ Same /\ Goto("sh", "fork1") /\ step["sh"] = "pipe"
  BY DEF Whole, sh_pipe, At
<1>2. /\ step' \in [Procs -> Steps] /\ step'["sh"] = "fork1"
      /\ \A o \in Procs : o # "sh" => step'[o] = step[o]
  BY <1>1, GotoIs, Names DEF Steps
<1>3. CASE pipeallocFails("sh")
  <2>1. PipeInv'
    BY <1>1, <1>3, pipeallocFailsInv, Names
  <2>2. Alone("sh") /\ killed' = killed /\ SameQueues /\ Kind(pc'["sh"]) = "run"
    BY <1>1, <1>3, pipeallocFailsFoot, Names
  <2>3. Kind(pc'["sh"]) \notin {"writing", "reading"}
    BY <2>2
  <2> QED BY <1>1, <1>2, <2>1, <2>2, <2>3, ShActs
<1>4. CASE pipealloc("sh")
  <2>1. PipeInv'
    BY <1>1, <1>4, pipeallocInv, Names
  <2>2. Alone("sh") /\ killed' = killed /\ Comes("sh", "descriptors") /\ \A q \in Pipes : Queue(q)' = <<>>
    BY <1>1, <1>4, pipeallocFoot, Names
  <2>3. UNCHANGED consVars /\ UNCHANGED <<quits, keys, taken, shown>>
    BY <1>1 DEF Same
  <2>4. /\ SameFor("left") /\ SameFor("right")
        /\ step'["left"] = step["left"] /\ step'["right"] = step["right"]
    BY <1>2, <2>2, Names DEF Alone
  <2>5. cpc' = cpc /\ line' = line
    BY <2>3 DEF consVars
  <2>6. LeftMatches'
    BY <1>1, <2>2, <2>3, <2>4, <2>5, LeftStays DEF Matches
  <2>7. RightMatches'
    BY <1>1, <2>3, <2>4, RightStays DEF Matches
  <2>8. ShMatches'
    BY <1>1, <1>2, <2>2, <2>4 DEF Matches, ShMatches, SameFor, Comes
  <2>9. step'["left"] = "redirect" /\ step'["right"] = "redirect"
    BY <1>1, <2>4 DEF Matches, ShMatches, LeftMatches, RightMatches
  <2>10. taken' = <<>> /\ shown' = <<>> /\ Unshown' = <<>> /\ Written' = <<>>
    BY <2>6, <2>7, <2>9 DEF LeftMatches, RightMatches, Early, Unshown, Written
  <2>11. TextIsKept'
    BY <2>2, <2>10 DEF TextIsKept
  <2>12. ProgTypeOK'
    BY <1>1, <1>2, <2>3 DEF ProgTypeOK
  <2>13. ConsoleInv' /\ EditorSteps
    BY <1>1, <2>3, ConsoleStays
  <2> QED BY <2>1, <2>6, <2>7, <2>8, <2>11, <2>12, <2>13 DEF Whole, Matches
<1> QED BY <1>3, <1>4 DEF sh_pipe

LEMMA sh_panicInv ==
  ASSUME Whole, sh_panic
  PROVE  Whole' /\ EditorSteps
<1>1. PipeInv /\ ProgTypeOK /\ Same /\ Goto("sh", "end") /\ exit("sh")
  BY DEF Whole, sh_panic
<1>2. /\ step' \in [Procs -> Steps] /\ step'["sh"] = "end"
      /\ \A o \in Procs : o # "sh" => step'[o] = step[o]
  BY <1>1, GotoIs, Names DEF Steps
<1>3. PipeInv'
  BY <1>1, exitInv, Names
<1>4. Alone("sh") /\ killed' = killed /\ SameQueues /\ Kind(pc'["sh"]) = "close"
  BY <1>1, exitFoot, Names
<1>5. Kind(pc'["sh"]) \notin {"writing", "reading"}
  BY <1>4
<1> QED BY <1>1, <1>2, <1>3, <1>4, <1>5, ShActs

LEMMA sh_exitInv ==
  ASSUME Whole, sh_exit
  PROVE  Whole' /\ EditorSteps
<1>1. PipeInv /\ ProgTypeOK /\ Same /\ UNCHANGED step /\ exit("sh")
  BY DEF Whole, sh_exit
<1>2. step' \in [Procs -> Steps] /\ \A o \in Procs : o # "sh" => step'[o] = step[o]
  BY <1>1 DEF ProgTypeOK
<1>3. PipeInv'
  BY <1>1, exitInv, Names
<1>4. Alone("sh") /\ killed' = killed /\ SameQueues /\ Kind(pc'["sh"]) = "close"
  BY <1>1, exitFoot, Names
<1>5. Kind(pc'["sh"]) \notin {"writing", "reading"}
  BY <1>4
<1> QED BY <1>1, <1>2, <1>3, <1>4, <1>5, ShActs

LEMMA sh_closeInv ==
  ASSUME Whole, sh_close
  PROVE  Whole' /\ EditorSteps
<1>1. PipeInv /\ ProgTypeOK /\ Same
  BY DEF Whole, sh_close
<1>2. 2 \in FDs /\ 3 \in FDs
  BY Constants DEF FDs
<1>3. PICK d \in FDs, s \in {"close1", "wait1"} : sh_close /\ Goto("sh", s) /\ sys_close("sh", d)
  BY <1>2 DEF sh_close
<1>4. /\ step' \in [Procs -> Steps] /\ step'["sh"] = s
      /\ \A o \in Procs : o # "sh" => step'[o] = step[o]
  <2>1. s \in Steps
    BY DEF Steps
  <2> QED BY <1>1, <1>3, <2>1, GotoIs, Names
<1>5. PipeInv'
  BY <1>1, <1>3, sys_closeInv, Names
<1>6. Alone("sh") /\ killed' = killed /\ SameQueues /\ Kind(pc'["sh"]) \in {"run", "close"}
  BY <1>1, <1>3, sys_closeFoot, Names
<1>7. Kind(pc'["sh"]) \notin {"writing", "reading"} /\ step'["sh"] \notin {"pipe", "fork1", "fork2"}
  BY <1>4, <1>6
<1> QED BY <1>1, <1>4, <1>5, <1>6, <1>7, ShActs

LEMMA NothingMoves ==
  ASSUME PipeInv, UNCHANGED pipeVars
  PROVE  PipeInv' /\ (\A o \in Procs : SameFor(o)) /\ killed' = killed /\ SameQueues
<1>1. UNCHANGED <<pipe, plock, ref, file, ofile, pc, arg, got, result, closing, exiting, killed>>
  BY DEF pipeVars, callVars
<1>2. SameQueues
  BY <1>1, QueuesStay
<1>3. (\A o \in Procs : SameFor(o)) /\ killed' = killed
  BY <1>1 DEF SameFor
<1>4. PipeInv'
  <2>1. PipeTypeOK' /\ LockHeldToSleep' /\ ClosingMatchesCalls'
    BY <1>1 DEF PipeInv, PipeTypeOK, LockHeldToSleep, ClosingMatchesCalls, OpenFDs, FreeFDs
  <2>2. CallsHaveFiles'
    BY <1>1 DEF PipeInv, CallsHaveFiles, File
  <2>3. RefIsExact'
    BY <1>1 DEF PipeInv, RefIsExact, References, Holders, Closers
  <2>4. EndsHaveOneFile'
    BY <1>1 DEF PipeInv, EndsHaveOneFile, Closes, IsOpen
  <2>5. SleepersWait'
    BY <1>1 DEF PipeInv, SleepersWait, Count, Room
  <2>6. (\A q \in Pipes : Count(q) <= PIPESIZE)'
    BY <1>1 DEF PipeInv, Count
  <2> QED BY <2>1, <2>2, <2>3, <2>4, <2>5, <2>6 DEF PipeInv
<1> QED BY <1>2, <1>3, <1>4

LEMMA sh_waitInv ==
  ASSUME Whole, sh_wait
  PROVE  Whole' /\ EditorSteps
<1>1. PipeInv /\ ProgTypeOK /\ Matches /\ Same /\ UNCHANGED pipeVars
  BY DEF Whole, sh_wait
<1>2. PICK s \in {"wait2", "end"} : Goto("sh", s)
  BY DEF sh_wait
<1>3. /\ step' \in [Procs -> Steps] /\ step'["sh"] = s
      /\ \A o \in Procs : o # "sh" => step'[o] = step[o]
  <2>1. s \in Steps
    BY DEF Steps
  <2> QED BY <1>1, <1>2, <2>1, GotoIs, Names
<1>4. PipeInv' /\ (\A o \in Procs : SameFor(o)) /\ killed' = killed /\ SameQueues
  BY <1>1, NothingMoves
<1>5. Alone("sh") /\ Kind(pc'["sh"]) \notin {"writing", "reading"}
  BY <1>1, <1>4, Names DEF Alone, SameFor, Matches, ShMatches
<1>6. step'["sh"] \notin {"pipe", "fork1", "fork2"}
  BY <1>3
<1> QED BY <1>1, <1>3, <1>4, <1>5, <1>6, ShActs

LEMMA sh_forkInv ==
  ASSUME Whole, sh_fork
  PROVE  Whole' /\ EditorSteps
<1>1. PipeInv /\ ConsoleInv /\ ProgTypeOK /\ Matches /\ Same
  BY DEF Whole, sh_fork
<1>2. PICK c \in {"left", "right"}, s \in {"fork2", "close0"} :
        /\ fork("sh", c) /\ Goto("sh", s)
        /\ c = "left" => step["sh"] = "fork1" /\ s = "fork2"
        /\ c = "right" => s = "close0"
  BY DEF sh_fork, At
<1>3. c \in Procs /\ s \in Steps
  BY Names DEF Steps
<1>4. /\ step' \in [Procs -> Steps] /\ step'["sh"] = s
      /\ \A o \in Procs : o # "sh" => step'[o] = step[o]
  BY <1>1, <1>2, <1>3, GotoIs, Names
<1>5. PipeInv'
  BY <1>1, <1>2, <1>3, forkInv, Names
<1>6. /\ Alone(c) /\ killed' = killed /\ SameQueues /\ Comes(c, "run") /\ Kind(pc[c]) = "unborn"
  BY <1>1, <1>2, <1>3, forkFoot, Names
<1>7. UNCHANGED consVars /\ UNCHANGED <<quits, keys, taken, shown>>
  BY <1>1 DEF Same
<1>8. cpc' = cpc /\ line' = line
  BY <1>7 DEF consVars
<1>9. SameFor("sh") /\ step'["left"] = step["left"] /\ step'["right"] = step["right"]
  BY <1>2, <1>4, <1>6, Names DEF Alone
<1>10. ProgTypeOK'
  BY <1>1, <1>4, <1>7 DEF ProgTypeOK
<1>11. ConsoleInv' /\ EditorSteps
  BY <1>1, <1>7, ConsoleStays
<1>12. PipeTypeOK /\ PipeTypeOK' /\ TextIsKept
  BY <1>5 DEF Whole, PipeInv
<1>13. CASE c = "left"
  <2>1. SameFor("right")
    BY <1>6, <1>13, Names DEF Alone
  <2>2. step["left"] = "redirect" /\ cpc["left"] = "out"
    BY <1>1, <1>6, <1>13 DEF Matches, LeftMatches
  <2>3. LeftMatches'
    BY <1>1, <1>6, <1>7, <1>8, <1>9, <1>13, <2>2 DEF Matches, LeftMatches, Comes
  <2>4. RightMatches'
    BY <1>1, <1>7, <1>9, <2>1, RightStays DEF Matches
  <2>5. ShMatches'
    BY <1>1, <1>2, <1>4, <1>9, <1>13, <2>1 DEF Matches, ShMatches, SameFor
  <2>6. TextIsKept'
    <3> SUFFICES ASSUME \A p \in Procs : ~killed'[p], ~WriteFailed', NEW q \in Pipes
                 PROVE  taken' = shown' \o Unshown' \o Queue(q)' \o Written'
      BY DEF TextIsKept
    <3>1. ~WriteFailed
      BY <2>2 DEF WriteFailed
    <3>2. taken = shown \o Unshown \o Queue(q) \o Written
      BY <1>6, <1>12, <3>1 DEF TextIsKept
    <3>3. Written' = Written /\ Unshown' = Unshown /\ Queue(q)' = Queue(q)
      BY <1>6, <1>8, <1>9, <2>1, <2>2 DEF Written, Unshown, SameFor, SameQueues
    <3> QED BY <1>7, <3>2, <3>3
  <2> QED BY <1>5, <1>10, <1>11, <2>3, <2>4, <2>5, <2>6 DEF Whole, Matches
<1>14. CASE c = "right"
  <2>1. SameFor("left")
    BY <1>6, <1>14, Names DEF Alone
  <2>2. step["right"] = "redirect"
    BY <1>1, <1>6, <1>14 DEF Matches, RightMatches
  <2>3. LeftMatches'
    BY <1>1, <1>6, <1>7, <1>8, <1>9, <2>1, LeftStays DEF Matches
  <2>4. RightMatches'
    BY <1>1, <1>6, <1>7, <1>9, <1>14, <2>2 DEF Matches, RightMatches, Comes
  <2>5. ShMatches'
    BY <1>1, <1>2, <1>4, <1>9, <1>14 DEF Matches, ShMatches, SameFor
  <2>6. Unshown' = Unshown
    BY <1>9, <2>2 DEF Unshown
  <2>7. TextIsKept'
    BY <1>6, <1>7, <1>8, <1>9, <1>12, <2>1, <2>6, TextStays
  <2> QED BY <1>5, <1>10, <1>11, <2>3, <2>4, <2>5, <2>7 DEF Whole, Matches
<1> QED BY <1>13, <1>14

-------------------------------------------------------------------------------
(* What the two cats do to their descriptors. *)

LEMMA RedirectsIs ==
  ASSUME Whole, NEW p \in {"left", "right"}, NEW d \in FDs, NEW end \in FDs,
         Redirects(p, d, end, <<2, 3>>)
  PROVE  /\ PipeInv' /\ Alone(p) /\ killed' = killed /\ SameQueues
         /\ Kind(pc'[p]) \in {"run", "close"} /\ exiting'[p] = exiting[p] /\ got'[p] = got[p]
         /\ step[p] \in Early /\ step'[p] \in {"dup", "close0", "close1", "read"}
         /\ step' \in [Procs -> Steps] /\ \A o \in Procs : o # p => step'[o] = step[o]
<1>1. PipeInv /\ ProgTypeOK /\ p \in Procs
  BY Names DEF Whole
<1>2. 2 \in FDs /\ 3 \in FDs
  BY Constants DEF FDs
<1>3. PICK s \in {"dup", "close0", "close1", "read"} :
        /\ step[p] \in Early /\ Goto(p, s)
        /\ \/ \E x \in FDs : sys_close(p, x)
           \/ sys_dup(p, end)
  <2>1. CASE At(p, "redirect") /\ Goto(p, "dup") /\ sys_close(p, d)
    BY <2>1 DEF At, Early
  <2>2. CASE At(p, "dup") /\ Goto(p, "close0") /\ sys_dup(p, end)
    BY <2>2 DEF At, Early
  <2>3. CASE At(p, "close0") /\ Goto(p, "close1") /\ sys_close(p, <<2, 3>>[1])
    <3>1. sys_close(p, 2)
      BY <2>3
    <3> QED BY <1>2, <2>3, <3>1 DEF At, Early
  <2>4. CASE At(p, "close1") /\ Goto(p, "read") /\ sys_close(p, <<2, 3>>[2])
    <3>1. sys_close(p, 3)
      BY <2>4
    <3> QED BY <1>2, <2>4, <3>1 DEF At, Early
  <2> QED BY <2>1, <2>2, <2>3, <2>4 DEF Redirects
<1>4. /\ step' \in [Procs -> Steps] /\ step'[p] = s
      /\ \A o \in Procs : o # p => step'[o] = step[o]
  <2>1. s \in Steps
    BY DEF Steps
  <2> QED BY <1>1, <1>3, <2>1, GotoIs
<1>5. CASE \E x \in FDs : sys_close(p, x)
  <2>1. PICK x \in FDs : sys_close(p, x)
    BY <1>5
  <2>2. PipeInv'
    BY <1>1, <2>1, sys_closeInv
  <2>3. /\ Alone(p) /\ killed' = killed /\ SameQueues
        /\ Kind(pc'[p]) \in {"run", "close"} /\ exiting'[p] = exiting[p] /\ got'[p] = got[p]
    BY <1>1, <2>1, sys_closeFoot
  <2> QED BY <1>3, <1>4, <2>2, <2>3
<1>6. CASE sys_dup(p, end)
  <2>1. PipeInv'
    BY <1>1, <1>6, sys_dupInv
  <2>2. /\ Alone(p) /\ killed' = killed /\ SameQueues
        /\ Kind(pc'[p]) = "run" /\ exiting'[p] = exiting[p] /\ got'[p] = got[p]
    BY <1>1, <1>6, sys_dupFoot
  <2> QED BY <1>3, <1>4, <2>1, <2>2
<1> QED BY <1>3, <1>5, <1>6

LEMMA left_redirectsInv ==
  ASSUME Whole, left_redirects
  PROVE  Whole' /\ EditorSteps
<1>1. PipeInv /\ ConsoleInv /\ ProgTypeOK /\ Matches /\ TextIsKept /\ Same
  BY DEF Whole, left_redirects
<1>2. /\ PipeInv' /\ Alone("left") /\ killed' = killed /\ SameQueues
      /\ Kind(pc'["left"]) \in {"run", "close"} /\ exiting'["left"] = exiting["left"]
      /\ step["left"] \in Early /\ step'["left"] \in {"dup", "close0", "close1", "read"}
      /\ step' \in [Procs -> Steps] /\ \A o \in Procs : o # "left" => step'[o] = step[o]
  <2>1. 1 \in FDs /\ 3 \in FDs
    BY Constants DEF FDs
  <2>2. Redirects("left", 1, 3, <<2, 3>>)
    BY DEF left_redirects
  <2> QED BY <2>1, <2>2, RedirectsIs
<1>3. UNCHANGED consVars /\ UNCHANGED <<quits, keys, taken, shown>>
  BY <1>1 DEF Same
<1>4. cpc' = cpc
  BY <1>3 DEF consVars
<1>5. /\ SameFor("sh") /\ SameFor("right") /\ step'["sh"] = step["sh"] /\ step'["right"] = step["right"]
  BY <1>2, Names DEF Alone
<1>6. ProgTypeOK'
  BY <1>1, <1>2, <1>3 DEF ProgTypeOK
<1>7. ConsoleInv' /\ EditorSteps
  BY <1>1, <1>3, ConsoleStays
<1>8. RightMatches'
  BY <1>1, <1>3, <1>5, RightStays DEF Matches
<1>9. LeftMatches'
  BY <1>1, <1>2, <1>3, <1>4 DEF Matches, LeftMatches, Early
<1>10. pc["left"] = "run" /\ Kind(pc["left"]) # "unborn"
  BY DEF left_redirects, Redirects, At, InProgram, Kind, Writing, Reading
<1>11. ShMatches'
  BY <1>1, <1>5, <1>10 DEF Matches, ShMatches, SameFor
<1>12. TextIsKept'
  <2> SUFFICES ASSUME \A p \in Procs : ~killed'[p], NEW q \in Pipes
               PROVE  taken' = shown' \o Unshown' \o Queue(q)' \o Written'
    BY DEF TextIsKept
  <2>1. ~WriteFailed
    BY <1>2 DEF WriteFailed, Early
  <2>2. taken = shown \o Unshown \o Queue(q) \o Written
    BY <1>1, <1>2, <2>1 DEF TextIsKept
  <2>3. Written = <<>> /\ Written' = <<>>
    BY <1>2 DEF Written, Early
  <2>4. Unshown' = Unshown /\ Queue(q)' = Queue(q)
    BY <1>2, <1>5 DEF Unshown, SameFor, SameQueues
  <2> QED BY <1>3, <2>2, <2>3, <2>4
<1> QED BY <1>2, <1>6, <1>7, <1>8, <1>9, <1>11, <1>12 DEF Whole, Matches

LEMMA right_redirectsInv ==
  ASSUME Whole, right_redirects
  PROVE  Whole' /\ EditorSteps
<1>1. PipeInv /\ ConsoleInv /\ ProgTypeOK /\ Matches /\ TextIsKept /\ Same
  BY DEF Whole, right_redirects
<1>2. /\ PipeInv' /\ Alone("right") /\ killed' = killed /\ SameQueues
      /\ Kind(pc'["right"]) \in {"run", "close"} /\ got'["right"] = got["right"]
      /\ step["right"] \in Early /\ step'["right"] \in {"dup", "close0", "close1", "read"}
      /\ step' \in [Procs -> Steps] /\ \A o \in Procs : o # "right" => step'[o] = step[o]
  <2>1. 0 \in FDs /\ 2 \in FDs
    BY Constants DEF FDs
  <2>2. Redirects("right", 0, 2, <<2, 3>>)
    BY DEF right_redirects, RightCloses
  <2> QED BY <2>1, <2>2, RedirectsIs
<1>3. UNCHANGED consVars /\ UNCHANGED <<quits, keys, taken, shown>>
  BY <1>1 DEF Same
<1>4. cpc' = cpc /\ line' = line
  BY <1>3 DEF consVars
<1>5. /\ SameFor("sh") /\ SameFor("left") /\ step'["sh"] = step["sh"] /\ step'["left"] = step["left"]
  BY <1>2, Names DEF Alone
<1>6. ProgTypeOK'
  BY <1>1, <1>2, <1>3 DEF ProgTypeOK
<1>7. ConsoleInv' /\ EditorSteps
  BY <1>1, <1>3, ConsoleStays
<1>8. LeftMatches'
  BY <1>1, <1>2, <1>3, <1>4, <1>5, LeftStays DEF Matches
<1>9. RightMatches'
  BY <1>1, <1>2, <1>3 DEF Matches, RightMatches, Early
<1>10. pc["right"] = "run" /\ Kind(pc["right"]) # "unborn"
  BY DEF right_redirects, Redirects, At, InProgram, Kind, Writing, Reading
<1>11. ShMatches'
  BY <1>1, <1>5, <1>10 DEF Matches, ShMatches, SameFor
<1>12. Unshown' = Unshown
  BY <1>2 DEF Unshown, Early
<1>13. TextIsKept'
  BY <1>2, <1>3, <1>4, <1>5, <1>12, TextStays DEF PipeInv
<1> QED BY <1>2, <1>6, <1>7, <1>8, <1>9, <1>11, <1>13 DEF Whole, Matches

-------------------------------------------------------------------------------
(* The left cat. *)

\* A step of the left program that is right about the left program.
LEMMA LeftActs ==
  ASSUME Whole, PipeInv', ConsoleInv', EditorSteps, ProgTypeOK', TextIsKept', LeftMatches',
         Alone("left"), Kind(pc["left"]) # "unborn", shown' = shown,
         \A o \in Procs : o # "left" => step'[o] = step[o]
  PROVE  Whole' /\ EditorSteps
<1>1. ShMatches /\ RightMatches
  BY DEF Whole, Matches
<1>2. /\ SameFor("sh") /\ SameFor("right") /\ step'["sh"] = step["sh"] /\ step'["right"] = step["right"]
  BY Names DEF Alone
<1>3. RightMatches'
  BY <1>1, <1>2, RightStays
<1>4. ShMatches'
  BY <1>1, <1>2 DEF ShMatches, SameFor
<1> QED BY <1>3, <1>4 DEF Whole, Matches

LEMMA left_readInv ==
  ASSUME Whole, left_read
  PROVE  Whole' /\ EditorSteps
<1>1. /\ PipeInv /\ ConsoleInv /\ ProgTypeOK /\ LeftMatches
      /\ consoleread("left", CatBuf) /\ UNCHANGED pipeVars /\ UNCHANGED progVars
      /\ pc["left"] = "run" /\ step["left"] = "read"
  BY DEF Whole, Matches, left_read, At, InProgram
<1>2. CatBuf \in Nat \ {0}
  BY ShellAssumption
<1>3. ConsoleInv' /\ EditorSteps
  BY <1>1, <1>2, consolereadInv, Names
<1>4. PipeInv' /\ (\A o \in Procs : SameFor(o)) /\ killed' = killed /\ SameQueues
  BY <1>1, NothingMoves
<1>5. step' = step /\ quits' = quits /\ keys' = keys /\ taken' = taken /\ shown' = shown
  BY <1>1 DEF progVars
<1>6. SameFor("left") /\ SameFor("right") /\ Alone("left")
  BY <1>4, Names DEF Alone
<1>7. Kind(pc["left"]) = "run"
  BY <1>1 DEF Kind, Writing, Reading
<1>8. LeftMatches'
  BY <1>1, <1>4, <1>5, <1>6, <1>7 DEF LeftMatches, SameFor, Early
<1>9. Unshown' = Unshown
  BY <1>5, <1>6 DEF Unshown, SameFor
<1>10. TextIsKept'
  BY <1>1, <1>4, <1>5, <1>6, <1>9, TextStays DEF PipeInv
<1>11. ProgTypeOK'
  BY <1>1, <1>5 DEF ProgTypeOK
<1> QED BY <1>3, <1>4, <1>5, <1>6, <1>7, <1>8, <1>10, <1>11, LeftActs

LEMMA left_gotInv ==
  ASSUME Whole, left_got
  PROVE  Whole' /\ EditorSteps
<1>1. /\ PipeInv /\ ConsoleInv /\ ProgTypeOK /\ LeftMatches /\ TextIsKept
      /\ returns("left") /\ taken' = taken \o line["left"]
      /\ UNCHANGED pipeVars /\ UNCHANGED <<quits, keys, shown>>
  BY DEF Whole, Matches, left_got
<1>2. ConsoleTypeOK /\ cpc["left"] = "done"
  BY <1>1 DEF ConsoleInv, returns
<1>3. step["left"] = "read" /\ Kind(pc["left"]) = "run"
  BY <1>1, <1>2 DEF LeftMatches
<1>4. PICK s \in {"end", "write"} : Goto("left", s) /\ (line["left"] = <<>> <=> s = "end")
  BY DEF left_got
<1>5. /\ step' \in [Procs -> Steps] /\ step'["left"] = s
      /\ \A o \in Procs : o # "left" => step'[o] = step[o]
  <2>1. s \in Steps
    BY DEF Steps
  <2> QED BY <1>1, <1>4, <2>1, GotoIs, Names
<1>6. ConsoleInv' /\ EditorSteps
  BY <1>1, returnsInv, Names
<1>7. PipeInv' /\ (\A o \in Procs : SameFor(o)) /\ killed' = killed /\ SameQueues
  BY <1>1, NothingMoves
<1>8. SameFor("left") /\ SameFor("right") /\ Alone("left")
  BY <1>7, Names DEF Alone
<1>9. line' = line /\ cpc'["left"] = "out"
  BY <1>1, <1>2, Names DEF returns, ConsoleTypeOK
<1>10. LeftMatches'
  BY <1>3, <1>5, <1>8, <1>9 DEF LeftMatches, SameFor, Early
<1>11. line["left"] \in Seq(Chars)
  BY <1>2, Names DEF ConsoleTypeOK
<1>12. ProgTypeOK'
  <2>1. taken' \in Seq(Chars)
    BY <1>1, <1>11 DEF ProgTypeOK
  <2> QED BY <1>1, <1>5, <2>1 DEF ProgTypeOK
<1>13. Written' = line["left"]
  BY <1>4, <1>5, <1>9 DEF Written
<1>14. Unshown' = Unshown
  BY <1>5, <1>8, Names DEF Unshown, SameFor
<1>15. TextIsKept'
  <2> SUFFICES ASSUME \A p \in Procs : ~killed'[p], NEW q \in Pipes
               PROVE  taken' = shown' \o Unshown' \o Queue(q)' \o Written'
    BY DEF TextIsKept
  <2>1. ~WriteFailed
    BY <1>3 DEF WriteFailed
  <2>2. taken = shown \o Unshown \o Queue(q) \o Written
    BY <1>1, <1>7, <2>1 DEF TextIsKept
  <2>3. Written = <<>>
    BY <1>3 DEF Written
  <2>4. Queue(q)' = Queue(q)
    BY <1>7 DEF SameQueues
  <2>5. Queue(q) \in Seq(Byte) /\ shown \in Seq(Byte) /\ Unshown \in Seq(Byte)
    <3>1. PipeTypeOK /\ Count(q) <= PIPESIZE
      BY <1>1 DEF PipeInv
    <3>2. Queue(q) \in Seq(Byte)
      BY <3>1, CountIs
    <3>3. got["right"] \in Seq(Byte)
      BY <3>1, Names DEF PipeTypeOK
    <3> QED BY <1>1, <3>2, <3>3 DEF ProgTypeOK, Unshown
  <2>6. PICK X \in Seq(Byte) : X = shown \o Unshown \o Queue(q)
    <3>1. ASSUME NEW a \in Seq(Byte), NEW b \in Seq(Byte), NEW c \in Seq(Byte)
          PROVE  a \o b \o c \in Seq(Byte)
      OBVIOUS
    <3>2. shown \o Unshown \o Queue(q) \in Seq(Byte)
      BY <2>5, <3>1
    <3> QED BY <3>2
  <2>7. X \o <<>> = X
    OBVIOUS
  <2>8. taken = X
    BY <2>2, <2>3, <2>6, <2>7
  <2>9. shown' \o Unshown' \o Queue(q)' = X
    BY <1>1, <1>14, <2>4, <2>6
  <2> QED BY <1>1, <1>13, <2>8, <2>9
<1> QED BY <1>1, <1>3, <1>5, <1>6, <1>7, <1>8, <1>10, <1>12, <1>15, LeftActs

LEMMA left_writeInv ==
  ASSUME Whole, left_write
  PROVE  Whole' /\ EditorSteps
<1>1. /\ PipeInv /\ ConsoleInv /\ ProgTypeOK /\ LeftMatches /\ TextIsKept
      /\ Same /\ Goto("left", "written") /\ sys_write("left", 1, line["left"])
      /\ pc["left"] = "run" /\ cpc["left"] = "out" /\ step["left"] = "write"
  BY Names DEF Whole, Matches, left_write, At, InProgram
<1>2. UNCHANGED consVars /\ UNCHANGED <<quits, keys, taken, shown>>
  BY <1>1 DEF Same
<1>3. cpc' = cpc
  BY <1>2 DEF consVars
<1>4. /\ step' \in [Procs -> Steps] /\ step'["left"] = "written"
      /\ \A o \in Procs : o # "left" => step'[o] = step[o]
  <2>1. "written" \in Steps
    BY DEF Steps
  <2> QED BY <1>1, <2>1, GotoIs, Names
<1>5. PICK s \in Seq(Byte) : s = line["left"]
  <2>1. line["left"] \in Seq(Chars)
    BY <1>1, Names DEF ConsoleInv, ConsoleTypeOK
  <2>2. Chars \subseteq Byte
    BY ShellAssumption
  <2> QED BY <2>1, <2>2
<1>6. 1 \in FDs
  BY Constants DEF FDs
<1>7. PipeInv'
  BY <1>1, <1>5, <1>6, sys_writeInv, Names
<1>8. /\ Alone("left") /\ killed' = killed /\ SameQueues
      /\ \/ Kind(pc'["left"]) = "run" /\ result'["left"] = -1
         \/ Kind(pc'["left"]) = "writing" /\ result'["left"] = result["left"] /\ arg'["left"].todo = s
  BY <1>1, <1>5, <1>6, sys_writeFoot, Names
<1>9. ConsoleInv' /\ EditorSteps
  BY <1>1, <1>2, ConsoleStays
<1>10. ProgTypeOK'
  BY <1>1, <1>2, <1>4 DEF ProgTypeOK
<1>11. LeftMatches'
  BY <1>3, <1>1, <1>4, <1>8 DEF LeftMatches, Early
<1>12. TextIsKept'
  <2> SUFFICES ASSUME \A p \in Procs : ~killed'[p], ~WriteFailed', NEW q \in Pipes
               PROVE  taken' = shown' \o Unshown' \o Queue(q)' \o Written'
    BY DEF TextIsKept
  <2>1. ~WriteFailed
    BY <1>1 DEF WriteFailed
  <2>2. taken = shown \o Unshown \o Queue(q) \o Written
    BY <1>1, <1>8, <2>1 DEF TextIsKept
  <2>3. pc'["left"] # "run" \/ result'["left"] # -1
    BY <1>4 DEF WriteFailed
  <2>4. pc'["left"] \in Points
    BY <1>7, Names DEF PipeInv, PipeTypeOK
  <2>5. Kind(pc'["left"]) # "run" \/ result'["left"] # -1
    BY <2>3, <2>4, KindIs
  <2>6. arg'["left"].todo = s
    BY <1>8, <2>5
  <2>7. Written' = Written
    BY <1>1, <1>4, <1>5, <2>6 DEF Written
  <2>8. Unshown' = Unshown /\ Queue(q)' = Queue(q)
    BY <1>4, <1>8, Names DEF Unshown, Alone, SameFor, SameQueues
  <2> QED BY <1>2, <2>2, <2>7, <2>8
<1>13. Kind(pc["left"]) # "unborn"
  BY <1>1 DEF Kind, Writing, Reading
<1> QED BY <1>1, <1>2, <1>4, <1>7, <1>8, <1>9, <1>10, <1>11, <1>12, <1>13, LeftActs

LEMMA left_writtenInv ==
  ASSUME Whole, left_written
  PROVE  Whole' /\ EditorSteps
<1>1. /\ PipeInv /\ ConsoleInv /\ ProgTypeOK /\ LeftMatches /\ TextIsKept
      /\ Same /\ UNCHANGED pipeVars
      /\ pc["left"] = "run" /\ cpc["left"] = "out" /\ step["left"] = "written"
  BY Names DEF Whole, Matches, left_written, At, InProgram
<1>2. UNCHANGED consVars /\ UNCHANGED <<quits, keys, taken, shown>>
  BY <1>1 DEF Same
<1>3. cpc' = cpc
  BY <1>2 DEF consVars
<1>4. PICK s \in {"read", "end"} : Goto("left", s) /\ (s = "read" => result["left"] = Len(line["left"]))
  BY DEF left_written
<1>5. /\ step' \in [Procs -> Steps] /\ step'["left"] = s
      /\ \A o \in Procs : o # "left" => step'[o] = step[o]
  <2>1. s \in Steps
    BY DEF Steps
  <2> QED BY <1>1, <1>4, <2>1, GotoIs, Names
<1>6. PipeInv' /\ (\A o \in Procs : SameFor(o)) /\ killed' = killed /\ SameQueues
  BY <1>1, NothingMoves
<1>7. SameFor("left") /\ SameFor("right") /\ Alone("left")
  BY <1>6, Names DEF Alone
<1>8. Kind(pc["left"]) = "run"
  BY <1>1 DEF Kind, Writing, Reading
<1>9. ConsoleInv' /\ EditorSteps
  BY <1>1, <1>2, ConsoleStays
<1>10. ProgTypeOK'
  BY <1>1, <1>2, <1>5 DEF ProgTypeOK
<1>11. LeftMatches'
  BY <1>1, <1>3, <1>5, <1>7, <1>8 DEF LeftMatches, SameFor, Early
<1>12. TextIsKept'
  <2> SUFFICES ASSUME \A p \in Procs : ~killed'[p], ~WriteFailed', NEW q \in Pipes
               PROVE  taken' = shown' \o Unshown' \o Queue(q)' \o Written'
    BY DEF TextIsKept
  <2>1. result["left"] # -1
    <3>1. CASE s = "read"
      <4>1. line["left"] \in Seq(Chars)
        BY <1>1, Names DEF ConsoleInv, ConsoleTypeOK
      <4>2. Len(line["left"]) \in Nat
        BY <4>1
      <4> QED BY <1>4, <3>1, <4>2
    <3>2. CASE s = "end"
      BY <1>5, <1>7, <3>2 DEF WriteFailed, SameFor
    <3> QED BY <3>1, <3>2
  <2>2. ~WriteFailed
    BY <2>1 DEF WriteFailed
  <2>3. taken = shown \o Unshown \o Queue(q) \o Written
    BY <1>1, <1>6, <2>2 DEF TextIsKept
  <2>4. Written = <<>>
    BY <1>1, <1>8, <2>1 DEF Written, LeftMatches
  <2>5. Written' = <<>>
    BY <1>5 DEF Written
  <2>6. Unshown' = Unshown /\ Queue(q)' = Queue(q)
    BY <1>5, <1>6, <1>7, Names DEF Unshown, SameFor, SameQueues
  <2> QED BY <1>2, <2>3, <2>4, <2>5, <2>6
<1> QED BY <1>1, <1>2, <1>5, <1>6, <1>7, <1>8, <1>9, <1>10, <1>11, <1>12, LeftActs

LEMMA left_exitInv ==
  ASSUME Whole, left_exit
  PROVE  Whole' /\ EditorSteps
<1>1. /\ PipeInv /\ ConsoleInv /\ ProgTypeOK /\ LeftMatches /\ TextIsKept
      /\ Same /\ UNCHANGED step /\ exit("left")
      /\ pc["left"] = "run" /\ cpc["left"] = "out" /\ (killed["left"] \/ step["left"] = "end")
  BY Names DEF Whole, Matches, left_exit, InProgram
<1>2. UNCHANGED consVars /\ UNCHANGED <<quits, keys, taken, shown>>
  BY <1>1 DEF Same
<1>3. cpc' = cpc
  BY <1>2 DEF consVars
<1>4. PipeInv'
  BY <1>1, exitInv, Names
<1>5. /\ Alone("left") /\ killed' = killed /\ SameQueues
      /\ Kind(pc'["left"]) = "close" /\ exiting'["left"]
      /\ arg'["left"].todo = arg["left"].todo /\ result'["left"] = result["left"]
  BY <1>1, exitFoot, Names
<1>6. ConsoleInv' /\ EditorSteps
  BY <1>1, <1>2, ConsoleStays
<1>7. ProgTypeOK'
  BY <1>1, <1>2 DEF ProgTypeOK
<1>8. LeftMatches'
  BY <1>1, <1>2, <1>3, <1>5 DEF LeftMatches, Early
<1>9. TextIsKept'
  <2>1. CASE killed["left"]
    BY <1>5, <2>1, TextKilled, Names
  <2>2. CASE step["left"] = "end"
    <3> SUFFICES ASSUME \A p \in Procs : ~killed'[p], ~WriteFailed', NEW q \in Pipes
                 PROVE  taken' = shown' \o Unshown' \o Queue(q)' \o Written'
      BY DEF TextIsKept
    <3>1. ~WriteFailed
      BY <1>1, <1>5, <2>2 DEF WriteFailed
    <3>2. taken = shown \o Unshown \o Queue(q) \o Written
      BY <1>1, <1>5, <3>1 DEF TextIsKept
    <3>3. Written = <<>> /\ Written' = <<>>
      BY <1>1, <2>2 DEF Written
    <3>4. Unshown' = Unshown /\ Queue(q)' = Queue(q)
      BY <1>1, <1>5, Names DEF Unshown, Alone, SameFor, SameQueues
    <3> QED BY <1>2, <3>2, <3>3, <3>4
  <2> QED BY <1>1, <2>1, <2>2
<1>10. Kind(pc["left"]) # "unborn"
  BY <1>1 DEF Kind, Writing, Reading
<1> QED BY <1>1, <1>2, <1>4, <1>5, <1>6, <1>7, <1>8, <1>9, <1>10, LeftActs

-------------------------------------------------------------------------------
(* The right cat. *)

\* A step of the right program that is right about the right program.
LEMMA RightActs ==
  ASSUME Whole, PipeInv', UNCHANGED consVars, ProgTypeOK', TextIsKept', RightMatches',
         Alone("right"), killed' = killed, Kind(pc["right"]) # "unborn", taken' = taken,
         \A o \in Procs : o # "right" => step'[o] = step[o]
  PROVE  Whole' /\ EditorSteps
<1>1. ShMatches /\ LeftMatches /\ ConsoleInv
  BY DEF Whole, Matches
<1>2. /\ SameFor("sh") /\ SameFor("left") /\ step'["sh"] = step["sh"] /\ step'["left"] = step["left"]
  BY Names DEF Alone
<1>3. cpc' = cpc
  BY DEF consVars
<1>4. LeftMatches'
  BY <1>1, <1>2, <1>3, LeftStays
<1>5. ShMatches'
  BY <1>1, <1>2 DEF ShMatches, SameFor
<1>6. ConsoleInv' /\ EditorSteps
  BY <1>1, ConsoleStays
<1> QED BY <1>4, <1>5, <1>6 DEF Whole, Matches

LEMMA right_readInv ==
  ASSUME Whole, right_read
  PROVE  Whole' /\ EditorSteps
<1>1. /\ PipeInv /\ ProgTypeOK /\ RightMatches
      /\ Same /\ Goto("right", "show") /\ sys_read("right", 0, CatBuf)
      /\ pc["right"] = "run" /\ step["right"] = "read"
  BY DEF Whole, Matches, right_read, At, InProgram
<1>2. UNCHANGED consVars /\ UNCHANGED <<quits, keys, taken, shown>>
  BY <1>1 DEF Same
<1>3. line' = line
  BY <1>2 DEF consVars
<1>4. /\ step' \in [Procs -> Steps] /\ step'["right"] = "show"
      /\ \A o \in Procs : o # "right" => step'[o] = step[o]
  <2>1. "show" \in Steps
    BY DEF Steps
  <2> QED BY <1>1, <2>1, GotoIs, Names
<1>5. 0 \in FDs /\ CatBuf \in Nat
  BY Constants, ShellAssumption DEF FDs
<1>6. PipeInv'
  BY <1>1, <1>5, sys_readInv, Names
<1>7. /\ Alone("right") /\ killed' = killed /\ SameQueues
      /\ got'["right"] = <<>> /\ Kind(pc'["right"]) \in {"run", "reading"}
  BY <1>1, <1>5, sys_readFoot, Names
<1>8. ProgTypeOK'
  BY <1>1, <1>2, <1>4 DEF ProgTypeOK
<1>9. RightMatches'
  BY <1>4, <1>7 DEF RightMatches, Early
<1>10. Unshown' = Unshown
  BY <1>1, <1>4, <1>7 DEF Unshown
<1>11. SameFor("left") /\ step'["left"] = step["left"]
  BY <1>4, <1>7, Names DEF Alone
<1>12. TextIsKept'
  BY <1>2, <1>3, <1>6, <1>7, <1>10, <1>11, TextStays DEF PipeInv
<1>13. Kind(pc["right"]) # "unborn"
  BY <1>1 DEF Kind, Writing, Reading
<1> QED BY <1>2, <1>4, <1>6, <1>7, <1>8, <1>9, <1>12, <1>13, RightActs

LEMMA right_showInv ==
  ASSUME Whole, right_show
  PROVE  Whole' /\ EditorSteps
<1>1. /\ PipeInv /\ ProgTypeOK /\ RightMatches /\ TextIsKept
      /\ shown' = shown \o got["right"]
      /\ UNCHANGED pipeVars /\ UNCHANGED consVars /\ UNCHANGED <<quits, keys, taken>>
      /\ pc["right"] = "run" /\ step["right"] = "show"
  BY DEF Whole, Matches, right_show, At, InProgram
<1>2. line' = line
  BY <1>1 DEF consVars
<1>3. PICK s \in {"read", "end"} : Goto("right", s)
  BY DEF right_show
<1>4. /\ step' \in [Procs -> Steps] /\ step'["right"] = s
      /\ \A o \in Procs : o # "right" => step'[o] = step[o]
  <2>1. s \in Steps
    BY DEF Steps
  <2> QED BY <1>1, <1>3, <2>1, GotoIs, Names
<1>5. PipeInv' /\ (\A o \in Procs : SameFor(o)) /\ killed' = killed /\ SameQueues
  BY <1>1, NothingMoves
<1>6. Alone("right") /\ SameFor("left") /\ SameFor("right") /\ step'["left"] = step["left"]
  BY <1>4, <1>5, Names DEF Alone
<1>7. PipeTypeOK /\ PipeTypeOK'
  BY <1>1, <1>5 DEF PipeInv
<1>8. got["right"] \in Seq(Byte) /\ shown \in Seq(Byte)
  BY <1>1, <1>7, Names DEF PipeTypeOK, ProgTypeOK
<1>9. shown' \in Seq(Byte) /\ shown' \o <<>> = shown'
  BY <1>1, <1>8
<1>10. ProgTypeOK'
  BY <1>1, <1>4, <1>9 DEF ProgTypeOK
<1>11. Kind(pc["right"]) = "run"
  BY <1>1 DEF Kind, Writing, Reading
<1>12. RightMatches'
  BY <1>4, <1>6, <1>11 DEF RightMatches, Early, SameFor
<1>13. TextIsKept'
  <2> SUFFICES ASSUME \A p \in Procs : ~killed'[p], ~WriteFailed', NEW q \in Pipes
               PROVE  taken' = shown' \o Unshown' \o Queue(q)' \o Written'
    BY DEF TextIsKept
  <2>1. ~WriteFailed
    BY <1>6, <1>7, FailureStays
  <2>2. taken = shown \o Unshown \o Queue(q) \o Written
    BY <1>1, <1>5, <2>1 DEF TextIsKept
  <2>3. Unshown = got["right"] /\ Unshown' = <<>>
    BY <1>1, <1>4 DEF Unshown
  <2>4. shown' \o Unshown' = shown \o Unshown
    BY <1>1, <1>9, <2>3
  <2>5. Written' = Written /\ Queue(q)' = Queue(q)
    BY <1>2, <1>5, <1>6 DEF Written, SameFor, SameQueues
  <2> QED BY <1>1, <2>2, <2>4, <2>5
<1>14. Kind(pc["right"]) # "unborn"
  BY <1>11
<1> QED BY <1>1, <1>4, <1>5, <1>6, <1>10, <1>12, <1>13, <1>14, RightActs

LEMMA right_exitInv ==
  ASSUME Whole, right_exit
  PROVE  Whole' /\ EditorSteps
<1>1. /\ PipeInv /\ ProgTypeOK /\ RightMatches
      /\ Same /\ UNCHANGED step /\ exit("right") /\ pc["right"] = "run"
  BY DEF Whole, Matches, right_exit, InProgram
<1>2. UNCHANGED consVars /\ UNCHANGED <<quits, keys, taken, shown>>
  BY <1>1 DEF Same
<1>3. line' = line
  BY <1>2 DEF consVars
<1>4. PipeInv'
  BY <1>1, exitInv, Names
<1>5. /\ Alone("right") /\ killed' = killed /\ SameQueues
      /\ Kind(pc'["right"]) = "close" /\ got'["right"] = got["right"]
  BY <1>1, exitFoot, Names
<1>6. ProgTypeOK'
  BY <1>1, <1>2 DEF ProgTypeOK
<1>7. RightMatches'
  BY <1>1, <1>2, <1>5 DEF RightMatches
<1>8. Unshown' = Unshown
  BY <1>1, <1>5 DEF Unshown
<1>9. SameFor("left")
  BY <1>5, Names DEF Alone
<1>10. TextIsKept'
  BY <1>1, <1>2, <1>3, <1>4, <1>5, <1>8, <1>9, TextStays DEF PipeInv
<1>11. Kind(pc["right"]) # "unborn"
  BY <1>1 DEF Kind, Writing, Reading
<1> QED BY <1>1, <1>2, <1>4, <1>5, <1>6, <1>7, <1>10, <1>11, RightActs

-------------------------------------------------------------------------------
(* The kernel, the user, and those who kill. *)

OutsidersRest == UNCHANGED <<consVars, progVars>>

LEMMA OutsidersStay ==
  ASSUME Whole, OutsidersRest
  PROVE  /\ UNCHANGED consVars /\ Same /\ ConsoleInv' /\ EditorSteps /\ ProgTypeOK'
         /\ cpc' = cpc /\ line' = line
         /\ step' = step /\ quits' = quits /\ keys' = keys /\ taken' = taken /\ shown' = shown
<1>1. ConsoleInv /\ ProgTypeOK
  BY DEF Whole
<1>2. UNCHANGED consVars /\ UNCHANGED progVars
  BY DEF OutsidersRest
<1>3. ConsoleInv' /\ EditorSteps
  BY <1>1, <1>2, ConsoleStays
<1>4. /\ cpc' = cpc /\ line' = line
      /\ step' = step /\ quits' = quits /\ keys' = keys /\ taken' = taken /\ shown' = shown
  BY <1>2 DEF consVars, progVars
<1>5. ProgTypeOK'
  BY <1>1, <1>4 DEF ProgTypeOK
<1> QED BY <1>2, <1>3, <1>4, <1>5 DEF Same

LEMMA KernelForSh ==
  ASSUME Whole, OutsidersRest, PipeInv', Alone("sh"), killed' = killed, SameQueues,
         Kind(pc'["sh"]) \notin {"writing", "reading"}
  PROVE  Whole' /\ EditorSteps
<1>1. Same /\ step' = step /\ ProgTypeOK'
  BY OutsidersStay
<1>2. /\ step' \in [Procs -> Steps] /\ \A o \in Procs : o # "sh" => step'[o] = step[o]
      /\ step'["sh"] = step["sh"]
  BY <1>1 DEF ProgTypeOK
<1> QED BY <1>1, <1>2, ShActs

LEMMA KernelForLeft ==
  ASSUME Whole, OutsidersRest, PipeInv', Alone("left"), TextIsKept', LeftMatches', Kind(pc["left"]) # "unborn"
  PROVE  Whole' /\ EditorSteps
<1>1. ConsoleInv' /\ EditorSteps /\ ProgTypeOK' /\ step' = step /\ shown' = shown
  BY OutsidersStay
<1> QED BY <1>1, LeftActs

LEMMA KernelForRight ==
  ASSUME Whole, OutsidersRest, PipeInv', Alone("right"), killed' = killed, TextIsKept', RightMatches',
         Kind(pc["right"]) # "unborn"
  PROVE  Whole' /\ EditorSteps
<1>1. UNCHANGED consVars /\ ProgTypeOK' /\ step' = step /\ taken' = taken
  BY OutsidersStay
<1> QED BY <1>1, RightActs

\* fileclose() and pipeclose(), called by close() or by exit().
LEMMA CloserActs ==
  ASSUME Whole, OutsidersRest, NEW p \in Procs, PipeInv', Alone(p), killed' = killed, SameQueues,
         Kind(pc[p]) \in {"close", "pipeclose"}, Kind(pc'[p]) \in {"run", "close", "pipeclose", "dead"},
         exiting[p] => Kind(pc'[p]) # "run",
         exiting'[p] = exiting[p], got'[p] = got[p], result'[p] = result[p]
  PROVE  Whole' /\ EditorSteps
<1>1. PipeInv /\ ConsoleInv /\ ProgTypeOK /\ LeftMatches /\ RightMatches /\ TextIsKept
  BY DEF Whole, Matches
<1>2. /\ cpc' = cpc /\ line' = line /\ step' = step /\ taken' = taken /\ shown' = shown
  BY OutsidersStay
<1>3. CASE p = "sh"
  <2>1. Kind(pc'["sh"]) \notin {"writing", "reading"}
    BY <1>3
  <2> QED BY <1>3, <2>1, KernelForSh
<1>4. CASE p = "left"
  <2>1. cpc["left"] = "out" /\ (step["left"] = "written" => killed["left"] /\ exiting["left"])
    BY <1>1, <1>4 DEF LeftMatches
  <2>2. LeftMatches'
    BY <1>1, <1>2, <1>4, <2>1 DEF LeftMatches
  <2>3. TextIsKept'
    <3>1. CASE killed["left"]
      BY <3>1, TextKilled, Names
    <3>2. CASE step["left"] # "written"
      <4> SUFFICES ASSUME \A o \in Procs : ~killed'[o], ~WriteFailed', NEW q \in Pipes
                   PROVE  taken' = shown' \o Unshown' \o Queue(q)' \o Written'
        BY DEF TextIsKept
      <4>1. ~WriteFailed
        BY <1>2, <1>4, <3>2 DEF WriteFailed
      <4>2. taken = shown \o Unshown \o Queue(q) \o Written
        BY <1>1, <4>1 DEF TextIsKept
      <4>3. Written' = Written
        BY <1>2, <3>2 DEF Written
      <4>4. Unshown' = Unshown /\ Queue(q)' = Queue(q)
        BY <1>2, <1>4, Names DEF Unshown, Alone, SameFor, SameQueues
      <4> QED BY <1>2, <4>2, <4>3, <4>4
    <3> QED BY <2>1, <3>1, <3>2
  <2>4. Kind(pc["left"]) # "unborn"
    BY <1>4
  <2> QED BY <1>4, <2>2, <2>3, <2>4, KernelForLeft
<1>5. CASE p = "right"
  <2>1. RightMatches'
    BY <1>1, <1>2, <1>5 DEF RightMatches
  <2>2. SameFor("left") /\ Unshown' = Unshown
    BY <1>2, <1>5, Names DEF Alone, Unshown
  <2>3. TextIsKept'
    BY <1>2, <2>2, TextStays DEF PipeInv
  <2>4. Kind(pc["right"]) # "unborn"
    BY <1>5
  <2> QED BY <1>5, <2>1, <2>3, <2>4, KernelForRight
<1> QED BY <1>3, <1>4, <1>5, Names

LEMMA closersInv ==
  ASSUME Whole, OutsidersRest, NEW p \in Procs, fileclose(p) \/ fileclosed(p) \/ pipeclose(p)
  PROVE  Whole' /\ EditorSteps
<1>1. PipeInv
  BY DEF Whole
<1>2. CASE fileclose(p)
  <2>1. result' = result
    BY <1>2 DEF fileclose
  <2>2. PipeInv'
    BY <1>1, <1>2, filecloseInv
  <2>3. /\ Alone(p) /\ killed' = killed /\ SameQueues
        /\ Kind(pc[p]) = "close" /\ Kind(pc'[p]) \in {"close", "pipeclose"}
        /\ exiting'[p] = exiting[p] /\ got'[p] = got[p]
    BY <1>1, <1>2, filecloseFoot
  <2>4. Kind(pc[p]) \in {"close", "pipeclose"} /\ Kind(pc'[p]) \in {"run", "close", "pipeclose", "dead"}
        /\ Kind(pc'[p]) # "run"
    BY <2>3
  <2> QED BY <2>1, <2>2, <2>3, <2>4, CloserActs
<1>3. CASE fileclosed(p)
  <2>1. result' = result
    BY <1>3 DEF fileclosed
  <2>2. PipeInv'
    BY <1>1, <1>3, fileclosedInv
  <2>3. /\ Alone(p) /\ killed' = killed /\ SameQueues
        /\ Kind(pc[p]) = "close" /\ Kind(pc'[p]) \in {"run", "close", "dead"}
        /\ (exiting[p] => Kind(pc'[p]) # "run")
        /\ exiting'[p] = exiting[p] /\ got'[p] = got[p]
    BY <1>1, <1>3, fileclosedFoot
  <2>4. Kind(pc[p]) \in {"close", "pipeclose"} /\ Kind(pc'[p]) \in {"run", "close", "pipeclose", "dead"}
    BY <2>3
  <2> QED BY <2>1, <2>2, <2>3, <2>4, CloserActs
<1>4. CASE pipeclose(p)
  <2>1. result' = result
    BY <1>4 DEF pipeclose
  <2>2. PipeInv'
    BY <1>1, <1>4, pipecloseInv
  <2>3. /\ Alone(p) /\ killed' = killed /\ SameQueues
        /\ Kind(pc[p]) = "pipeclose" /\ Kind(pc'[p]) = "close"
        /\ exiting'[p] = exiting[p] /\ got'[p] = got[p]
    BY <1>1, <1>4, pipecloseFoot
  <2>4. Kind(pc[p]) \in {"close", "pipeclose"} /\ Kind(pc'[p]) \in {"run", "close", "pipeclose", "dead"}
        /\ Kind(pc'[p]) # "run"
    BY <2>3
  <2> QED BY <2>1, <2>2, <2>3, <2>4, CloserActs
<1> QED BY <1>2, <1>3, <1>4

LEMMA pipeDescriptorsKeeps ==
  ASSUME Whole, OutsidersRest, NEW p \in Procs, pipeDescriptors(p)
  PROVE  Whole' /\ EditorSteps
<1>1. PipeInv /\ LeftMatches /\ RightMatches
  BY DEF Whole, Matches
<1>2. pc[p] = "descriptors"
  BY DEF pipeDescriptors
<1>3. Kind(pc[p]) = "descriptors"
  BY <1>2 DEF Kind, Writing, Reading
<1>4. p = "sh"
  BY <1>1, <1>3, Names DEF LeftMatches, RightMatches
<1>5. PipeInv'
  BY <1>1, pipeDescriptorsInv
<1>6. Alone(p) /\ killed' = killed /\ SameQueues /\ Kind(pc'[p]) \in {"run", "close"}
  BY <1>1, pipeDescriptorsFoot
<1>7. Kind(pc'["sh"]) \notin {"writing", "reading"}
  BY <1>4, <1>6
<1> QED BY <1>4, <1>5, <1>6, <1>7, KernelForSh

LEMMA TextIsTyped ==
  ASSUME Whole, NEW q \in Pipes
  PROVE  /\ Queue(q) \in Seq(Byte) /\ shown \in Seq(Byte) /\ Unshown \in Seq(Byte)
         /\ shown \o Unshown \in Seq(Byte)
         /\ \A p \in Procs : arg[p].todo \in Seq(Byte) /\ got[p] \in Seq(Byte)
<1>1. PipeTypeOK /\ Count(q) <= PIPESIZE /\ ProgTypeOK
  BY DEF Whole, PipeInv
<1>2. \A p \in Procs : arg[p].todo \in Seq(Byte) /\ got[p] \in Seq(Byte)
  BY <1>1 DEF PipeTypeOK
<1>3. Queue(q) \in Seq(Byte)
  BY <1>1, CountIs
<1>4. shown \in Seq(Byte) /\ Unshown \in Seq(Byte)
  BY <1>1, <1>2, Names DEF ProgTypeOK, Unshown
<1>5. shown \o Unshown \in Seq(Byte)
  BY <1>4
<1> QED BY <1>2, <1>3, <1>4, <1>5

LEMMA QueueTypedNext ==
  ASSUME PipeTypeOK', NEW q \in Pipes
  PROVE  Queue(q)' \in Seq(Byte)
<1>1. /\ pipe'[q].nread \in 0 .. WORD - 1 /\ pipe'[q].nwrite \in 0 .. WORD - 1
      /\ pipe'[q].data \in Slots(PIPESIZE, Byte)
  <2>1. pipe'[q] \in [live : BOOLEAN, data : [0 .. PIPESIZE - 1 -> Byte],
                      nread : 0 .. WORD - 1, nwrite : 0 .. WORD - 1,
                      readopen : BOOLEAN, writeopen : BOOLEAN]
    BY DEF PipeTypeOK
  <2> QED BY <2>1 DEF Slots
<1>2. PICK a \in 0 .. WORD - 1, b \in 0 .. WORD - 1 : a = pipe'[q].nread /\ b = pipe'[q].nwrite
  BY <1>1
<1>3. Count(q)' = Dist(WORD, a, b)
  BY <1>2 DEF Count, Dist
<1>4. Count(q)' \in 0 .. WORD - 1
  BY <1>3, Constants, DistIs
<1>5. PICK n \in Nat : n = Count(q)'
  BY <1>4, Constants
<1>6. Queue(q)' = Ring(pipe'[q].data, PIPESIZE, a, n)
  BY <1>2, <1>5 DEF Queue, Ring, Slot
<1>7. a \in Int
  BY Constants
<1> QED BY <1>1, <1>6, <1>7, Constants, RingInSeq

Grouped(x, a, b)  == (x \o a) \o b = x \o (a \o b)
Joins(a, b, c, d) == a \o b = c \o d

LEMMA Groups ==
  ASSUME NEW x \in Seq(Byte), NEW a \in Seq(Byte), NEW b \in Seq(Byte)
  PROVE  Grouped(x, a, b)
<1>1. (x \o a) \o b = x \o (a \o b)
  BY ConcatAssociative, SMTT(30)
<1> QED BY <1>1 DEF Grouped

LEMMA Regroup ==
  ASSUME NEW x \in Seq(Byte), NEW a \in Seq(Byte), NEW b \in Seq(Byte),
         NEW c \in Seq(Byte), NEW d \in Seq(Byte), Joins(a, b, c, d)
  PROVE  Joins(x \o a, b, x \o c, d)
<1>1. Grouped(x, a, b) /\ Grouped(x, c, d)
  BY Groups
<1> QED BY <1>1, Zenon DEF Grouped, Joins

LEMMA pipewriteKeeps ==
  ASSUME Whole, OutsidersRest, NEW p \in Procs, pipewrite(p)
  PROVE  Whole' /\ EditorSteps
<1>1. PipeInv /\ LeftMatches /\ RightMatches /\ ShMatches /\ TextIsKept /\ ProgTypeOK
  BY DEF Whole, Matches
<1>2. /\ Alone(p) /\ killed' = killed
      /\ \A q \in Pipes : Queue(q)' \o arg'[p].todo = Queue(q) \o arg[p].todo
      /\ exiting'[p] = exiting[p] /\ got'[p] = got[p]
      /\ Kind(pc[p]) = "writing"
      /\ \/ Kind(pc'[p]) = "writing" /\ result'[p] = result[p]
         \/ Kind(pc'[p]) = "run" /\ (result'[p] = -1 \/ arg'[p].todo = <<>>)
  BY <1>1, pipewriteFoot
<1>3. p = "left" /\ step["left"] = "written" /\ cpc["left"] = "out"
  BY <1>1, <1>2, Names DEF LeftMatches, RightMatches, ShMatches
<1>4. PipeInv'
  BY <1>1, pipewriteInv
<1>5. /\ cpc' = cpc /\ line' = line /\ step' = step /\ taken' = taken /\ shown' = shown
  BY OutsidersStay
<1>6. LeftMatches'
  BY <1>2, <1>3, <1>5 DEF LeftMatches, Early
<1>7. TextIsKept'
  <2> SUFFICES ASSUME \A o \in Procs : ~killed'[o], NEW q \in Pipes
               PROVE  taken' = shown' \o Unshown' \o Queue(q)' \o Written'
    BY DEF TextIsKept
  <2>1. pc["left"] # "run"
    BY <1>2, <1>3 DEF Kind, Writing, Reading
  <2>2. ~WriteFailed
    BY <1>3, <2>1 DEF WriteFailed
  <2>3. taken = shown \o Unshown \o Queue(q) \o Written
    BY <1>1, <1>2, <2>2 DEF TextIsKept
  <2>4. Written = arg["left"].todo /\ Written' = arg'["left"].todo
    BY <1>3, <1>5 DEF Written
  <2>5. Unshown' = Unshown
    BY <1>2, <1>3, <1>5, Names DEF Unshown, Alone, SameFor
  <2>6. Queue(q)' \o Written' = Queue(q) \o Written
    BY <1>2, <1>3, <2>4
  <2>7. shown \o Unshown \in Seq(Byte) /\ Queue(q) \in Seq(Byte) /\ Written \in Seq(Byte)
    BY <1>3, <2>4, TextIsTyped, Names
  <2>8. Queue(q)' \in Seq(Byte) /\ Written' \in Seq(Byte)
    <3>1. PipeTypeOK'
      BY <1>4 DEF PipeInv
    <3>2. arg'["left"].todo \in Seq(Byte)
      BY <3>1, Names DEF PipeTypeOK
    <3> QED BY <2>4, <3>1, <3>2, QueueTypedNext
  <2>9. PICK x \in Seq(Byte), a \in Seq(Byte), b \in Seq(Byte), c \in Seq(Byte), d \in Seq(Byte) :
          x = shown \o Unshown /\ a = Queue(q)' /\ b = Written' /\ c = Queue(q) /\ d = Written
    BY <2>7, <2>8
  <2>10. Joins(a, b, c, d)
    BY <2>6, <2>9 DEF Joins
  <2>11. Joins(x \o a, b, x \o c, d)
    BY <2>10, Regroup
  <2>12. (x \o a) \o b = (x \o c) \o d
    BY <2>11 DEF Joins
  <2> QED BY <1>5, <2>3, <2>5, <2>9, <2>12
<1>8. Alone("left") /\ Kind(pc["left"]) # "unborn"
  BY <1>2, <1>3
<1> QED BY <1>4, <1>6, <1>7, <1>8, KernelForLeft

LEMMA pipereadKeeps ==
  ASSUME Whole, OutsidersRest, NEW p \in Procs, piperead(p)
  PROVE  Whole' /\ EditorSteps
<1>1. PipeInv /\ LeftMatches /\ RightMatches /\ ShMatches /\ TextIsKept /\ ProgTypeOK
  BY DEF Whole, Matches
<1>2. /\ Alone(p) /\ killed' = killed
      /\ exiting'[p] = exiting[p] /\ arg'[p] = arg[p]
      /\ Kind(pc[p]) = "reading"
      /\ \/ Kind(pc'[p]) = "run" /\ \A q \in Pipes : Queue(q) = got'[p] \o Queue(q)'
         \/ Kind(pc'[p]) = "run" /\ killed[p]
         \/ Kind(pc'[p]) = "reading" /\ got'[p] = got[p] /\ SameQueues
      /\ got'[p] \in Seq(Byte)
  BY <1>1, pipereadFoot
<1>3. p = "right" /\ step["right"] = "show" /\ got["right"] = <<>>
  BY <1>1, <1>2, Names DEF LeftMatches, RightMatches, ShMatches
<1>4. PipeInv'
  BY <1>1, pipereadInv
<1>5. /\ cpc' = cpc /\ line' = line /\ step' = step /\ taken' = taken /\ shown' = shown
  BY OutsidersStay
<1>6. RightMatches'
  BY <1>2, <1>3, <1>5 DEF RightMatches, Early
<1>7. SameFor("left") /\ Alone("right")
  BY <1>2, <1>3, Names DEF Alone
<1>8. PipeTypeOK /\ PipeTypeOK'
  BY <1>1, <1>4 DEF PipeInv
<1>9. CASE \A q \in Pipes : Queue(q) = got'[p] \o Queue(q)'
  <2> SUFFICES ASSUME \A o \in Procs : ~killed'[o], ~WriteFailed', NEW q \in Pipes
               PROVE  taken' = shown' \o Unshown' \o Queue(q)' \o Written'
    BY <1>2, <1>3, <1>4, <1>6, <1>7, KernelForRight DEF TextIsKept
  <2>1. ~WriteFailed
    BY <1>5, <1>7, <1>8, FailureStays
  <2>2. taken = shown \o Unshown \o Queue(q) \o Written
    BY <1>1, <1>2, <2>1 DEF TextIsKept
  <2>3. Unshown = <<>> /\ Unshown' = got'["right"]
    BY <1>3, <1>5 DEF Unshown
  <2>4. Written' = Written
    BY <1>5, <1>7 DEF Written, SameFor
  <2>5. shown \in Seq(Byte) /\ got'["right"] \in Seq(Byte) /\ Queue(q)' \in Seq(Byte)
    BY <1>2, <1>3, <1>8, TextIsTyped, QueueTypedNext
  <2>6. PICK x \in Seq(Byte), a \in Seq(Byte), b \in Seq(Byte) : x = shown /\ a = got'["right"] /\ b = Queue(q)'
    BY <2>5
  <2>7. Grouped(x, a, b)
    BY Groups
  <2>8. Queue(q) = a \o b
    BY <1>3, <1>9, <2>6
  <2>9. (x \o a) \o b = x \o Queue(q)
    BY <2>7, <2>8, Zenon DEF Grouped
  <2>10. x \o <<>> = x
    OBVIOUS
  <2>11. shown \o Unshown = x
    BY <2>3, <2>6, <2>10
  <2>12. taken = x \o Queue(q) \o Written
    BY <2>2, <2>11
  <2>13. shown' \o Unshown' \o Queue(q)' = (x \o a) \o b
    BY <1>5, <2>3, <2>6
  <2> QED BY <1>5, <2>4, <2>9, <2>12, <2>13
<1>10. CASE killed[p]
  <2>1. TextIsKept'
    BY <1>2, <1>10, TextKilled
  <2> QED BY <1>2, <1>3, <1>4, <1>6, <1>7, <2>1, KernelForRight
<1>11. CASE got'[p] = got[p] /\ SameQueues
  <2>1. Unshown' = Unshown
    BY <1>3, <1>5, <1>11 DEF Unshown
  <2>2. TextIsKept'
    BY <1>2, <1>5, <1>7, <1>8, <1>11, <2>1, TextStays
  <2> QED BY <1>2, <1>3, <1>4, <1>6, <1>7, <2>2, KernelForRight
<1> QED BY <1>2, <1>9, <1>10, <1>11

\* A step that moves no program, up to falling asleep and waking up.
LEMMA AllStay ==
  ASSUME Whole, PipeInv', ConsoleInv', ProgTypeOK', EditorSteps,
         \A o \in Procs : SameFor(o), \A o \in Procs : killed[o] => killed'[o],
         step' = step, taken' = taken, shown' = shown,
         cpc'["left"] # "out" => cpc["left"] # "out", TextIsKept'
  PROVE  Whole' /\ EditorSteps
<1>1. ShMatches /\ LeftMatches /\ RightMatches
  BY DEF Whole, Matches
<1>2. SameFor("sh") /\ SameFor("left") /\ SameFor("right") /\ (killed["left"] => killed'["left"])
  BY Names
<1>3. LeftMatches'
  BY <1>1, <1>2, LeftStays
<1>4. RightMatches'
  BY <1>1, <1>2, RightStays
<1>5. ShMatches'
  BY <1>1, <1>2 DEF ShMatches, SameFor
<1> QED BY <1>3, <1>4, <1>5 DEF Whole, Matches

LEMMA sleepKeeps ==
  ASSUME Whole, OutsidersRest, NEW p \in Procs, sleep(p)
  PROVE  Whole' /\ EditorSteps
<1>1. PipeInv
  BY DEF Whole
<1>2. PipeInv'
  BY <1>1, sleepInv
<1>3. (\A o \in Procs : SameFor(o)) /\ killed' = killed /\ SameQueues
  BY <1>1, sleepFoot
<1>4. /\ ConsoleInv' /\ EditorSteps /\ ProgTypeOK' /\ cpc' = cpc /\ line' = line
      /\ step' = step /\ taken' = taken /\ shown' = shown
  BY OutsidersStay
<1>5. SameFor("left") /\ Unshown' = Unshown
  BY <1>3, <1>4, Names DEF Unshown, SameFor
<1>6. TextIsKept'
  BY <1>2, <1>3, <1>4, <1>5, TextStays DEF PipeInv
<1> QED BY <1>2, <1>3, <1>4, <1>6, AllStay

LEMMA pipeKeeps ==
  ASSUME Whole, OutsidersRest, NEW p \in Procs, PipeContinues(p)
  PROVE  Whole' /\ EditorSteps
BY pipeDescriptorsKeeps, closersInv, pipewriteKeeps, pipereadKeeps, sleepKeeps DEF PipeContinues

LEMMA consoleKeeps ==
  ASSUME Whole, UNCHANGED <<pipeVars, progVars>>, NEW p \in Readers, ConsoleContinues(p)
  PROVE  Whole' /\ EditorSteps
<1>1. PipeInv /\ ConsoleInv /\ LeftMatches /\ ProgTypeOK
  BY DEF Whole, Matches
<1>2. PipeInv' /\ (\A o \in Procs : SameFor(o)) /\ killed' = killed /\ SameQueues
  BY <1>1, NothingMoves
<1>3. ConsoleInv' /\ EditorSteps
  BY <1>1, copiesInv, waitsInv, sleepsInv DEF ConsoleContinues
<1>4. p = "left" /\ cpc["left"] # "out"
  BY Names DEF ConsoleContinues, copies, waits, sleeps
<1>5. step' = step /\ quits' = quits /\ keys' = keys /\ taken' = taken /\ shown' = shown
  BY DEF progVars
<1>6. ProgTypeOK'
  BY <1>1, <1>5 DEF ProgTypeOK
<1>7. step["left"] = "read"
  BY <1>1, <1>4 DEF LeftMatches
<1>8. SameFor("left") /\ Unshown' = Unshown
  BY <1>2, <1>5, Names DEF Unshown, SameFor
<1>9. TextIsKept'
  BY <1>2, <1>5, <1>7, <1>8, TextStays DEF PipeInv
<1> QED BY <1>2, <1>3, <1>4, <1>5, <1>6, <1>9, AllStay

LEMMA userInv ==
  ASSUME Whole, user
  PROVE  Whole' /\ EditorSteps
<1>1. /\ PipeInv /\ ConsoleInv /\ ProgTypeOK /\ keys # <<>> /\ consoleintr(keys[1])
      /\ UNCHANGED pipeVars /\ UNCHANGED <<step, quits, taken, shown>>
  BY DEF Whole, user
<1>2. PipeInv' /\ (\A o \in Procs : SameFor(o)) /\ killed' = killed /\ SameQueues
  BY <1>1, NothingMoves
<1>3. PICK c : c = keys[1]
  OBVIOUS
<1>4. typed(c) \/ edited(c)
  BY <1>1, <1>3 DEF consoleintr
<1>5. ConsoleInv' /\ EditorSteps
  BY <1>1, <1>4, typedInv, editedInv
<1>6. line' = line /\ (cpc' = cpc \/ cpc' = Roused)
  BY <1>4 DEF typed, edited
<1>7. cpc'["left"] # "out" => cpc["left"] # "out"
  BY <1>6, Names DEF Roused
<1>8. ProgTypeOK'
  <2>1. EOF \in Keys
    BY DEF Keys, Chars
  <2>2. keys \in Seq(Keys)
    BY <1>1 DEF ProgTypeOK
  <2>3. Tail(keys) \in Seq(Keys) /\ <<EOF>> \in Seq(Keys)
    BY <1>1, <2>1, <2>2
  <2>4. keys' \in Seq(Keys)
    BY <2>3 DEF user
  <2> QED BY <1>1, <2>4 DEF ProgTypeOK
<1>9. SameFor("left") /\ Unshown' = Unshown
  BY <1>1, <1>2, Names DEF Unshown, SameFor
<1>10. TextIsKept'
  BY <1>1, <1>2, <1>6, <1>9, TextStays DEF PipeInv
<1> QED BY <1>1, <1>2, <1>5, <1>7, <1>8, <1>10, AllStay

LEMMA killsInv ==
  ASSUME Whole, kills
  PROVE  Whole' /\ EditorSteps
<1>1. PipeInv /\ ConsoleInv /\ ProgTypeOK /\ UNCHANGED progVars
  BY DEF Whole, kills
<1>2. PICK c \in Procs :
        kill(c) /\ (IF c \in Readers THEN killReader(c) ELSE UNCHANGED consVars)
  BY Names DEF kills, Children
<1>3. PipeInv'
  BY <1>1, <1>2, killInv
<1>4. (\A o \in Procs : SameFor(o)) /\ killed'[c] /\ \A o \in Procs : killed[o] => killed'[o]
  BY <1>1, <1>2, killFoot
<1>5. ConsoleInv' /\ EditorSteps
  BY <1>1, <1>2, killReaderInv, ConsoleStays
<1>6. cpc'["left"] # "out" => cpc["left"] # "out"
  <2>1. CASE killReader(c)
    <3>1. cpc \in [Readers -> ConsolePoints]
      BY <1>1 DEF ConsoleInv, ConsoleTypeOK
    <3> QED BY <2>1, <3>1, Names DEF killReader
  <2>2. CASE UNCHANGED consVars
    BY <2>2 DEF consVars
  <2> QED BY <1>2, <2>1, <2>2
<1>7. step' = step /\ quits' = quits /\ keys' = keys /\ taken' = taken /\ shown' = shown
  BY <1>1 DEF progVars
<1>8. ProgTypeOK'
  BY <1>1, <1>7 DEF ProgTypeOK
<1>9. TextIsKept'
  BY <1>4, TextKilled
<1> QED BY <1>3, <1>4, <1>5, <1>6, <1>7, <1>8, <1>9, AllStay

-------------------------------------------------------------------------------
(* The whole pipeline. *)

LEMMA InitWhole ==
  ASSUME Init
  PROVE  Whole /\ Editor!Init
<1>1. PICK fds \in ConsoleFDs : PipeInit({"sh"}, fds)
  BY DEF Init
<1>2. PipeInv
  BY <1>1, PipeInitInv
<1>3. ConsoleInit
  BY DEF Init
<1>4. ConsoleInv /\ Editor!Init
  BY <1>3, ConsoleStarts
<1>5. step = [p \in Procs |-> IF p = "sh" THEN "pipe" ELSE "redirect"]
  BY DEF Init
<1>6. step["sh"] = "pipe" /\ step["left"] = "redirect" /\ step["right"] = "redirect"
  BY <1>5, Names
<1>7. keys \in Typings /\ quits \in BOOLEAN /\ taken = <<>> /\ shown = <<>>
  BY DEF Init
<1>8. ProgTypeOK
  <2>1. step \in [Procs -> Steps]
    BY <1>5 DEF Steps
  <2>2. keys \in Seq(Keys)
    BY <1>7, ShellAssumption
  <2>3. <<>> \in Seq(Chars) /\ <<>> \in Seq(Byte)
    OBVIOUS
  <2> QED BY <1>7, <2>1, <2>2, <2>3 DEF ProgTypeOK
<1>9. pc = [p \in Procs |-> IF p \in {"sh"} THEN "run" ELSE "unborn"]
  BY <1>1 DEF PipeInit
<1>10. pc["sh"] = "run" /\ pc["left"] = "unborn" /\ pc["right"] = "unborn"
  BY <1>9, Names
<1>11. Kind(pc["sh"]) = "run" /\ Kind(pc["left"]) = "unborn" /\ Kind(pc["right"]) = "unborn"
  BY <1>10 DEF Kind, Writing, Reading
<1>12. cpc["left"] = "out"
  BY <1>3, Names DEF ConsoleInit
<1>13. ShMatches
  BY <1>6, <1>11 DEF ShMatches
<1>14. LeftMatches
  BY <1>6, <1>7, <1>11, <1>12 DEF LeftMatches
<1>15. RightMatches
  BY <1>6, <1>7, <1>11 DEF RightMatches
<1>16. TextIsKept
  <2> SUFFICES ASSUME NEW q \in Pipes
               PROVE  taken = shown \o Unshown \o Queue(q) \o Written
    BY DEF TextIsKept
  <2>1. pipe = [x \in Pipes |-> Empty]
    BY <1>1 DEF PipeInit
  <2>2. pipe[q].nread = 0 /\ pipe[q].nwrite = 0
    BY <2>1 DEF Empty
  <2>3. WORD \in Nat \ {0} /\ 0 \in 0 .. WORD - 1
    BY Constants
  <2>4. Dist(WORD, 0, 0) = 0
    BY <2>3, DistZero
  <2>5. Count(q) = 0
    BY <2>2, <2>4 DEF Count, Dist
  <2>6. Queue(q) = <<>>
    BY <2>5 DEF Queue
  <2>7. Unshown = <<>> /\ Written = <<>>
    BY <1>6 DEF Unshown, Written
  <2> QED BY <1>7, <2>6, <2>7
<1> QED BY <1>2, <1>4, <1>8, <1>13, <1>14, <1>15, <1>16 DEF Whole, Matches

LEMMA NothingInv ==
  ASSUME Whole, UNCHANGED vars
  PROVE  Whole' /\ EditorSteps
<1>1. PipeInv /\ ConsoleInv /\ ProgTypeOK /\ UNCHANGED pipeVars /\ UNCHANGED consVars /\ UNCHANGED progVars
  BY DEF Whole, vars
<1>2. PipeInv' /\ (\A o \in Procs : SameFor(o)) /\ killed' = killed /\ SameQueues
  BY <1>1, NothingMoves
<1>3. ConsoleInv' /\ EditorSteps
  BY <1>1, ConsoleStays
<1>4. /\ step' = step /\ quits' = quits /\ keys' = keys /\ taken' = taken /\ shown' = shown
      /\ cpc' = cpc /\ line' = line
  BY <1>1 DEF progVars, consVars
<1>5. ProgTypeOK'
  BY <1>1, <1>4 DEF ProgTypeOK
<1>6. SameFor("left") /\ Unshown' = Unshown
  BY <1>2, <1>4, Names DEF Unshown, SameFor
<1>7. TextIsKept'
  BY <1>2, <1>4, <1>6, TextStays DEF PipeInv
<1> QED BY <1>2, <1>3, <1>4, <1>5, <1>7, AllStay

LEMMA NextInv ==
  ASSUME Whole, [Next]_vars
  PROVE  Whole' /\ EditorSteps
<1>1. CASE sh
  BY <1>1, sh_pipeInv, sh_panicInv, sh_forkInv, sh_closeInv, sh_waitInv, sh_exitInv DEF sh
<1>2. CASE left
  BY <1>2, left_redirectsInv, left_readInv, left_gotInv, left_writeInv, left_writtenInv, left_exitInv
     DEF left
<1>3. CASE right
  BY <1>3, right_redirectsInv, right_readInv, right_showInv, right_exitInv DEF right
<1>4. ASSUME NEW p \in Procs, kernel(p)
      PROVE  Whole' /\ EditorSteps
  <2>1. CASE PipeContinues(p) /\ UNCHANGED <<consVars, progVars>>
    BY <2>1, pipeKeeps DEF OutsidersRest
  <2>2. CASE p \in Readers /\ ConsoleContinues(p) /\ UNCHANGED <<pipeVars, progVars>>
    BY <2>2, consoleKeeps
  <2> QED BY <1>4, <2>1, <2>2 DEF kernel
<1>5. CASE user
  BY <1>5, userInv
<1>6. CASE kills
  BY <1>6, killsInv
<1>7. CASE UNCHANGED vars
  BY <1>7, NothingInv
<1> QED BY <1>1, <1>2, <1>3, <1>4, <1>5, <1>6, <1>7 DEF Next

\* IInv holds in every state: it is inductive.
THEOREM IInvHolds == Spec => []IInv
<1>1. Init => Whole
  BY InitWhole
<1>2. Whole /\ [Next]_vars => Whole'
  BY NextInv
<1>3. Whole => IInv
  BY WholeIs
<1> QED BY <1>1, <1>2, <1>3, PTL DEF Spec

\* Files count their references, the ends of the pipe are open as long as somebody may use
\* them, and what the left cat reads is what the right cat shows, in this order, with nothing
\* lost or doubled, unless somebody is killed or a write fails.
THEOREM PipesCorrect == Spec => []PipesAreConsistent
<1>1. IInv => PipesAreConsistent
  <2> SUFFICES ASSUME IInv PROVE PipesAreConsistent
    OBVIOUS
  <2>1. ShellTypeOK /\ PipeInv /\ TextIsKept
    BY DEF IInv
  <2>2. RefIsExact /\ PipeMatchesFiles
    BY <2>1, PipesMatch DEF PipeInv
  <2>3. InOrder
    BY <2>1 DEF InOrder, TextIsKept, WriteFailed
  <2> QED BY <2>1, <2>2, <2>3 DEF PipesAreConsistent
<1> QED BY <1>1, IInvHolds, PTL

\* Nobody sleeps on the pipe or on the console who has something to do there, whatever is
\* killed between the test and the sleep; and a full input ring has something to read.
THEOREM NobodySleeps == Spec => []NobodySleepsInVain
<1>1. IInv => NobodySleepsInVain
  <2> SUFFICES ASSUME IInv PROVE NobodySleepsInVain
    OBVIOUS
  <2>1. PipeInv /\ ConsoleInv
    BY DEF IInv
  <2>2. NobodyOversleeps
    BY <2>1, PipesMatch
  <2>3. NoReaderOversleeps /\ FullIsReadable
    BY <2>1 DEF ConsoleInv, NoReaderOversleeps
  <2> QED BY <2>2, <2>3 DEF NobodySleepsInVain
<1> QED BY <1>1, IInvHolds, PTL

\* The input ring of the console implements LineEditor: it starts as one, and each step edits
\* the line, confirms it, or takes confirmed characters away, in the order of their typing.
THEOREM ConsoleImplements == Spec => RefinesLineEditor
<1>1. Init => Whole /\ Editor!Init
  BY InitWhole
<1>2. Whole /\ [Next]_vars => Whole'
  BY NextInv
<1>3. Whole /\ [Next]_vars => [Editor!Next]_(Editor!vars)
  BY NextInv DEF EditorSteps
<1> QED BY <1>1, <1>2, <1>3, PTL DEF Spec, RefinesLineEditor, Editor!Spec
===============================================================================
