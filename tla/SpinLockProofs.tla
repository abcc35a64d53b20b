---------------------------- MODULE SpinLockProofs ----------------------------
(***************************************************************************)
(* The spin locks exclude, nest and give interrupts back, and no circle of *)
(* CPUs forms, for every number of CPUs and processes and in both kinds of *)
(* kernel: LockIInv is inductive, and LocksAreSafe follows from it.  First,    *)
(* what a step in front of kernel code changes about the locks that the    *)
(* code is inside of.                                                      *)
(***************************************************************************)
EXTENDS SpinLock, TLAPS, FiniteSetTheorems, SequenceTheorems

-------------------------------------------------------------------------------
(* Code, step by step. *)

Push(x, s) == <<x>> \o s

\* A step in front of code is its head; the rest is its tail.
LEMMA PushFacts ==
  ASSUME NEW x \in Steps, NEW s \in Seq(Steps)
  PROVE  /\ Push(x, s) \in Seq(Steps) /\ Push(x, s) # <<>>
         /\ Len(Push(x, s)) = Len(s) + 1
         /\ Push(x, s)[1] = x /\ Head(Push(x, s)) = x /\ Tail(Push(x, s)) = s
         /\ \A i \in 1 .. Len(s) : Push(x, s)[i + 1] = s[i]
<1>1. <<x>> \in Seq(Steps) /\ Len(<<x>>) = 1 /\ <<x>>[1] = x
  OBVIOUS
<1>2. /\ Push(x, s) \in Seq(Steps)
      /\ Len(Push(x, s)) = Len(s) + 1
      /\ \A i \in 1 .. Len(s) + 1 : Push(x, s)[i] = IF i <= 1 THEN x ELSE s[i - 1]
  BY <1>1, ConcatProperties DEF Push
<1>3. Len(s) \in Nat
  OBVIOUS
<1>4. Push(x, s)[1] = x /\ \A i \in 1 .. Len(s) : Push(x, s)[i + 1] = s[i]
  BY <1>2, <1>3
<1>5. Push(x, s) # <<>>
  BY <1>2, <1>3
<1>6. Head(Push(x, s)) = x
  BY <1>2, <1>4, <1>5
<1>7. Tail(Push(x, s)) = s
  <2>1. /\ Tail(Push(x, s)) \in Seq(Steps) /\ Len(Tail(Push(x, s))) = Len(s)
        /\ \A i \in 1 .. Len(s) : Tail(Push(x, s))[i] = Push(x, s)[i + 1]
    BY <1>2, <1>3, <1>5, HeadTailProperties
  <2> QED BY <2>1, <1>4, SeqEqual
<1> QED BY <1>2, <1>4, <1>5, <1>6, <1>7

\* The head of code is its first step.
LEMMA HeadIsFirst ==
  ASSUME NEW S, NEW s \in Seq(S), s # <<>>
  PROVE  Head(s) = s[1]
  OBVIOUS

\* Code that is not empty is its head in front of its tail.
LEMMA SplitCode ==
  ASSUME NEW s \in Seq(Steps), s # <<>>
  PROVE  /\ Head(s) \in Steps /\ Tail(s) \in Seq(Steps)
         /\ s = Push(Head(s), Tail(s))
<1>1. Head(s) \in Steps /\ Tail(s) \in Seq(Steps) /\ Len(Tail(s)) = Len(s) - 1
      /\ \A i \in 1 .. Len(Tail(s)) : Tail(s)[i] = s[i + 1]
  BY HeadTailProperties
<1>2. Len(s) \in Nat \ {0} /\ Head(s) = s[1]
  <2>1. Len(s) \in Nat \ {0}
    BY EmptySeq
  <2> QED BY <2>1
<1>3. /\ Push(Head(s), Tail(s)) \in Seq(Steps) /\ Len(Push(Head(s), Tail(s))) = Len(s)
      /\ Push(Head(s), Tail(s))[1] = s[1]
      /\ \A i \in 1 .. Len(Tail(s)) : Push(Head(s), Tail(s))[i + 1] = s[i + 1]
  <2>1. PICK h \in Steps : h = Head(s)
    BY <1>1
  <2>2. PICK r \in Seq(Steps) : r = Tail(s)
    BY <1>1
  <2>3. /\ Push(h, r) \in Seq(Steps) /\ Len(Push(h, r)) = Len(r) + 1 /\ Push(h, r)[1] = h
        /\ \A i \in 1 .. Len(r) : Push(h, r)[i + 1] = r[i]
    BY PushFacts
  <2> QED BY <1>1, <1>2, <2>1, <2>2, <2>3
<1>4. \A i \in 1 .. Len(s) : Push(Head(s), Tail(s))[i] = s[i]
  <2> TAKE i \in 1 .. Len(s)
  <2>1. CASE i = 1
    BY <2>1, <1>3
  <2>2. CASE i # 1
    <3>1. i - 1 \in 1 .. Len(Tail(s)) /\ (i - 1) + 1 = i
      BY <1>1, <1>2, <2>2
    <3>2. Push(Head(s), Tail(s))[(i - 1) + 1] = s[(i - 1) + 1]
      BY <3>1, <1>3
    <3> QED BY <3>1, <3>2
  <2> QED BY <2>1, <2>2
<1> QED BY <1>1, <1>3, <1>4, SeqEqual

\* Sequences of steps that are written down, in front of code.
LEMMA PushConcat ==
  ASSUME NEW s \in Seq(Steps)
  PROVE  /\ <<>> \o s = s
         /\ \A a \in Steps : <<a>> \o s = Push(a, s)
         /\ \A a \in Steps : \A u \in Seq(Steps) : Push(a, u) \o s = Push(a, u \o s)
<1>1. \A a \in Steps : <<a>> \in Seq(Steps)
  OBVIOUS
<1> QED BY <1>1, ConcatAssociative, ConcatEmptySeq DEF Push

LEMMA Written ==
  ASSUME NEW a \in Steps
  PROVE  /\ <<a>> = Push(a, <<>>)
         /\ \A b \in Steps : <<a, b>> = Push(a, <<b>>)
         /\ \A b, c \in Steps : <<a, b, c>> = Push(a, <<b, c>>)
         /\ \A b, c, d \in Steps : <<a, b, c, d>> = Push(a, <<b, c, d>>)
         /\ \A b, c, d, e \in Steps : <<a, b, c, d, e>> = Push(a, <<b, c, d, e>>)
<1>1. <<a>> = Push(a, <<>>)
  BY ConcatEmptySeq DEF Push
<1>2. \A b \in Steps : <<a, b>> = Push(a, <<b>>)
  BY DEF Push
<1>3. \A b, c \in Steps : <<a, b, c>> = Push(a, <<b, c>>)
  BY DEF Push
<1>4. \A b, c, d \in Steps : <<a, b, c, d>> = Push(a, <<b, c, d>>)
  BY DEF Push
<1>5. \A b, c, d, e \in Steps : <<a, b, c, d, e>> = Push(a, <<b, c, d, e>>)
  BY DEF Push
<1> QED BY <1>1, <1>2, <1>3, <1>4, <1>5

\* A step in front of code: what it does to Held, Parks, Has, Pending and Disciplined.
LEMMA HeldPush ==
  ASSUME NEW x \in Steps, NEW s \in Seq(Steps), NEW l \in Locks
  PROVE  l \in Held(Push(x, s)) <=>
           \/ x = Release(l)
           \/ x \notin {Acquire(l), <<"xchg", l>>, <<"own", l>>} /\ l \in Held(s)
<1> DEFINE takes == {Acquire(l), <<"xchg", l>>, <<"own", l>>}
           At1(u, i) == u[i] = Release(l) /\ \A j \in 1 .. (i - 1) : u[j] \notin takes
<1>1. /\ DOMAIN s = 1 .. Len(s) /\ Len(s) \in Nat
      /\ DOMAIN Push(x, s) = 1 .. (Len(s) + 1)
      /\ Push(x, s)[1] = x /\ \A i \in 1 .. Len(s) : Push(x, s)[i + 1] = s[i]
  BY PushFacts, LenProperties
<1>2. /\ l \in Held(s) <=> \E i \in 1 .. Len(s) : At1(s, i)
      /\ l \in Held(Push(x, s)) <=> \E i \in 1 .. (Len(s) + 1) : At1(Push(x, s), i)
  BY <1>1 DEF Held
<1>3. At1(Push(x, s), 1) <=> x = Release(l)
  BY <1>1
<1>4. \A i \in 1 .. Len(s) : At1(Push(x, s), i + 1) <=> x \notin takes /\ At1(s, i)
  <2> TAKE i \in 1 .. Len(s)
  <2>1. Push(x, s)[i + 1] = s[i] /\ (i + 1) - 1 = i
    BY <1>1
  <2>2. ASSUME \A j \in 1 .. ((i + 1) - 1) : Push(x, s)[j] \notin takes
        PROVE  x \notin takes /\ \A j \in 1 .. (i - 1) : s[j] \notin takes
    <3>1. x \notin takes
      BY <1>1, <2>1, <2>2
    <3>2. ASSUME NEW j \in 1 .. (i - 1)
          PROVE  s[j] \notin takes
      <4>1. j \in 1 .. Len(s) /\ j + 1 \in 1 .. ((i + 1) - 1)
        BY <1>1
      <4> QED BY <1>1, <2>2, <4>1
    <3> QED BY <3>1, <3>2
  <2>3. ASSUME x \notin takes, \A j \in 1 .. (i - 1) : s[j] \notin takes
        PROVE  \A j \in 1 .. ((i + 1) - 1) : Push(x, s)[j] \notin takes
    <3> SUFFICES ASSUME NEW j \in 1 .. i PROVE Push(x, s)[j] \notin takes
      BY <2>1
    <3>1. CASE j = 1
      BY <3>1, <1>1, <2>3
    <3>2. CASE j # 1
      <4>1. j - 1 \in 1 .. (i - 1) /\ j - 1 \in 1 .. Len(s) /\ (j - 1) + 1 = j
        BY <1>1, <3>2
      <4>2. Push(x, s)[(j - 1) + 1] = s[j - 1]
        BY <1>1, <4>1
      <4> QED BY <4>1, <4>2, <2>3
    <3> QED BY <3>1, <3>2
  <2> HIDE DEF takes
  <2> QED BY <2>1, <2>2, <2>3
<1> HIDE DEF takes, At1
<1>5. ASSUME NEW i \in 1 .. (Len(s) + 1), At1(Push(x, s), i)
      PROVE  x = Release(l) \/ (x \notin takes /\ l \in Held(s))
  <2>1. CASE i = 1
    BY <2>1, <1>3, <1>5
  <2>2. CASE i # 1
    <3>1. i - 1 \in 1 .. Len(s) /\ (i - 1) + 1 = i
      BY <1>1, <2>2
    <3> QED BY <3>1, <1>2, <1>4, <1>5
  <2> QED BY <2>1, <2>2
<1>6. ASSUME x = Release(l)
      PROVE  l \in Held(Push(x, s))
  <2>1. 1 \in 1 .. (Len(s) + 1)
    BY <1>1
  <2> QED BY <2>1, <1>2, <1>3, <1>6
<1>7. ASSUME x \notin takes, l \in Held(s)
      PROVE  l \in Held(Push(x, s))
  <2>1. PICK i \in 1 .. Len(s) : At1(s, i)
    BY <1>2, <1>7
  <2>2. i + 1 \in 1 .. (Len(s) + 1) /\ At1(Push(x, s), i + 1)
    BY <1>1, <1>4, <1>7, <2>1
  <2> QED BY <2>2, <1>2
<1> USE DEF takes
<1> QED BY <1>2, <1>5, <1>6, <1>7

LEMMA ParksPush ==
  ASSUME NEW x \in Steps, NEW s \in Seq(Steps)
  PROVE  Parks(Push(x, s)) <=>
           \/ x[1] \in {"sched", "leave"}
           \/ x[1] \notin {"runnable", "asleep"} /\ x # Release(ptable) /\ Parks(s)
<1> DEFINE Ends(y) == y[1] \in {"runnable", "asleep"} \/ y = Release(ptable)
           At1(u, i) == u[i][1] \in {"sched", "leave"} /\ \A j \in 1 .. (i - 1) : ~Ends(u[j])
<1>1. /\ DOMAIN s = 1 .. Len(s) /\ Len(s) \in Nat
      /\ DOMAIN Push(x, s) = 1 .. (Len(s) + 1)
      /\ Push(x, s)[1] = x /\ \A i \in 1 .. Len(s) : Push(x, s)[i + 1] = s[i]
  BY PushFacts, LenProperties
<1>2. /\ Parks(s) <=> \E i \in 1 .. Len(s) : At1(s, i)
      /\ Parks(Push(x, s)) <=> \E i \in 1 .. (Len(s) + 1) : At1(Push(x, s), i)
  BY <1>1 DEF Parks
<1>3. At1(Push(x, s), 1) <=> x[1] \in {"sched", "leave"}
  BY <1>1
<1>4. \A i \in 1 .. Len(s) : At1(Push(x, s), i + 1) <=> ~Ends(x) /\ At1(s, i)
  <2> TAKE i \in 1 .. Len(s)
  <2> HIDE DEF Ends
  <2>1. Push(x, s)[i + 1] = s[i] /\ (i + 1) - 1 = i
    BY <1>1
  <2>2. ASSUME \A j \in 1 .. ((i + 1) - 1) : ~Ends(Push(x, s)[j])
        PROVE  ~Ends(x) /\ \A j \in 1 .. (i - 1) : ~Ends(s[j])
    <3>1. ~Ends(x)
      BY <1>1, <2>1, <2>2
    <3>2. ASSUME NEW j \in 1 .. (i - 1)
          PROVE  ~Ends(s[j])
      <4>1. j \in 1 .. Len(s) /\ j + 1 \in 1 .. ((i + 1) - 1)
        BY <1>1
      <4> QED BY <1>1, <2>2, <4>1
    <3> QED BY <3>1, <3>2
  <2>3. ASSUME ~Ends(x), \A j \in 1 .. (i - 1) : ~Ends(s[j])
        PROVE  \A j \in 1 .. ((i + 1) - 1) : ~Ends(Push(x, s)[j])
    <3> SUFFICES ASSUME NEW j \in 1 .. i PROVE ~Ends(Push(x, s)[j])
      BY <2>1
    <3>1. CASE j = 1
      BY <3>1, <1>1, <2>3
    <3>2. CASE j # 1
      <4>1. j - 1 \in 1 .. (i - 1) /\ j - 1 \in 1 .. Len(s) /\ (j - 1) + 1 = j
        BY <1>1, <3>2
      <4>2. Push(x, s)[(j - 1) + 1] = s[j - 1]
        BY <1>1, <4>1
      <4> QED BY <4>1, <4>2, <2>3
    <3> QED BY <3>1, <3>2
  <2> QED BY <2>1, <2>2, <2>3
<1> HIDE DEF At1
<1>5. ASSUME NEW i \in 1 .. (Len(s) + 1), At1(Push(x, s), i)
      PROVE  x[1] \in {"sched", "leave"} \/ (~Ends(x) /\ Parks(s))
  <2> HIDE DEF Ends
  <2>1. CASE i = 1
    BY <2>1, <1>3, <1>5
  <2>2. CASE i # 1
    <3>1. i - 1 \in 1 .. Len(s) /\ (i - 1) + 1 = i
      BY <1>1, <2>2
    <3> QED BY <3>1, <1>2, <1>4, <1>5
  <2> QED BY <2>1, <2>2
<1>6. ASSUME x[1] \in {"sched", "leave"}
      PROVE  Parks(Push(x, s))
  <2>1. 1 \in 1 .. (Len(s) + 1)
    BY <1>1
  <2> QED BY <2>1, <1>2, <1>3, <1>6
<1>7. ASSUME ~Ends(x), Parks(s)
      PROVE  Parks(Push(x, s))
  <2> HIDE DEF Ends
  <2>1. PICK i \in 1 .. Len(s) : At1(s, i)
    BY <1>2, <1>7
  <2>2. i + 1 \in 1 .. (Len(s) + 1) /\ At1(Push(x, s), i + 1)
    BY <1>1, <1>4, <1>7, <2>1
  <2> QED BY <2>2, <1>2
<1> QED BY <1>2, <1>5, <1>6, <1>7

LEMMA HasPush ==
  ASSUME NEW x \in Steps, NEW s \in Seq(Steps), NEW op
  PROVE  Has(Push(x, s), op) <=> x[1] = op \/ Has(s, op)
<1>1. /\ DOMAIN s = 1 .. Len(s) /\ Len(s) \in Nat
      /\ DOMAIN Push(x, s) = 1 .. (Len(s) + 1)
      /\ Push(x, s)[1] = x /\ \A i \in 1 .. Len(s) : Push(x, s)[i + 1] = s[i]
  BY PushFacts, LenProperties
<1>2. ASSUME NEW i \in 1 .. (Len(s) + 1), Push(x, s)[i][1] = op
      PROVE  x[1] = op \/ Has(s, op)
  <2>1. CASE i = 1
    BY <2>1, <1>1, <1>2
  <2>2. CASE i # 1
    <3>1. i - 1 \in 1 .. Len(s) /\ (i - 1) + 1 = i
      BY <1>1, <2>2
    <3> QED BY <3>1, <1>1, <1>2 DEF Has
  <2> QED BY <2>1, <2>2
<1>3. ASSUME NEW i \in 1 .. Len(s), s[i][1] = op
      PROVE  Has(Push(x, s), op)
  <2>1. i + 1 \in 1 .. (Len(s) + 1)
    BY <1>1
  <2> QED BY <2>1, <1>1, <1>3 DEF Has
<1>4. x[1] = op => Has(Push(x, s), op)
  BY <1>1 DEF Has
<1> QED BY <1>1, <1>2, <1>3, <1>4 DEF Has

LEMMA DisciplinedPush ==
  ASSUME NEW x \in Steps, NEW s \in Seq(Steps), NEW t
  PROVE  Disciplined(t, Push(x, s)) <=> Legal(t, x, s) /\ Disciplined(t, s)
<1> DEFINE u == Push(x, s)
           Rest(v, i) == SubSeq(v, i + 1, Len(v))
<1>1. /\ DOMAIN s = 1 .. Len(s) /\ Len(s) \in Nat
      /\ DOMAIN u = 1 .. (Len(s) + 1) /\ Len(u) = Len(s) + 1 /\ u \in Seq(Steps)
      /\ u[1] = x /\ \A i \in 1 .. Len(s) : u[i + 1] = s[i] /\ s[i] \in Steps
      /\ u # <<>> /\ Tail(u) = s
  <2>1. /\ u \in Seq(Steps) /\ u # <<>> /\ Len(u) = Len(s) + 1 /\ u[1] = x /\ Tail(u) = s
        /\ \A i \in 1 .. Len(s) : u[i + 1] = s[i]
    BY PushFacts
  <2> HIDE DEF u, Rest
  <2>2. DOMAIN s = 1 .. Len(s) /\ Len(s) \in Nat /\ \A i \in 1 .. Len(s) : s[i] \in Steps
    BY LenProperties
  <2>3. DOMAIN u = 1 .. Len(u)
    BY <2>1, LenProperties
  <2> QED BY <2>1, <2>2, <2>3
<1>2. Rest(u, 1) = s
  BY <1>1, TailIsSubSeq
<1>3. \A i \in 1 .. Len(s) : Rest(u, i + 1) = Rest(s, i)
  <2> TAKE i \in 1 .. Len(s)
  <2>1. /\ Rest(s, i) \in Seq(Steps)
        /\ Len(Rest(s, i)) = IF i + 1 <= Len(s) THEN Len(s) - (i + 1) + 1 ELSE 0
        /\ \A j \in 1 .. Len(s) - (i + 1) + 1 : Rest(s, i)[j] = s[(i + 1) + j - 1]
    <3>1. (\A j \in i + 1 .. Len(s) : s[j] \in Steps) /\ i + 1 \in Int /\ Len(s) \in Int
      BY <1>1
    <3> HIDE DEF u
    <3> QED BY <3>1, SubSeqProperties
  <2>2. /\ Rest(u, i + 1) \in Seq(Steps)
        /\ Len(Rest(u, i + 1)) = IF (i + 1) + 1 <= Len(u) THEN Len(u) - ((i + 1) + 1) + 1 ELSE 0
        /\ \A j \in 1 .. Len(u) - ((i + 1) + 1) + 1 :
             Rest(u, i + 1)[j] = u[((i + 1) + 1) + j - 1]
    <3> HIDE DEF u
    <3>1. \A j \in 1 .. Len(u) : u[j] \in Steps
      BY <1>1, LenProperties
    <3>2. (\A j \in (i + 1) + 1 .. Len(u) : u[j] \in Steps)
          /\ (i + 1) + 1 \in Int /\ Len(u) \in Int
      BY <1>1, <3>1
    <3> QED BY <3>2, SubSeqProperties
  <2> HIDE DEF u, Rest
  <2>3. Len(Rest(u, i + 1)) = Len(Rest(s, i)) /\ Len(Rest(s, i)) = Len(s) - i
    <3>1. Len(s) \in Nat /\ Len(u) = Len(s) + 1 /\ i \in Nat /\ i <= Len(s)
      BY <1>1
    <3>2. Len(Rest(s, i)) = Len(s) - i
      BY <2>1, <3>1
    <3>3. Len(Rest(u, i + 1)) = Len(s) - i
      BY <2>2, <3>1
    <3> QED BY <3>2, <3>3
  <2>4. ASSUME NEW j \in 1 .. Len(Rest(s, i))
        PROVE  Rest(u, i + 1)[j] = Rest(s, i)[j]
    <3>1. /\ j \in 1 .. Len(s) - (i + 1) + 1 /\ j \in 1 .. Len(u) - ((i + 1) + 1) + 1
          /\ i + j \in 1 .. Len(s)
          /\ ((i + 1) + 1) + j - 1 = (i + j) + 1 /\ (i + 1) + j - 1 = i + j
      BY <1>1, <2>3
    <3>2. Rest(u, i + 1)[j] = u[(i + j) + 1] /\ Rest(s, i)[j] = s[i + j]
      BY <2>1, <2>2, <3>1
    <3> QED BY <1>1, <3>1, <3>2
  <2> QED BY <2>1, <2>2, <2>3, <2>4, SeqEqual
<1>4. /\ Disciplined(t, s) <=> \A i \in 1 .. Len(s) : Legal(t, s[i], Rest(s, i))
      /\ Disciplined(t, u) <=> \A i \in 1 .. (Len(s) + 1) : Legal(t, u[i], Rest(u, i))
  BY <1>1 DEF Disciplined
<1> HIDE DEF u, Rest
<1>5. ASSUME Disciplined(t, u)
      PROVE  Legal(t, x, s) /\ Disciplined(t, s)
  <2>1. Legal(t, x, s)
    <3>1. 1 \in 1 .. (Len(s) + 1)
      BY <1>1
    <3> QED BY <3>1, <1>1, <1>2, <1>4, <1>5
  <2>2. ASSUME NEW i \in 1 .. Len(s)
        PROVE  Legal(t, s[i], Rest(s, i))
    <3>1. i + 1 \in 1 .. (Len(s) + 1)
      BY <1>1
    <3> QED BY <3>1, <1>1, <1>3, <1>4, <1>5
  <2> QED BY <2>1, <2>2, <1>4
<1>6. ASSUME Legal(t, x, s), Disciplined(t, s), NEW i \in 1 .. (Len(s) + 1)
      PROVE  Legal(t, u[i], Rest(u, i))
  <2>1. CASE i = 1
    BY <2>1, <1>1, <1>2, <1>6
  <2>2. CASE i # 1
    <3>1. i - 1 \in 1 .. Len(s) /\ (i - 1) + 1 = i
      BY <1>1, <2>2
    <3>2. u[i] = s[i - 1] /\ Rest(u, i) = Rest(s, i - 1)
      BY <3>1, <1>1, <1>3
    <3> QED BY <3>1, <3>2, <1>4, <1>6
  <2> QED BY <2>1, <2>2
<1>7. Disciplined(t, u) <=> Legal(t, x, s) /\ Disciplined(t, s)
  BY <1>4, <1>5, <1>6
<1> QED BY <1>7 DEF u

\* Nothing is held, and nothing is wrong, where there is no step to do.
LEMMA NoCode ==
  /\ <<>> \in Seq(Steps) /\ Held(<<>>) = {} /\ ~Parks(<<>>)
  /\ \A op : ~Has(<<>>, op)
  /\ \A ops : Pending(<<>>, ops) = {}
  /\ \A t : Disciplined(t, <<>>)
<1>1. <<>> \in Seq(Steps) /\ DOMAIN <<>> = {}
  BY EmptySeq, LenProperties
<1> QED BY <1>1 DEF Held, Parks, Has, Pending, Disciplined

-------------------------------------------------------------------------------
(* Locks, steps, and code that a thread may have to do. *)

LEMMA LockFacts ==
  /\ ptable \in Locks /\ tickslock \in Locks /\ NoLock \notin Locks /\ ptable # tickslock
  /\ Rank(tickslock) = 0 /\ Rank(ptable) = 1
  /\ \A c \in CPUs : rqlock(c) \in Locks /\ Rank(rqlock(c)) = 2
  /\ \A l \in Locks : /\ Rank(l) \in 0 .. 2
                      /\ (Rank(l) = 0) <=> (l = tickslock)
                      /\ (Rank(l) = 1) <=> (l = ptable)
                      /\ (Rank(l) = 2) <=> (\E c \in CPUs : l = rqlock(c))
<1>1. /\ ptable \in Locks /\ tickslock \in Locks /\ NoLock \notin Locks /\ ptable # tickslock
      /\ \A c \in CPUs : rqlock(c) \in Locks /\ rqlock(c) # ptable /\ rqlock(c) # tickslock
  BY DEF Locks, ptable, tickslock, NoLock, rqlock
<1>2. \A l \in Locks : l \in {ptable, tickslock} \/ \E c \in CPUs : l = rqlock(c)
  BY DEF Locks
<1> QED BY <1>1, <1>2 DEF Rank

LEMMA StepFacts ==
  /\ \A op \in Operations, l \in Locks \cup {NoLock} :
       <<op, l>> \in Steps /\ <<op, l>>[1] = op /\ <<op, l>>[2] = l
  /\ \A x \in Steps : /\ x[1] \in Operations /\ x[2] \in Locks \cup {NoLock}
                      /\ x = <<x[1], x[2]>>
  BY DEF Steps

LEMMA Written2 ==
  /\ \A l \in Locks : Acquire(l) \in Steps /\ Acquire(l)[1] = "acquire" /\ Acquire(l)[2] = l
  /\ \A l \in Locks : Release(l) \in Steps /\ Release(l)[1] = "release" /\ Release(l)[2] = l
  /\ \A op \in Operations : Do(op) \in Steps /\ Do(op)[1] = op /\ Do(op)[2] = NoLock
  BY StepFacts DEF Acquire, Release, Do, Operations

\* Code of thread t that is not in the middle of taking a lock, giving it back, or switching.
Fits(t, s) ==
  /\ s \in Seq(Steps) /\ Disciplined(t, s) /\ ~Resuming(s)
  /\ Parks(s) => ptable \in Held(s)
  /\ Pending(s, {"xchg", "own", "unlock"}) = {}

\* The code u ends the interrupt or the fork that s ends.
EndsLike(u, s) ==
  /\ Has(u, "iret") <=> Has(s, "iret")
  /\ Has(u, "trapret") <=> Has(s, "trapret")

LEMMA FitsAcquire ==
  ASSUME NEW t, NEW s, NEW l \in Locks, Fits(t, s), l \in Held(s),
         \A m \in Held(s) \ {l} : Rank(m) < Rank(l),
         l = ptable => ~Parks(s)
  PROVE  LET u == Push(Acquire(l), s)
         IN Fits(t, u) /\ Held(u) = Held(s) \ {l} /\ (Parks(u) <=> Parks(s)) /\ EndsLike(u, s)
<1> DEFINE x == Acquire(l)
           u == Push(x, s)
<1>1. /\ x \in Steps /\ x[1] = "acquire" /\ x[2] = l
      /\ s \in Seq(Steps) /\ u \in Seq(Steps) /\ Head(u) = x
  BY Written2, PushFacts DEF Fits
<1>2. Held(u) = Held(s) \ {l}
  <2>1. \A m \in Locks : m \in Held(u) <=> m # l /\ m \in Held(s)
    <3> TAKE m \in Locks
    <3>1. x # Release(m) /\ x # <<"xchg", m>> /\ x # <<"own", m>> /\ (x = Acquire(m) <=> m = l)
      BY DEF Acquire, Release
    <3> QED BY <1>1, <3>1, HeldPush
  <2>2. Held(u) \subseteq Locks /\ Held(s) \subseteq Locks
    BY DEF Held
  <2> QED BY <2>1, <2>2
<1>3. Parks(u) <=> Parks(s)
  <2>1. x # Release(ptable)
    BY DEF Acquire, Release
  <2> QED BY <1>1, <2>1, ParksPush
<1>4. EndsLike(u, s)
  BY <1>1, HasPush DEF EndsLike
<1>5. Legal(t, x, s)
  BY <1>1 DEF Legal, Fits, TakesInOrder, SwitchesUnderLock, StepOfThread
<1>6. Disciplined(t, u)
  BY <1>1, <1>5, DisciplinedPush DEF Fits
<1>7. Pending(u, {"xchg", "own", "unlock"}) = {} /\ ~Resuming(u)
  BY <1>1 DEF Pending, Resuming
<1>8. Parks(u) => ptable \in Held(u)
  BY <1>2, <1>3 DEF Fits
<1> HIDE DEF x
<1> QED BY <1>1, <1>2, <1>3, <1>4, <1>6, <1>7, <1>8 DEF Fits, x

LEMMA FitsRelease ==
  ASSUME NEW t, NEW s, NEW l \in Locks, Fits(t, s), \A m \in Held(s) : Rank(m) # Rank(l)
  PROVE  LET u == Push(Release(l), s)
         IN Fits(t, u) /\ Held(u) = Held(s) \cup {l} /\ (Parks(u) <=> Parks(s)) /\ EndsLike(u, s)
<1> DEFINE x == Release(l)
           u == Push(x, s)
<1>1. /\ x \in Steps /\ x[1] = "release" /\ x[2] = l
      /\ s \in Seq(Steps) /\ u \in Seq(Steps) /\ Head(u) = x
  BY Written2, PushFacts DEF Fits
<1>2. Held(u) = Held(s) \cup {l}
  <2>1. \A m \in Locks : m \in Held(u) <=> m = l \/ m \in Held(s)
    <3> TAKE m \in Locks
    <3>1. (x = Release(m) <=> m = l) /\ x # <<"xchg", m>> /\ x # <<"own", m>> /\ x # Acquire(m)
      BY DEF Acquire, Release
    <3> QED BY <1>1, <3>1, HeldPush
  <2>2. Held(u) \subseteq Locks /\ Held(s) \subseteq Locks
    BY DEF Held
  <2> QED BY <2>1, <2>2
<1>3. Parks(u) <=> Parks(s)
  <2>1. (x = Release(ptable)) => ~Parks(s)
    BY DEF Fits, Release
  <2> QED BY <1>1, <2>1, ParksPush
<1>4. EndsLike(u, s)
  BY <1>1, HasPush DEF EndsLike
<1>5. Legal(t, x, s)
  BY <1>1 DEF Legal, Fits, TakesInOrder, SwitchesUnderLock, StepOfThread
<1>6. Disciplined(t, u)
  BY <1>1, <1>5, DisciplinedPush DEF Fits
<1>7. Pending(u, {"xchg", "own", "unlock"}) = {} /\ ~Resuming(u)
  BY <1>1 DEF Pending, Resuming
<1>8. Parks(u) => ptable \in Held(u)
  BY <1>2, <1>3 DEF Fits
<1> HIDE DEF x
<1> QED BY <1>1, <1>2, <1>3, <1>4, <1>6, <1>7, <1>8 DEF Fits, x

LEMMA FitsDo ==
  ASSUME NEW t, NEW s, Fits(t, s),
         NEW op \in Operations \ {"acquire", "xchg", "own", "release", "unlock", "leave", "resume"},
         SwitchesUnderLock(Do(op), s), StepOfThread(t, Do(op), s)
  PROVE  LET u == Push(Do(op), s)
         IN /\ Fits(t, u) /\ Held(u) = Held(s)
            /\ Parks(u) <=> op = "sched" \/ (op \notin {"runnable", "asleep"} /\ Parks(s))
            /\ \A o : Has(u, o) <=> op = o \/ Has(s, o)
            /\ op \notin {"iret", "trapret"} => EndsLike(u, s)
<1> DEFINE x == Do(op)
           u == Push(x, s)
<1>1. /\ x \in Steps /\ x[1] = op
      /\ s \in Seq(Steps) /\ u \in Seq(Steps) /\ Head(u) = x
  BY Written2, PushFacts DEF Fits
<1>2. Held(u) = Held(s)
  <2>1. \A m \in Locks : m \in Held(u) <=> m \in Held(s)
    <3> TAKE m \in Locks
    <3>1. x # Release(m) /\ x # <<"xchg", m>> /\ x # <<"own", m>> /\ x # Acquire(m)
      BY DEF Acquire, Release, Do
    <3> QED BY <1>1, <3>1, HeldPush
  <2>2. Held(u) \subseteq Locks /\ Held(s) \subseteq Locks
    BY DEF Held
  <2> QED BY <2>1, <2>2
<1>3. Parks(u) <=> op = "sched" \/ (op \notin {"runnable", "asleep"} /\ Parks(s))
  <2>1. x # Release(ptable)
    BY DEF Do, Release
  <2> QED BY <1>1, <2>1, ParksPush
<1>4. \A o : Has(u, o) <=> op = o \/ Has(s, o)
  BY <1>1, HasPush
<1>5. Legal(t, x, s)
  BY <1>1 DEF Legal, Fits, TakesInOrder
<1>6. Disciplined(t, u)
  BY <1>1, <1>5, DisciplinedPush DEF Fits
<1>7. Pending(u, {"xchg", "own", "unlock"}) = {} /\ ~Resuming(u)
  BY <1>1 DEF Pending, Resuming
<1>8. Parks(u) => ptable \in Held(u)
  BY <1>1, <1>2, <1>3 DEF Fits, SwitchesUnderLock
<1>9. op \notin {"iret", "trapret"} => EndsLike(u, s)
  BY <1>4 DEF EndsLike
<1> HIDE DEF x
<1> QED BY <1>1, <1>2, <1>3, <1>4, <1>6, <1>7, <1>8, <1>9 DEF Fits, x

LEMMA CodeConcat ==
  ASSUME NEW r \in Seq(Steps), NEW s \in Seq(Steps), NEW u \in Seq(Steps)
  PROVE  r \o s \in Seq(Steps) /\ (r \o s) \o u = r \o (s \o u)
BY ConcatAssociative, ConcatProperties

LEMMA Pushed1 ==
  ASSUME NEW s \in Seq(Steps), NEW a \in Steps
  PROVE  <<a>> \o s = Push(a, s)
BY PushConcat

LEMMA Pushed2 ==
  ASSUME NEW s \in Seq(Steps), NEW a \in Steps, NEW b \in Steps
  PROVE  <<a, b>> \o s = Push(a, Push(b, s))
<1>1. <<b>> \in Seq(Steps) /\ <<a, b>> = Push(a, <<b>>)
  BY Written
<1>2. Push(a, <<b>>) \o s = Push(a, <<b>> \o s)
  BY <1>1, PushConcat
<1>3. <<b>> \o s = Push(b, s)
  BY Pushed1
<1> QED BY <1>1, <1>2, <1>3

LEMMA Pushed3 ==
  ASSUME NEW s \in Seq(Steps), NEW a \in Steps, NEW b \in Steps, NEW c \in Steps
  PROVE  <<a, b, c>> \o s = Push(a, Push(b, Push(c, s)))
<1>1. <<b, c>> \in Seq(Steps) /\ <<a, b, c>> = Push(a, <<b, c>>)
  BY Written
<1>2. Push(a, <<b, c>>) \o s = Push(a, <<b, c>> \o s)
  BY <1>1, PushConcat
<1>3. <<b, c>> \o s = Push(b, Push(c, s))
  BY Pushed2
<1> QED BY <1>1, <1>2, <1>3

LEMMA Pushed4 ==
  ASSUME NEW s \in Seq(Steps), NEW a \in Steps, NEW b \in Steps, NEW c \in Steps, NEW d \in Steps
  PROVE  <<a, b, c, d>> \o s = Push(a, Push(b, Push(c, Push(d, s))))
<1>1. <<b, c, d>> \in Seq(Steps) /\ <<a, b, c, d>> = Push(a, <<b, c, d>>)
  BY Written
<1>2. Push(a, <<b, c, d>>) \o s = Push(a, <<b, c, d>> \o s)
  BY <1>1, PushConcat
<1>3. <<b, c, d>> \o s = Push(b, Push(c, Push(d, s)))
  BY Pushed3
<1> QED BY <1>1, <1>2, <1>3

LEMMA Pushed5 ==
  ASSUME NEW s \in Seq(Steps), NEW a \in Steps, NEW b \in Steps, NEW c \in Steps, NEW d \in Steps, NEW e \in Steps
  PROVE  <<a, b, c, d, e>> \o s = Push(a, Push(b, Push(c, Push(d, Push(e, s)))))
<1>1. <<b, c, d, e>> \in Seq(Steps) /\ <<a, b, c, d, e>> = Push(a, <<b, c, d, e>>)
  BY Written, SMTT(30)
<1>2. Push(a, <<b, c, d, e>>) \o s = Push(a, <<b, c, d, e>> \o s)
  BY <1>1, PushConcat, ZenonT(30)
<1>3. <<b, c, d, e>> \o s = Push(b, Push(c, Push(d, Push(e, s))))
  BY Pushed4
<1> QED BY <1>1, <1>2, <1>3

\* The run queue of a CPU is inside of the other locks.
LEMMA FitsRunQueue ==
  ASSUME NEW t, NEW s, NEW d \in CPUs, Fits(t, s), \A m \in Held(s) : Rank(m) < 2
  PROVE  LET u == RunQueue(d) \o s
         IN Fits(t, u) /\ Held(u) = Held(s) /\ (Parks(u) <=> Parks(s)) /\ EndsLike(u, s)
<1> DEFINE l == rqlock(d)
           u1 == Push(Release(l), s)
           u2 == Push(Acquire(l), u1)
<1>1. l \in Locks /\ Rank(l) = 2 /\ l # ptable
  BY LockFacts
<1>2. Held(s) \subseteq Locks /\ \A m \in Locks : Rank(m) \in Nat
  BY LockFacts DEF Held
<1> HIDE DEF l
<1>3. Fits(t, u1) /\ Held(u1) = Held(s) \cup {l} /\ (Parks(u1) <=> Parks(s)) /\ EndsLike(u1, s)
  <2>1. \A m \in Held(s) : Rank(m) # Rank(l)
    BY <1>1, <1>2
  <2> QED BY <1>1, <2>1, FitsRelease
<1>4. l \notin Held(s)
  BY <1>1, <1>2
<1>5. Fits(t, u2) /\ Held(u2) = Held(s) /\ (Parks(u2) <=> Parks(s)) /\ EndsLike(u2, u1)
  <2> HIDE DEF u1
  <2>1. l \in Held(u1) /\ \A m \in Held(u1) \ {l} : Rank(m) < Rank(l)
    BY <1>1, <1>3
  <2>2. /\ Fits(t, u2) /\ Held(u2) = Held(u1) \ {l} /\ (Parks(u2) <=> Parks(u1))
        /\ EndsLike(u2, u1)
    BY <1>1, <1>3, <2>1, FitsAcquire
  <2> QED BY <1>3, <1>4, <2>2
<1>6. EndsLike(u2, s)
  BY <1>3, <1>5 DEF EndsLike
<1>7. s \in Seq(Steps) /\ Acquire(l) \in Steps /\ Release(l) \in Steps
  BY <1>1, Written2 DEF Fits
<1>8. RunQueue(d) \o s = IF kernel = "lottery" THEN u2 ELSE s
  BY <1>7, Pushed2, PushConcat DEF RunQueue, l
<1> HIDE DEF u1, u2
<1>9. CASE kernel = "lottery"
  BY <1>5, <1>6, <1>8, <1>9
<1>10. CASE kernel # "lottery"
  BY <1>8, <1>10 DEF EndsLike
<1> QED BY <1>9, <1>10

\* A process that is inside of ptable.lock switches to the scheduler and releases the lock.
LEMMA FitsSched ==
  ASSUME NEW t \in Pids, NEW s, Fits(t, s), Held(s) = {}
  PROVE  LET u == Push(Do("sched"), Push(Release(ptable), s))
         IN Fits(t, u) /\ Held(u) = {ptable} /\ Parks(u) /\ EndsLike(u, s)
<1> DEFINE u1 == Push(Release(ptable), s)
           u2 == Push(Do("sched"), u1)
<1>1. /\ Fits(t, u1) /\ Held(u1) = {ptable} /\ ~Parks(u1) /\ EndsLike(u1, s)
  <2>1. ~Parks(s)
    BY DEF Fits
  <2>2. \A m \in Held(s) : Rank(m) # Rank(ptable)
    OBVIOUS
  <2> HIDE DEF u1
  <2>3. ptable \in Locks
    BY LockFacts
  <2>4. Fits(t, u1) /\ Held(u1) = Held(s) \cup {ptable} /\ (Parks(u1) <=> Parks(s)) /\ EndsLike(u1, s)
    BY <2>2, <2>3, FitsRelease DEF u1
  <2> QED BY <2>1, <2>4
<1> HIDE DEF u1
<1>2. /\ Fits(t, u2) /\ Held(u2) = Held(u1) /\ Parks(u2) /\ EndsLike(u2, u1)
  <2>1. "sched" \in Operations \ {"acquire", "xchg", "own", "release", "unlock", "leave", "resume"}
    BY DEF Operations
  <2>2. Do("sched")[1] = "sched"
    BY DEF Do
  <2>3. SwitchesUnderLock(Do("sched"), u1) /\ StepOfThread(t, Do("sched"), u1)
    BY <1>1, <2>2 DEF SwitchesUnderLock, StepOfThread, Fits
  <2> QED BY <1>1, <2>1, <2>3, FitsDo
<1> QED BY <1>1, <1>2 DEF EndsLike, u1

LEMMA FitsYield ==
  ASSUME NEW t \in Pids, NEW s, Fits(t, s), Held(s) = {}
  PROVE  LET u == Yield \o s
         IN Fits(t, u) /\ Held(u) = {} /\ EndsLike(u, s)
<1> DEFINE u1 == Push(Do("sched"), Push(Release(ptable), s))
           u2 == Push(Do("runnable"), u1)
           u3 == Push(Acquire(ptable), u2)
<1>1. Fits(t, u1) /\ Held(u1) = {ptable} /\ Parks(u1) /\ EndsLike(u1, s)
  BY FitsSched
<1> HIDE DEF u1
<1>2. Fits(t, u2) /\ Held(u2) = {ptable} /\ ~Parks(u2) /\ EndsLike(u2, u1)
  <2>1. "runnable" \in Operations \ {"acquire", "xchg", "own", "release", "unlock", "leave", "resume"}
    BY DEF Operations
  <2>2. Do("runnable")[1] = "runnable"
    BY DEF Do
  <2>3. SwitchesUnderLock(Do("runnable"), u1) /\ StepOfThread(t, Do("runnable"), u1)
    BY <1>1, <2>2 DEF SwitchesUnderLock, StepOfThread, Fits
  <2> QED BY <1>1, <2>1, <2>3, FitsDo
<1> HIDE DEF u2
<1>3. Fits(t, u3) /\ Held(u3) = {} /\ EndsLike(u3, u2)
  <2>1. ptable \in Locks
    BY LockFacts
  <2>2. Fits(t, u3) /\ Held(u3) = Held(u2) \ {ptable} /\ EndsLike(u3, u2)
    BY <1>2, <2>1, FitsAcquire
  <2> QED BY <1>2, <2>2
<1>4. Yield \o s = u3
  <2>1. /\ s \in Seq(Steps) /\ Acquire(ptable) \in Steps /\ Do("runnable") \in Steps
        /\ Do("sched") \in Steps /\ Release(ptable) \in Steps
    BY Written2, LockFacts DEF Fits, Operations
  <2> QED BY <2>1, Pushed4 DEF Yield, u1, u2
<1> QED BY <1>1, <1>2, <1>3, <1>4 DEF EndsLike

LEMMA FitsSleep ==
  ASSUME NEW t \in Pids, NEW s \in Seq(Steps), NEW d \in CPUs,
         Fits(t, s), Held(s) = {tickslock}, ~Parks(s)
  PROVE  LET u == Sleep(d) \o s
         IN Fits(t, u) /\ Held(u) = {tickslock} /\ ~Parks(u) /\ EndsLike(u, s)
<1> DEFINE u1 == Push(Acquire(tickslock), s)
           u2 == Push(Do("sched"), Push(Release(ptable), u1))
           u3 == RunQueue(d) \o u2
           u4 == Push(Do("asleep"), u3)
           u5 == Push(Release(tickslock), u4)
           u6 == Push(Acquire(ptable), u5)
<1>1. Fits(t, u1) /\ Held(u1) = {} /\ EndsLike(u1, s)
  <2>1. tickslock \in Locks /\ tickslock # ptable
    BY LockFacts
  <2>2. Fits(t, u1) /\ Held(u1) = Held(s) \ {tickslock} /\ EndsLike(u1, s)
    BY <2>1, FitsAcquire
  <2> QED BY <2>2
<1> HIDE DEF u1
<1>2. Fits(t, u2) /\ Held(u2) = {ptable} /\ Parks(u2) /\ EndsLike(u2, u1)
  BY <1>1, FitsSched
<1> HIDE DEF u2
<1>3. Fits(t, u3) /\ Held(u3) = {ptable} /\ Parks(u3) /\ EndsLike(u3, u2)
  <2>1. \A m \in Held(u2) : Rank(m) < 2
    BY <1>2, LockFacts
  <2> QED BY <1>2, <2>1, FitsRunQueue
<1> HIDE DEF u3
<1>4. Fits(t, u4) /\ Held(u4) = {ptable} /\ ~Parks(u4) /\ EndsLike(u4, u3)
  <2>1. "asleep" \in Operations \ {"acquire", "xchg", "own", "release", "unlock", "leave", "resume"}
    BY DEF Operations
  <2>2. Do("asleep")[1] = "asleep"
    BY DEF Do
  <2>3. SwitchesUnderLock(Do("asleep"), u3) /\ StepOfThread(t, Do("asleep"), u3)
    BY <1>3, <2>2 DEF SwitchesUnderLock, StepOfThread, Fits
  <2> QED BY <1>3, <2>1, <2>3, FitsDo
<1> HIDE DEF u4
<1>5. Fits(t, u5) /\ Held(u5) = {ptable, tickslock} /\ ~Parks(u5) /\ EndsLike(u5, u4)
  <2>1. tickslock \in Locks /\ \A m \in Held(u4) : Rank(m) # Rank(tickslock)
    BY <1>4, LockFacts
  <2>2. Fits(t, u5) /\ Held(u5) = Held(u4) \cup {tickslock} /\ (Parks(u5) <=> Parks(u4))
        /\ EndsLike(u5, u4)
    BY <1>4, <2>1, FitsRelease
  <2> QED BY <1>4, <2>2
<1> HIDE DEF u5
<1>6. Fits(t, u6) /\ Held(u6) = {tickslock} /\ ~Parks(u6) /\ EndsLike(u6, u5)
  <2>1. /\ ptable \in Locks /\ ptable \in Held(u5) /\ ptable # tickslock
        /\ \A m \in Held(u5) \ {ptable} : Rank(m) < Rank(ptable)
    BY <1>5, LockFacts
  <2>2. Fits(t, u6) /\ Held(u6) = Held(u5) \ {ptable} /\ (Parks(u6) <=> Parks(u5))
        /\ EndsLike(u6, u5)
    BY <1>5, <2>1, FitsAcquire
  <2> QED BY <1>5, <2>1, <2>2
<1>7. Sleep(d) \o s = u6
  <2>1. /\ s \in Seq(Steps) /\ Acquire(ptable) \in Steps /\ Do("asleep") \in Steps
        /\ Do("sched") \in Steps /\ Release(ptable) \in Steps /\ Acquire(tickslock) \in Steps
        /\ Release(tickslock) \in Steps /\ u2 \in Seq(Steps)
    BY <1>2, Written2, LockFacts DEF Fits, Operations
  <2>2. PICK a \in Seq(Steps) : a = <<Acquire(ptable), Release(tickslock), Do("asleep")>>
    <3>1. <<Acquire(ptable), Release(tickslock), Do("asleep")>> \in Seq(Steps)
      BY <2>1
    <3> QED BY <3>1
  <2>3. PICK b \in Seq(Steps) : b = <<Do("sched"), Release(ptable), Acquire(tickslock)>>
    <3>1. <<Do("sched"), Release(ptable), Acquire(tickslock)>> \in Seq(Steps)
      BY <2>1
    <3> QED BY <3>1
  <2>4. PICK q \in Seq(Steps) : q = RunQueue(d)
    <3>1. rqlock(d) \in Locks
      BY LockFacts
    <3>2. Acquire(rqlock(d)) \in Steps /\ Release(rqlock(d)) \in Steps
      BY <3>1, Written2
    <3>3. <<Acquire(rqlock(d)), Release(rqlock(d))>> \in Seq(Steps) /\ <<>> \in Seq(Steps)
      BY <3>2, EmptySeq
    <3> QED BY <3>3 DEF RunQueue
  <2>5. PICK bs \in Seq(Steps) : bs = b \o s
    BY CodeConcat
  <2>10. PICK aq \in Seq(Steps) : aq = a \o q
    BY CodeConcat
  <2>11. (aq \o b) \o s = aq \o bs
    BY <2>5, CodeConcat, SMTT(60)
  <2>12. (a \o q) \o bs = a \o (q \o bs)
    BY CodeConcat, SMTT(60)
  <2>6. b \o s = u2
    <3>1. <<Do("sched"), Release(ptable), Acquire(tickslock)>> \o s
            = Push(Do("sched"), Push(Release(ptable), Push(Acquire(tickslock), s)))
      <4>1. \A x \in Steps, y \in Steps, z \in Steps :
               <<x, y, z>> \o s = Push(x, Push(y, Push(z, s)))
        BY <2>1, Pushed3
      <4> QED BY ONLY <2>1, <4>1, SMTT(30)
    <3> QED BY <2>3, <3>1 DEF u2, u1
  <2>7. q \o u2 = u3 /\ u3 \in Seq(Steps)
    BY <1>3, <2>4 DEF u3, Fits
  <2>8. a \o u3 = Push(Acquire(ptable), Push(Release(tickslock), Push(Do("asleep"), u3)))
    <3>1. \A x \in Steps, y \in Steps, z \in Steps :
             <<x, y, z>> \o u3 = Push(x, Push(y, Push(z, u3)))
      BY <2>7, Pushed3
    <3> QED BY ONLY <2>1, <2>2, <3>1
  <2>9. Sleep(d) = (a \o q) \o b
    BY <2>2, <2>3, <2>4 DEF Sleep
  <2> QED BY <2>5, <2>6, <2>7, <2>8, <2>9, <2>10, <2>11, <2>12 DEF u4, u5
<1> QED BY <1>1, <1>2, <1>3, <1>4, <1>5, <1>6, <1>7 DEF EndsLike

\* The steps that do not touch locks, where they may stand.
LEMMA FitsPlain ==
  ASSUME NEW t, NEW s, Fits(t, s),
         NEW op \in Operations \ {"acquire", "xchg", "own", "release", "unlock", "leave", "resume",
                                  "sched", "runnable", "asleep", "iret", "trapret"},
         SwitchesUnderLock(Do(op), s), StepOfThread(t, Do(op), s)
  PROVE  LET u == Push(Do(op), s)
         IN Fits(t, u) /\ Held(u) = Held(s) /\ (Parks(u) <=> Parks(s)) /\ EndsLike(u, s)
BY FitsDo

\* The ticks: tickslock and inside of it, in wakeup(), ptable.lock.
LEMMA FitsTick ==
  ASSUME NEW t, NEW s, Fits(t, s), Held(s) = {}
  PROVE  LET u == <<Acquire(tickslock), Acquire(ptable), Do("wakeup1"), Release(ptable),
                    Release(tickslock)>> \o s
         IN Fits(t, u) /\ Held(u) = {} /\ EndsLike(u, s)
<1> DEFINE u1 == Push(Release(tickslock), s)
           u2 == Push(Release(ptable), u1)
           u3 == Push(Do("wakeup1"), u2)
           u4 == Push(Acquire(ptable), u3)
           u5 == Push(Acquire(tickslock), u4)
<1>0. /\ tickslock \in Locks /\ ptable \in Locks /\ tickslock # ptable
      /\ Rank(tickslock) = 0 /\ Rank(ptable) = 1
  BY LockFacts
<1>1. Fits(t, u1) /\ Held(u1) = {tickslock} /\ ~Parks(u1) /\ EndsLike(u1, s)
  <2>1. ~Parks(s) /\ \A m \in Held(s) : Rank(m) # Rank(tickslock)
    BY DEF Fits
  <2>2. Fits(t, u1) /\ Held(u1) = Held(s) \cup {tickslock} /\ (Parks(u1) <=> Parks(s))
        /\ EndsLike(u1, s)
    BY <1>0, <2>1, FitsRelease
  <2> QED BY <2>1, <2>2
<1> HIDE DEF u1
<1>2. Fits(t, u2) /\ Held(u2) = {tickslock, ptable} /\ ~Parks(u2) /\ EndsLike(u2, u1)
  <2>1. \A m \in Held(u1) : Rank(m) # Rank(ptable)
    BY <1>0, <1>1
  <2>2. Fits(t, u2) /\ Held(u2) = Held(u1) \cup {ptable} /\ (Parks(u2) <=> Parks(u1))
        /\ EndsLike(u2, u1)
    BY <1>0, <1>1, <2>1, FitsRelease
  <2> QED BY <1>1, <2>2
<1> HIDE DEF u2
<1>3. Fits(t, u3) /\ Held(u3) = {tickslock, ptable} /\ ~Parks(u3) /\ EndsLike(u3, u2)
  <2>1. "wakeup1" \in Operations /\ Do("wakeup1")[1] = "wakeup1"
    BY DEF Operations, Do
  <2>2. SwitchesUnderLock(Do("wakeup1"), u2) /\ StepOfThread(t, Do("wakeup1"), u2)
    BY <1>2, <2>1 DEF SwitchesUnderLock, StepOfThread, Fits
  <2> QED BY <1>2, <2>1, <2>2, FitsPlain
<1> HIDE DEF u3
<1>4. Fits(t, u4) /\ Held(u4) = {tickslock} /\ ~Parks(u4) /\ EndsLike(u4, u3)
  <2>1. ptable \in Held(u3) /\ \A m \in Held(u3) \ {ptable} : Rank(m) < Rank(ptable)
    BY <1>0, <1>3
  <2>2. Fits(t, u4) /\ Held(u4) = Held(u3) \ {ptable} /\ (Parks(u4) <=> Parks(u3))
        /\ EndsLike(u4, u3)
    BY <1>0, <1>3, <2>1, FitsAcquire
  <2> QED BY <1>0, <1>3, <2>2
<1> HIDE DEF u4
<1>5. Fits(t, u5) /\ Held(u5) = {} /\ EndsLike(u5, u4)
  <2>1. tickslock \in Held(u4) /\ \A m \in Held(u4) \ {tickslock} : Rank(m) < Rank(tickslock)
    BY <1>4
  <2>2. Fits(t, u5) /\ Held(u5) = Held(u4) \ {tickslock} /\ EndsLike(u5, u4)
    BY <1>0, <1>4, <2>1, FitsAcquire
  <2> QED BY <1>4, <2>2
<1>6. <<Acquire(tickslock), Acquire(ptable), Do("wakeup1"), Release(ptable),
        Release(tickslock)>> \o s = u5
  <2>1. /\ s \in Seq(Steps) /\ Acquire(ptable) \in Steps /\ Do("wakeup1") \in Steps
        /\ Release(ptable) \in Steps /\ Acquire(tickslock) \in Steps /\ Release(tickslock) \in Steps
    BY <1>0, Written2 DEF Fits, Operations
  <2> QED BY <2>1, Pushed5, SMTT(30) DEF u1, u2, u3, u4
<1> QED BY <1>1, <1>2, <1>3, <1>4, <1>5, <1>6 DEF EndsLike

LEMMA FitsHandler ==
  ASSUME NEW c \in CPUs, NEW s \in Seq(Steps), Fits(thread[c], s), Held(s) = {},
         thread[c] \in Pids => ~Has(s, "iret")
  PROVE  LET u == Handler(c) \o s
         IN /\ Fits(thread[c], u) /\ Held(u) = {}
            /\ Has(u, "iret") /\ (Has(u, "trapret") <=> Has(s, "trapret"))
<1> DEFINE t == thread[c]
           u1 == Push(Do("iret"), s)
           u2 == Yield \o u1
           v == IF t \in Pids THEN u2 ELSE u1
           ticks == <<Acquire(tickslock), Acquire(ptable), Do("wakeup1"), Release(ptable),
                      Release(tickslock)>>
           u3 == ticks \o v
           w == IF c = 0 THEN u3 ELSE v
<1>1. Fits(t, u1) /\ Held(u1) = {} /\ Has(u1, "iret") /\ (Has(u1, "trapret") <=> Has(s, "trapret"))
  <2>1. "iret" \in Operations /\ Do("iret")[1] = "iret"
    BY DEF Operations, Do
  <2>2. SwitchesUnderLock(Do("iret"), s) /\ StepOfThread(t, Do("iret"), s)
    BY <2>1 DEF SwitchesUnderLock, StepOfThread, Fits
  <2> QED BY <2>1, <2>2, FitsDo
<1> HIDE DEF u1
<1>2. t \in Pids => Fits(t, u2) /\ Held(u2) = {} /\ EndsLike(u2, u1)
  BY <1>1, FitsYield
<1> HIDE DEF u2
<1>3. Fits(t, v) /\ Held(v) = {} /\ EndsLike(v, u1)
  <2>1. CASE t \in Pids
    BY <1>2, <2>1
  <2>2. CASE t \notin Pids
    BY <1>1, <2>2 DEF EndsLike
  <2> QED BY <2>1, <2>2
<1> HIDE DEF v
<1>4. Fits(t, u3) /\ Held(u3) = {} /\ EndsLike(u3, v)
  BY <1>3, FitsTick
<1> HIDE DEF u3
<1>5. Fits(t, w) /\ Held(w) = {} /\ EndsLike(w, v)
  <2>1. CASE c = 0
    BY <1>4, <2>1
  <2>2. CASE c # 0
    BY <1>3, <2>2 DEF EndsLike
  <2> QED BY <2>1, <2>2
<1>6. Handler(c) \o s = w
  <2>1. /\ Acquire(ptable) \in Steps /\ Do("wakeup1") \in Steps /\ Do("sched") \in Steps
        /\ Release(ptable) \in Steps /\ Acquire(tickslock) \in Steps /\ Release(tickslock) \in Steps
        /\ Do("runnable") \in Steps /\ Do("iret") \in Steps
    BY LockFacts, Written2 DEF Operations
  <2>2. PICK a \in Seq(Steps) : a = IF c = 0 THEN ticks ELSE <<>>
    <3>1. ticks \in Seq(Steps) /\ <<>> \in Seq(Steps)
      BY <2>1, EmptySeq
    <3> QED BY <3>1
  <2>3. PICK b \in Seq(Steps) : b = IF t \in Pids THEN Yield ELSE <<>>
    <3>1. Yield \in Seq(Steps)
      BY <2>1 DEF Yield
    <3> QED BY <3>1, EmptySeq
  <2>8. ASSUME NEW z \in Seq(Steps)
        PROVE  (a \o b) \o z = a \o (b \o z)
    BY CodeConcat, SMTT(30)
  <2>4. PICK i \in Seq(Steps) : i = <<Do("iret")>>
    <3>1. <<Do("iret")>> \in Seq(Steps)
      BY <2>1
    <3> QED BY <3>1
  <2>5. PICK r \in Seq(Steps) : r = i \o s
    BY CodeConcat
  <2>6. PICK ab \in Seq(Steps) : ab = a \o b
    BY CodeConcat
  <2>7. (ab \o i) \o s = ab \o r
    BY <2>5, CodeConcat, SMTT(60)
  <2>9. r = u1
    <3>1. <<Do("iret")>> \o s = Push(Do("iret"), s)
      BY <2>1, Pushed1
    <3> QED BY <2>4, <2>5, <3>1 DEF u1
  <2>10. b \o r = v
    <3>1. CASE t \in Pids
      BY <2>3, <2>9, <3>1 DEF v, u2
    <3>2. CASE t \notin Pids
      <4>1. <<>> \o r = r
        BY PushConcat
      <4> QED BY <2>3, <2>9, <3>2, <4>1 DEF v
    <3> QED BY <3>1, <3>2
  <2>11. a \o v = w
    <3>1. CASE c = 0
      BY <2>2, <3>1 DEF u3
    <3>2. CASE c # 0
      <4>1. <<>> \o v = v
        BY <1>3, PushConcat DEF Fits
      <4> QED BY <2>2, <3>2, <4>1
    <3> QED BY <3>1, <3>2
  <2>12. Handler(c) = (a \o b) \o i
    BY <2>2, <2>3, <2>4 DEF Handler
  <2> HIDE DEF w, ticks, t
  <2>13. (a \o b) \o r = w
    BY <2>8, <2>10, <2>11
  <2>14. ((a \o b) \o i) \o s = w
    BY <2>6, <2>7, <2>13
  <2> QED BY <2>12, <2>14
<1> HIDE DEF w
<1>7. Fits(thread[c], w) /\ Held(w) = {} /\ Has(w, "iret") /\ (Has(w, "trapret") <=> Has(s, "trapret"))
  BY <1>1, <1>3, <1>5 DEF EndsLike
<1> QED BY <1>6, <1>7

LEMMA Written3 ==
  ASSUME NEW a \in Steps, NEW b \in Steps, NEW c \in Steps
  PROVE  <<a, b, c>> = Push(a, <<b, c>>)
BY Written

LEMMA Written4 ==
  ASSUME NEW a \in Steps, NEW b \in Steps, NEW c \in Steps, NEW d \in Steps
  PROVE  <<a, b, c, d>> = Push(a, <<b, c, d>>)
BY Written

\* A thread with nothing to do in the kernel.
LEMMA FitsNothing ==
  ASSUME NEW t
  PROVE  Fits(t, <<>>) /\ Held(<<>>) = {}
BY NoCode DEF Fits, Resuming

\* A turn of the scheduler starts outside of every lock.
LEMMA FitsTurn ==
  ASSUME NEW c \in CPUs, NEW t \in Schedulers, t \notin Pids, NEW steps \in Turns(c)
  PROVE  Fits(t, steps) /\ Held(steps) = {}
<1>0. /\ ptable \in Locks /\ Rank(ptable) = 1 /\ rqlock(c) \in Locks /\ Rank(rqlock(c)) = 2
      /\ rqlock(c) # ptable
  BY LockFacts
<1> DEFINE l == rqlock(c)
<1>1. /\ Acquire(ptable) \in Steps /\ Release(ptable) \in Steps
      /\ Acquire(l) \in Steps /\ Release(l) \in Steps
      /\ Do("cli") \in Steps /\ Do("sti") \in Steps /\ Do("walk") \in Steps /\ Do("rq_select") \in Steps
  BY <1>0, Written2 DEF Operations
<1>2. CASE kernel = "lottery"
  <2> DEFINE u1 == Push(Release(l), <<>>)
             u2 == Push(Do("rq_select"), u1)
             u3 == Push(Acquire(l), u2)
             d1 == Push(Release(ptable), u3)
             d2 == Push(Acquire(ptable), d1)
  <2>1. Fits(t, u1) /\ Held(u1) = {l}
    <3>1. Fits(t, <<>>) /\ Held(<<>>) = {}
      BY FitsNothing
    <3>2. Fits(t, u1) /\ Held(u1) = Held(<<>>) \cup {l}
      BY <1>0, <3>1, FitsRelease
    <3> QED BY <3>1, <3>2
  <2>2. u1 = <<Release(rqlock(c))>> /\ Do("rq_select")[1] = "rq_select"
    BY <1>1, Written DEF Do
  <2> HIDE DEF u1
  <2>3. Fits(t, u2) /\ Held(u2) = {l}
    <3>1. "rq_select" \in Operations /\ Do("rq_select")[1] = "rq_select"
      BY DEF Operations, Do
    <3>2. SwitchesUnderLock(Do("rq_select"), u1) /\ StepOfThread(t, Do("rq_select"), u1)
      <4>1. \E d \in CPUs : u1 = <<Release(rqlock(d))>>
        BY <2>2
      <4> QED BY <2>1, <3>1, <4>1 DEF SwitchesUnderLock, StepOfThread, Fits
    <3> QED BY <2>1, <3>1, <3>2, FitsPlain
  <2> HIDE DEF u2
  <2>4. Fits(t, u3) /\ Held(u3) = {}
    <3>1. Fits(t, u3) /\ Held(u3) = Held(u2) \ {l}
      BY <1>0, <2>3, FitsAcquire
    <3> QED BY <2>3, <3>1
  <2> HIDE DEF u3
  <2>5. Fits(t, d1) /\ Held(d1) = {ptable} /\ ~Parks(d1)
    <3>1. Fits(t, d1) /\ Held(d1) = Held(u3) \cup {ptable} /\ (Parks(d1) <=> Parks(u3))
      BY <1>0, <2>4, FitsRelease
    <3> QED BY <2>4, <3>1 DEF Fits
  <2> HIDE DEF d1
  <2>6. Fits(t, d2) /\ Held(d2) = {}
    <3>1. Fits(t, d2) /\ Held(d2) = Held(d1) \ {ptable}
      BY <1>0, <2>5, FitsAcquire
    <3> QED BY <2>5, <3>1
  <2> HIDE DEF d2
  <2>7. ASSUME NEW s, Fits(t, s), Held(s) = {}
        PROVE  Fits(t, Push(Do("cli"), s)) /\ Held(Push(Do("cli"), s)) = {}
    <3>1. "cli" \in Operations /\ Do("cli")[1] = "cli"
      BY DEF Operations, Do
    <3>2. SwitchesUnderLock(Do("cli"), s) /\ StepOfThread(t, Do("cli"), s)
      BY <2>7, <3>1 DEF SwitchesUnderLock, StepOfThread, Fits
    <3> QED BY <2>7, <3>1, <3>2, FitsPlain
  <2>8. u3 = <<Acquire(l), Do("rq_select"), Release(l)>>
    BY <1>1, Written, SMTT(30) DEF u1, u2, u3
  <2>9. <<Do("cli")>> \o <<>> \o u3 = Push(Do("cli"), u3)
    <3>1. <<Do("cli")>> \in Seq(Steps)
      BY <1>1
    <3>2. <<Do("cli")>> \o <<>> = <<Do("cli")>>
      BY <3>1, ConcatEmptySeq
    <3> QED BY <3>2 DEF Push
  <2>10. <<Do("cli")>> \o <<Acquire(ptable), Release(ptable)>> \o u3 = Push(Do("cli"), d2)
    <3>1. <<Acquire(ptable), Release(ptable)>> \in Seq(Steps) /\ u3 \in Seq(Steps)
      BY <1>1, <2>4 DEF Fits
    <3>2. <<Do("cli")>> \o <<Acquire(ptable), Release(ptable)>>
            = Push(Do("cli"), <<Acquire(ptable), Release(ptable)>>)
      BY DEF Push
    <3>3. Push(Do("cli"), <<Acquire(ptable), Release(ptable)>>) \o u3
            = Push(Do("cli"), <<Acquire(ptable), Release(ptable)>> \o u3)
      BY <1>1, <3>1, PushConcat, ZenonT(60)
    <3>4. <<Acquire(ptable), Release(ptable)>> \o u3 = d2
      BY <1>1, <3>1, Pushed2 DEF d1, d2
    <3> QED BY <3>2, <3>3, <3>4
  <2>11. steps = Push(Do("cli"), u3) \/ steps = Push(Do("cli"), d2)
    <3>1. \E decay \in {<<>>, <<Acquire(ptable), Release(ptable)>>} :
            steps = <<Do("cli")>> \o decay \o u3
      BY <1>2, <2>8 DEF Turns
    <3> QED BY <2>9, <2>10, <3>1
  <2> QED BY <2>4, <2>6, <2>7, <2>11
<1>3. CASE kernel # "lottery"
  <2> DEFINE u1 == Push(Release(ptable), <<>>)
             u2 == Push(Do("walk"), u1)
             u3 == Push(Acquire(ptable), u2)
             u4 == Push(Do("sti"), u3)
  <2>1. Fits(t, u1) /\ Held(u1) = {ptable} /\ ~Parks(u1)
    <3>1. Fits(t, <<>>) /\ Held(<<>>) = {} /\ ~Parks(<<>>)
      BY FitsNothing, NoCode
    <3>2. Fits(t, u1) /\ Held(u1) = Held(<<>>) \cup {ptable} /\ (Parks(u1) <=> Parks(<<>>))
      BY <1>0, <3>1, FitsRelease
    <3> QED BY <3>1, <3>2
  <2> HIDE DEF u1
  <2>2. Fits(t, u2) /\ Held(u2) = {ptable} /\ ~Parks(u2)
    <3>1. "walk" \in Operations /\ Do("walk")[1] = "walk"
      BY DEF Operations, Do
    <3>2. SwitchesUnderLock(Do("walk"), u1) /\ StepOfThread(t, Do("walk"), u1)
      BY <2>1, <3>1 DEF SwitchesUnderLock, StepOfThread, Fits
    <3> QED BY <2>1, <3>1, <3>2, FitsPlain
  <2> HIDE DEF u2
  <2>3. Fits(t, u3) /\ Held(u3) = {}
    <3>1. Fits(t, u3) /\ Held(u3) = Held(u2) \ {ptable}
      BY <1>0, <2>2, FitsAcquire
    <3> QED BY <2>2, <3>1
  <2> HIDE DEF u3
  <2>4. Fits(t, u4) /\ Held(u4) = {}
    <3>1. "sti" \in Operations /\ Do("sti")[1] = "sti"
      BY DEF Operations, Do
    <3>2. SwitchesUnderLock(Do("sti"), u3) /\ StepOfThread(t, Do("sti"), u3)
      BY <2>3, <3>1 DEF SwitchesUnderLock, StepOfThread, Fits
    <3> QED BY <2>3, <3>1, <3>2, FitsPlain
  <2>5. steps = u4
    <3>1. steps = <<Do("sti"), Acquire(ptable), Do("walk"), Release(ptable)>>
      BY <1>3 DEF Turns
    <3>2. u2 = <<Do("walk"), Release(ptable)>>
      BY <1>1, Written DEF u1, u2
    <3>3. u3 = <<Acquire(ptable), Do("walk"), Release(ptable)>>
      BY <1>1, <3>2, Written3 DEF u3
    <3>4. u4 = <<Do("sti"), Acquire(ptable), Do("walk"), Release(ptable)>>
      BY <1>1, <3>3, Written4
    <3> QED BY <3>1, <3>4
  <2> QED BY <2>4, <2>5
<1> QED BY <1>2, <1>3

\* rq_select() under the lock of a queue, whatever it finds.
LEMMA FitsFound ==
  ASSUME NEW c \in CPUs, NEW d \in CPUs, NEW t \in Schedulers, t \notin Pids
  PROVE  LET u == <<Release(rqlock(d))>> \o (IF Runnable(c) = {} THEN Idle ELSE RunSelected(c))
         IN Fits(t, u) /\ Held(u) = {rqlock(d)} /\ ~Parks(u)
<1>0. /\ ptable \in Locks /\ Rank(ptable) = 1 /\ rqlock(d) \in Locks /\ Rank(rqlock(d)) = 2
      /\ rqlock(d) # ptable
  BY LockFacts
<1>1. /\ Acquire(ptable) \in Steps /\ Release(ptable) \in Steps /\ Release(rqlock(d)) \in Steps
      /\ Do("swtch") \in Steps /\ Do("sti") \in Steps
  BY <1>0, Written2 DEF Operations
<1> DEFINE u1 == Push(Do("sti"), <<>>)
           u2 == Push(Release(ptable), u1)
<1>2. Fits(t, u1) /\ Held(u1) = {}
  <2>1. "sti" \in Operations /\ Do("sti")[1] = "sti"
    BY DEF Operations, Do
  <2>2. Fits(t, <<>>) /\ Held(<<>>) = {}
    BY FitsNothing
  <2>3. SwitchesUnderLock(Do("sti"), <<>>) /\ StepOfThread(t, Do("sti"), <<>>)
    BY <2>1, <2>2 DEF SwitchesUnderLock, StepOfThread, Fits
  <2> QED BY <2>1, <2>2, <2>3, FitsPlain
<1> HIDE DEF u1
<1>3. Fits(t, u2) /\ Held(u2) = {ptable} /\ ~Parks(u2) /\ u2 # <<>> /\ Head(u2)[1] = "release"
  <2>1. Fits(t, u2) /\ Held(u2) = Held(u1) \cup {ptable} /\ (Parks(u2) <=> Parks(u1))
    BY <1>0, <1>2, FitsRelease
  <2>2. u2 # <<>> /\ Head(u2) = Release(ptable)
    BY <1>1, <1>2, PushFacts DEF Fits
  <2>3. Release(ptable)[1] = "release"
    BY DEF Release
  <2> QED BY <1>2, <2>1, <2>2, <2>3 DEF Fits
<1> HIDE DEF u2
<1>4. ASSUME NEW s, Fits(t, s), Held(s) = {ptable}, ~Parks(s)
      PROVE  LET u == Push(Release(rqlock(d)), Push(Acquire(ptable), s))
             IN Fits(t, u) /\ Held(u) = {rqlock(d)} /\ ~Parks(u)
  <2> DEFINE v1 == Push(Acquire(ptable), s)
             v2 == Push(Release(rqlock(d)), v1)
  <2>1. Fits(t, v1) /\ Held(v1) = {} /\ ~Parks(v1)
    <3>1. Fits(t, v1) /\ Held(v1) = Held(s) \ {ptable} /\ (Parks(v1) <=> Parks(s))
      BY <1>0, <1>4, FitsAcquire
    <3> QED BY <1>4, <3>1
  <2> HIDE DEF v1
  <2>2. Fits(t, v2) /\ Held(v2) = Held(v1) \cup {rqlock(d)} /\ (Parks(v2) <=> Parks(v1))
    BY <1>0, <2>1, FitsRelease
  <2> QED BY <2>1, <2>2 DEF v1
<1>5. ASSUME NEW s \in Seq(Steps)
      PROVE  <<Release(rqlock(d))>> \o (<<Acquire(ptable)>> \o s)
               = Push(Release(rqlock(d)), Push(Acquire(ptable), s))
  <2>1. <<Acquire(ptable)>> \o s = Push(Acquire(ptable), s)
    BY <1>1, Pushed1
  <2> QED BY <2>1 DEF Push
<1>6. CASE Runnable(c) = {}
  <2>1. Idle = <<Acquire(ptable)>> \o u2
    <3>1. u2 = <<Release(ptable), Do("sti")>>
      BY <1>1, Written DEF u1, u2
    <3> QED BY <3>1 DEF Idle
  <2> QED BY <1>3, <1>4, <1>5, <1>6, <2>1 DEF Fits
<1>7. CASE Runnable(c) # {}
  <2> DEFINE u3 == Push(Do("swtch"), u2)
             u4 == RunQueue(c) \o u3
  <2>1. Fits(t, u3) /\ Held(u3) = {ptable} /\ ~Parks(u3)
    <3>1. "swtch" \in Operations /\ Do("swtch")[1] = "swtch"
      BY DEF Operations, Do
    <3>2. SwitchesUnderLock(Do("swtch"), u2) /\ StepOfThread(t, Do("swtch"), u2)
      BY <1>3, <3>1 DEF SwitchesUnderLock, StepOfThread, Fits
    <3> QED BY <1>3, <3>1, <3>2, FitsPlain
  <2>2. u3 = <<Do("swtch"), Release(ptable), Do("sti")>>
    BY <1>1, Written DEF u1, u2
  <2> HIDE DEF u3
  <2>3. Fits(t, u4) /\ Held(u4) = {ptable} /\ ~Parks(u4)
    <3>1. \A m \in Held(u3) : Rank(m) < 2
      BY <1>0, <2>1
    <3> QED BY <2>1, <3>1, FitsRunQueue
  <2>4. RunSelected(c) = <<Acquire(ptable)>> \o u4
    <3>1. PICK q \in Seq(Steps) : q = RunQueue(c)
      <4>1. rqlock(c) \in Locks
        BY LockFacts
      <4>2. Acquire(rqlock(c)) \in Steps /\ Release(rqlock(c)) \in Steps
        BY <4>1, Written2
      <4>3. <<Acquire(rqlock(c)), Release(rqlock(c))>> \in Seq(Steps) /\ <<>> \in Seq(Steps)
        BY <4>2, EmptySeq
      <4> QED BY <4>3 DEF RunQueue
    <3>2. PICK a \in Seq(Steps) : a = <<Acquire(ptable)>>
      <4>1. <<Acquire(ptable)>> \in Seq(Steps)
        BY <1>1
      <4> QED BY <4>1
    <3>3. (a \o q) \o u3 = a \o (q \o u3)
      BY <2>1, CodeConcat DEF Fits
    <3> QED BY <2>2, <3>1, <3>2, <3>3 DEF RunSelected
  <2> QED BY <1>4, <1>5, <1>7, <2>3, <2>4 DEF Fits
<1> QED BY <1>6, <1>7

\* sched() goes to the scheduler, in the lottery kernel after it has queued the process.
LEMMA FitsLeave ==
  ASSUME NEW t \in Pids, NEW s, Fits(t, s), Held(s) = {ptable}, ~Parks(s)
  PROVE  LET u == Push(Do("leave"), Push(Do("resume"), s))
         IN Fits(t, u) /\ Held(u) = {ptable} /\ Parks(u) /\ EndsLike(u, s)
<1> DEFINE x == Do("resume")
           y == Do("leave")
           u1 == Push(x, s)
           u2 == Push(y, u1)
<1>1. /\ x \in Steps /\ x[1] = "resume" /\ y \in Steps /\ y[1] = "leave"
      /\ s \in Seq(Steps) /\ u1 \in Seq(Steps) /\ Head(u1) = x /\ u1 # <<>>
  BY Written2, PushFacts DEF Fits, Operations
<1>2. u2 \in Seq(Steps) /\ Head(u2) = y
  BY <1>1, PushFacts
<1>3. \A m \in Locks : /\ x # Release(m) /\ x # <<"xchg", m>> /\ x # <<"own", m>> /\ x # Acquire(m)
                       /\ y # Release(m) /\ y # <<"xchg", m>> /\ y # <<"own", m>> /\ y # Acquire(m)
  BY DEF Acquire, Release, Do
<1>4. ptable \in Locks
  BY LockFacts
<1> HIDE DEF x, y
<1>5. Held(u1) = {ptable} /\ ~Parks(u1) /\ EndsLike(u1, s)
  <2>1. \A m \in Locks : m \in Held(u1) <=> m \in Held(s)
    BY <1>1, <1>3, HeldPush
  <2>2. Held(u1) \subseteq Locks /\ Held(s) \subseteq Locks
    BY DEF Held
  <2>3. ~Parks(u1)
    BY <1>1, <1>3, <1>4, ParksPush
  <2>4. EndsLike(u1, s)
    BY <1>1, HasPush DEF EndsLike
  <2> HIDE DEF u1
  <2> QED BY <2>1, <2>2, <2>3, <2>4
<1>6. Disciplined(t, u1) /\ Pending(u1, {"xchg", "own", "unlock"}) = {} /\ Resuming(u1)
  <2>1. Legal(t, x, s)
    BY <1>1 DEF Legal, Fits, TakesInOrder, SwitchesUnderLock, StepOfThread
  <2> QED BY <1>1, <2>1, DisciplinedPush DEF Pending, Resuming, Fits
<1> HIDE DEF u1
<1>7. Held(u2) = {ptable} /\ Parks(u2) /\ EndsLike(u2, u1)
  <2>1. \A m \in Locks : m \in Held(u2) <=> m \in Held(u1)
    BY <1>1, <1>3, HeldPush
  <2>2. Held(u2) \subseteq Locks /\ Held(u1) \subseteq Locks
    BY DEF Held
  <2>3. Parks(u2)
    BY <1>1, ParksPush
  <2>4. EndsLike(u2, u1)
    BY <1>1, HasPush DEF EndsLike
  <2> HIDE DEF u2
  <2> QED BY <1>5, <2>1, <2>2, <2>3, <2>4
<1>8. Disciplined(t, u2) /\ Pending(u2, {"xchg", "own", "unlock"}) = {} /\ ~Resuming(u2)
  <2>1. Legal(t, y, u1)
    BY <1>1, <1>5, <1>6 DEF Legal, TakesInOrder, SwitchesUnderLock, StepOfThread
  <2> QED BY <1>1, <1>2, <1>6, <2>1, DisciplinedPush DEF Pending, Resuming
<1> QED BY <1>2, <1>5, <1>7, <1>8 DEF Fits, EndsLike, x, y, u1

LEMMA FitsSwitch ==
  ASSUME NEW t \in Pids, NEW s \in Seq(Steps), NEW d \in CPUs, Fits(t, s), Held(s) = {ptable},
         ~Parks(s), NEW b \in BOOLEAN
  PROVE  LET u == (IF b THEN RunQueue(d) ELSE <<>>) \o <<Do("leave"), Do("resume")>> \o s
         IN Fits(t, u) /\ Held(u) = {ptable} /\ Parks(u) /\ EndsLike(u, s)
<1> DEFINE u1 == Push(Do("leave"), Push(Do("resume"), s))
           q == IF b THEN RunQueue(d) ELSE <<>>
           u2 == q \o u1
<1>1. Fits(t, u1) /\ Held(u1) = {ptable} /\ Parks(u1) /\ EndsLike(u1, s)
  BY FitsLeave
<1>2. u1 = <<Do("leave"), Do("resume")>> \o s
  <2>1. Do("leave") \in Steps /\ Do("resume") \in Steps
    BY Written2 DEF Operations
  <2> QED BY <2>1, Pushed2
<1> HIDE DEF u1
<1>3. q \in Seq(Steps) /\ <<Do("leave"), Do("resume")>> \in Seq(Steps)
  <2>1. rqlock(d) \in Locks
    BY LockFacts
  <2>2. Acquire(rqlock(d)) \in Steps /\ Release(rqlock(d)) \in Steps
        /\ Do("leave") \in Steps /\ Do("resume") \in Steps
    BY <2>1, Written2 DEF Operations
  <2>3. <<Acquire(rqlock(d)), Release(rqlock(d))>> \in Seq(Steps) /\ <<>> \in Seq(Steps)
        /\ <<Do("leave"), Do("resume")>> \in Seq(Steps)
    BY <2>2, EmptySeq
  <2> QED BY <2>3 DEF RunQueue
<1>4. Fits(t, u2) /\ Held(u2) = {ptable} /\ Parks(u2) /\ EndsLike(u2, u1)
  <2>1. CASE b
    <3>1. \A m \in Held(u1) : Rank(m) < 2
      BY <1>1, LockFacts
    <3>2. LET u == RunQueue(d) \o u1
          IN Fits(t, u) /\ Held(u) = Held(u1) /\ (Parks(u) <=> Parks(u1)) /\ EndsLike(u, u1)
      BY <1>1, <3>1, FitsRunQueue
    <3> QED BY <1>1, <2>1, <3>2
  <2>2. CASE ~b
    <3>1. <<>> \o u1 = u1
      BY <1>1, PushConcat DEF Fits
    <3> QED BY <1>1, <2>2, <3>1 DEF EndsLike
  <2> QED BY <2>1, <2>2
<1>5. (q \o <<Do("leave"), Do("resume")>>) \o s = q \o u1
  <2> HIDE DEF q
  <2>1. PICK k \in Seq(Steps) : k = <<Do("leave"), Do("resume")>>
    BY <1>3
  <2>2. PICK z \in Seq(Steps) : z = q
    BY <1>3
  <2>3. (z \o k) \o s = z \o (k \o s)
    BY CodeConcat
  <2> QED BY <1>2, <2>1, <2>2, <2>3
<1> HIDE DEF u2
<1> QED BY <1>1, <1>4, <1>5 DEF EndsLike, u2

LEMMA FitsSysSleep ==
  ASSUME NEW t \in Pids
  PROVE  Fits(t, sys_sleep) /\ Held(sys_sleep) = {} /\ EndsLike(sys_sleep, <<>>)
<1> DEFINE u1 == Push(Release(tickslock), <<>>)
           u2 == Push(Do("test"), u1)
           u3 == Push(Acquire(tickslock), u2)
<1>0. tickslock \in Locks
  BY LockFacts
<1>1. Fits(t, u1) /\ Held(u1) = {tickslock} /\ ~Parks(u1) /\ EndsLike(u1, <<>>)
  <2>1. Fits(t, <<>>) /\ Held(<<>>) = {} /\ ~Parks(<<>>)
    BY FitsNothing, NoCode
  <2>2. Fits(t, u1) /\ Held(u1) = Held(<<>>) \cup {tickslock} /\ (Parks(u1) <=> Parks(<<>>))
        /\ EndsLike(u1, <<>>)
    BY <1>0, <2>1, FitsRelease
  <2> QED BY <2>1, <2>2
<1> HIDE DEF u1
<1>2. Fits(t, u2) /\ Held(u2) = {tickslock} /\ EndsLike(u2, u1)
  <2>1. "test" \in Operations /\ Do("test")[1] = "test"
    BY DEF Operations, Do
  <2>2. SwitchesUnderLock(Do("test"), u1) /\ StepOfThread(t, Do("test"), u1)
    BY <1>1, <2>1 DEF SwitchesUnderLock, StepOfThread, Fits
  <2> QED BY <1>1, <2>1, <2>2, FitsPlain
<1> HIDE DEF u2
<1>3. Fits(t, u3) /\ Held(u3) = {} /\ EndsLike(u3, u2)
  <2>1. tickslock # ptable
    BY LockFacts
  <2>2. Fits(t, u3) /\ Held(u3) = Held(u2) \ {tickslock} /\ EndsLike(u3, u2)
    BY <1>0, <1>2, <2>1, FitsAcquire
  <2> QED BY <1>2, <2>2
<1>4. sys_sleep = u3
  <2>1. Acquire(tickslock) \in Steps /\ Do("test") \in Steps /\ Release(tickslock) \in Steps
    BY <1>0, Written2 DEF Operations
  <2>2. u2 = <<Do("test"), Release(tickslock)>>
    BY <2>1, Written DEF u1, u2
  <2> QED BY <2>1, <2>2, Written3 DEF sys_sleep
<1> QED BY <1>1, <1>2, <1>3, <1>4 DEF EndsLike

\* sys_sleep() sleeps and tests again.
LEMMA FitsTest ==
  ASSUME NEW t \in Pids, NEW s \in Seq(Steps), NEW d \in CPUs, Fits(t, s), Held(s) = {tickslock},
         ~Parks(s)
  PROVE  LET u == (Sleep(d) \o <<Do("test")>>) \o s
         IN Fits(t, u) /\ Held(u) = {tickslock} /\ ~Parks(u) /\ EndsLike(u, s)
<1> DEFINE u1 == Push(Do("test"), s)
           u2 == Sleep(d) \o u1
<1>1. Fits(t, u1) /\ Held(u1) = {tickslock} /\ ~Parks(u1) /\ EndsLike(u1, s)
  <2>1. "test" \in Operations /\ Do("test")[1] = "test"
    BY DEF Operations, Do
  <2>2. SwitchesUnderLock(Do("test"), s) /\ StepOfThread(t, Do("test"), s)
    BY <2>1 DEF SwitchesUnderLock, StepOfThread, Fits
  <2> QED BY <2>1, <2>2, FitsPlain
<1>2. Sleep(d) \in Seq(Steps) /\ <<Do("test")>> \in Seq(Steps)
  <2>1. rqlock(d) \in Locks
    BY LockFacts
  <2>2. /\ Acquire(rqlock(d)) \in Steps /\ Release(rqlock(d)) \in Steps
        /\ Acquire(ptable) \in Steps /\ Release(ptable) \in Steps /\ Do("test") \in Steps
        /\ Acquire(tickslock) \in Steps /\ Release(tickslock) \in Steps
        /\ Do("asleep") \in Steps /\ Do("sched") \in Steps
    BY <2>1, LockFacts, Written2 DEF Operations
  <2>3. /\ <<Acquire(rqlock(d)), Release(rqlock(d))>> \in Seq(Steps) /\ <<>> \in Seq(Steps)
        /\ <<Acquire(ptable), Release(tickslock), Do("asleep")>> \in Seq(Steps)
        /\ <<Do("sched"), Release(ptable), Acquire(tickslock)>> \in Seq(Steps)
        /\ <<Do("test")>> \in Seq(Steps)
    BY <2>2, EmptySeq
  <2>4. RunQueue(d) \in Seq(Steps)
    BY <2>3 DEF RunQueue
  <2> QED BY <2>3, <2>4, ConcatProperties DEF Sleep
<1>3. u1 = <<Do("test")>> \o s
  BY DEF Push
<1> HIDE DEF u1
<1>4. Fits(t, u2) /\ Held(u2) = {tickslock} /\ ~Parks(u2) /\ EndsLike(u2, u1)
  BY <1>1, FitsSleep DEF Fits
<1>5. (Sleep(d) \o <<Do("test")>>) \o s = u2
  <2>1. PICK k \in Seq(Steps) : k = <<Do("test")>>
    BY <1>2
  <2>2. PICK z \in Seq(Steps) : z = Sleep(d)
    BY <1>2
  <2>3. (z \o k) \o s = z \o (k \o s)
    BY CodeConcat
  <2> QED BY <1>3, <2>1, <2>2, <2>3
<1> HIDE DEF u2
<1> QED BY <1>1, <1>4, <1>5 DEF EndsLike

\* wakeup1() queues a process and looks for the next.
LEMMA FitsWakeup ==
  ASSUME NEW t, NEW s \in Seq(Steps), NEW d \in CPUs, Fits(t, s), Held(s) = {tickslock, ptable},
         ~Parks(s)
  PROVE  LET u == (RunQueue(d) \o <<Do("wakeup1")>>) \o s
         IN Fits(t, u) /\ Held(u) = {tickslock, ptable} /\ ~Parks(u) /\ EndsLike(u, s)
<1> DEFINE u1 == Push(Do("wakeup1"), s)
           u2 == RunQueue(d) \o u1
<1>1. Fits(t, u1) /\ Held(u1) = {tickslock, ptable} /\ ~Parks(u1) /\ EndsLike(u1, s)
  <2>1. "wakeup1" \in Operations /\ Do("wakeup1")[1] = "wakeup1"
    BY DEF Operations, Do
  <2>2. SwitchesUnderLock(Do("wakeup1"), s) /\ StepOfThread(t, Do("wakeup1"), s)
    BY <2>1 DEF SwitchesUnderLock, StepOfThread, Fits
  <2> QED BY <2>1, <2>2, FitsPlain
<1>2. RunQueue(d) \in Seq(Steps) /\ <<Do("wakeup1")>> \in Seq(Steps)
  <2>1. rqlock(d) \in Locks
    BY LockFacts
  <2>2. /\ Acquire(rqlock(d)) \in Steps /\ Release(rqlock(d)) \in Steps /\ Do("wakeup1") \in Steps
    BY <2>1, Written2 DEF Operations
  <2>3. /\ <<Acquire(rqlock(d)), Release(rqlock(d))>> \in Seq(Steps) /\ <<>> \in Seq(Steps)
        /\ <<Do("wakeup1")>> \in Seq(Steps)
    BY <2>2, EmptySeq
  <2> QED BY <2>3 DEF RunQueue
<1>3. u1 = <<Do("wakeup1")>> \o s
  BY DEF Push
<1> HIDE DEF u1
<1>4. Fits(t, u2) /\ Held(u2) = {tickslock, ptable} /\ ~Parks(u2) /\ EndsLike(u2, u1)
  <2>1. \A m \in Held(u1) : Rank(m) < 2
    BY <1>1, LockFacts
  <2> QED BY <1>1, <2>1, FitsRunQueue
<1>5. (RunQueue(d) \o <<Do("wakeup1")>>) \o s = u2
  <2>1. PICK k \in Seq(Steps) : k = <<Do("wakeup1")>>
    BY <1>2
  <2>2. PICK z \in Seq(Steps) : z = RunQueue(d)
    BY <1>2
  <2>3. (z \o k) \o s = z \o (k \o s)
    BY CodeConcat
  <2> QED BY <1>3, <2>1, <2>2, <2>3
<1> HIDE DEF u2
<1> QED BY <1>1, <1>4, <1>5 DEF EndsLike

-------------------------------------------------------------------------------
(* The locks that a thread is at. *)

\* A thread at a step that has nothing to do with locks.
LEMMA AtPlain ==
  ASSUME NEW s \in Seq(Steps), NEW x \in Steps,
         x[1] \notin {"acquire", "xchg", "own", "release", "unlock"}
  PROVE  LET o == Push(x, s)
         IN /\ Held(o) = Held(s) /\ Busy(o) = Held(s) /\ Nest(o) = Held(s)
            /\ Parks(o) <=> x[1] \in {"sched", "leave"}
                            \/ (x[1] \notin {"runnable", "asleep"} /\ Parks(s))
<1> DEFINE o == Push(x, s)
<1>1. \A m \in Locks : x # Release(m) /\ x # <<"xchg", m>> /\ x # <<"own", m>> /\ x # Acquire(m)
  BY DEF Acquire, Release
<1>2. Head(o) = x
  BY PushFacts
<1>3. Held(o) = Held(s)
  <2>1. \A m \in Locks : m \in Held(o) <=> m \in Held(s)
    BY <1>1, HeldPush
  <2>2. Held(o) \subseteq Locks /\ Held(s) \subseteq Locks
    BY DEF Held
  <2> QED BY <2>1, <2>2
<1>4. Parks(o) <=> x[1] \in {"sched", "leave"} \/ (x[1] \notin {"runnable", "asleep"} /\ Parks(s))
  <2>1. ptable \in Locks
    BY LockFacts
  <2> QED BY <1>1, <2>1, ParksPush
<1>5. Pending(o, {"own", "unlock"}) = {} /\ Pending(o, {"xchg", "own", "unlock"}) = {}
  BY <1>2 DEF Pending
<1> HIDE DEF o
<1>6. Busy(o) = Held(s) /\ Nest(o) = Held(s)
  BY <1>3, <1>5 DEF Busy, Nest
<1> QED BY <1>3, <1>4, <1>6 DEF o

\* A thread in the middle of acquire() or release().
LEMMA AtLock ==
  ASSUME NEW s \in Seq(Steps), NEW l \in Locks,
         NEW op \in {"acquire", "xchg", "own", "release", "unlock"}
  PROVE  LET o == Push(<<op, l>>, s)
         IN /\ Held(o) = IF op = "release" THEN Held(s) \cup {l}
                         ELSE IF op = "unlock" THEN Held(s) ELSE Held(s) \ {l}
            /\ Busy(o) = IF op \in {"acquire", "xchg"} THEN Held(s) \ {l} ELSE Held(s) \cup {l}
            /\ Nest(o) = IF op = "acquire" THEN Held(s) \ {l} ELSE Held(s) \cup {l}
            /\ op # "release" => (Parks(o) <=> Parks(s))
            /\ EndsLike(o, s) /\ ~Resuming(o) /\ o \in Seq(Steps)
<1> DEFINE x == <<op, l>>
           o == Push(x, s)
<1>1. x \in Steps /\ x[1] = op /\ x[2] = l
  BY StepFacts DEF Operations
<1>2. Head(o) = x /\ o # <<>> /\ o \in Seq(Steps)
  BY <1>1, PushFacts
<1>3. \A m \in Locks : /\ (x = Release(m)) <=> (op = "release" /\ m = l)
                       /\ (x = Acquire(m)) <=> (op = "acquire" /\ m = l)
                       /\ (x = <<"xchg", m>>) <=> (op = "xchg" /\ m = l)
                       /\ (x = <<"own", m>>) <=> (op = "own" /\ m = l)
  BY DEF Release, Acquire
<1>4. \A m \in Locks : m \in Held(o) <=>
        \/ op = "release" /\ m = l
        \/ ~(op \in {"acquire", "xchg", "own"} /\ m = l) /\ m \in Held(s)
  <2> TAKE m \in Locks
  <2>1. m \in Held(o) <=> \/ x = Release(m)
                          \/ x \notin {Acquire(m), <<"xchg", m>>, <<"own", m>>} /\ m \in Held(s)
    BY <1>1, HeldPush
  <2> QED BY <1>3, <2>1
<1>5. Held(o) \subseteq Locks /\ Held(s) \subseteq Locks
  BY DEF Held
<1>6. /\ Pending(o, {"own", "unlock"}) = IF op \in {"own", "unlock"} THEN {l} ELSE {}
      /\ Pending(o, {"xchg", "own", "unlock"}) = IF op \in {"xchg", "own", "unlock"} THEN {l} ELSE {}
  BY <1>1, <1>2 DEF Pending
<1>7. op # "release" => (Parks(o) <=> Parks(s))
  <2>1. op # "release" => x # Release(ptable)
    BY DEF Release
  <2> QED BY <1>1, <2>1, ParksPush
<1>8. EndsLike(o, s) /\ ~Resuming(o)
  BY <1>1, <1>2, HasPush DEF EndsLike, Resuming
<1> HIDE DEF o
<1>9. Held(o) = IF op = "release" THEN Held(s) \cup {l}
                ELSE IF op = "unlock" THEN Held(s) ELSE Held(s) \ {l}
  BY <1>4, <1>5
<1>10. /\ Busy(o) = IF op \in {"acquire", "xchg"} THEN Held(s) \ {l} ELSE Held(s) \cup {l}
       /\ Nest(o) = IF op = "acquire" THEN Held(s) \ {l} ELSE Held(s) \cup {l}
  BY <1>6, <1>9 DEF Busy, Nest
<1> QED BY <1>2, <1>7, <1>8, <1>9, <1>10 DEF o

\* In code that fits, only what it releases is taken.
LEMMA FitsLocks ==
  ASSUME NEW t, NEW s, Fits(t, s)
  PROVE  Busy(s) = Held(s) /\ Nest(s) = Held(s) /\ Held(s) \subseteq Locks
<1>1. Pending(s, {"own", "unlock"}) \subseteq Pending(s, {"xchg", "own", "unlock"})
  BY DEF Pending
<1> QED BY <1>1 DEF Busy, Nest, Held, Fits

\* Locks of different rank nest.
LEMMA DepthFacts ==
  /\ Depth({}) = 0 /\ Depth({ptable}) = 1
  /\ \A S \in SUBSET Locks : Depth(S) \in 0 .. 3 /\ (Depth(S) = 0 => S = {})
  /\ \A S \in SUBSET Locks, l \in Locks :
       (\A m \in S : Rank(m) # Rank(l)) => Depth(S \cup {l}) = Depth(S) + 1
<1>0. /\ ptable \in Locks /\ tickslock \in Locks /\ ptable # tickslock
      /\ \A c \in CPUs : rqlock(c) \in Locks /\ rqlock(c) # ptable /\ rqlock(c) # tickslock
      /\ \A l \in Locks : l \in {ptable, tickslock} \/ \E c \in CPUs : l = rqlock(c)
  <2>1. \A c \in CPUs : rqlock(c) # ptable /\ rqlock(c) # tickslock
    BY DEF ptable, tickslock, rqlock
  <2> QED BY <2>1, LockFacts DEF Locks
<1>1. Depth({}) = 0
  BY DEF Depth
<1>2. Depth({ptable}) = 1
  BY <1>0 DEF Depth
<1>3. ASSUME NEW S \in SUBSET Locks
      PROVE  Depth(S) \in 0 .. 3 /\ (Depth(S) = 0 => S = {})
  BY <1>0 DEF Depth
<1>4. ASSUME NEW S \in SUBSET Locks, NEW l \in Locks, \A m \in S : Rank(m) # Rank(l)
      PROVE  Depth(S \cup {l}) = Depth(S) + 1
  <2>1. CASE l = tickslock
    <3>1. tickslock \notin S
      BY <1>4, <2>1
    <3>2. \A c \in CPUs : rqlock(c) \in S \cup {l} <=> rqlock(c) \in S
      BY <1>0, <2>1
    <3>3. ptable \in S \cup {l} <=> ptable \in S
      BY <1>0, <2>1
    <3> QED BY <2>1, <3>1, <3>2, <3>3 DEF Depth
  <2>2. CASE l = ptable
    <3>1. ptable \notin S
      BY <1>4, <2>2
    <3>2. \A c \in CPUs : rqlock(c) \in S \cup {l} <=> rqlock(c) \in S
      BY <1>0, <2>2
    <3>3. tickslock \in S \cup {l} <=> tickslock \in S
      BY <1>0, <2>2
    <3> QED BY <2>2, <3>1, <3>2, <3>3 DEF Depth
  <2>3. CASE \E c \in CPUs : l = rqlock(c)
    <3>1. Rank(l) = 2 /\ \A c \in CPUs : Rank(rqlock(c)) = 2
      BY <2>3, LockFacts
    <3>2. ~ \E c \in CPUs : rqlock(c) \in S
      BY <1>4, <3>1
    <3>3. (tickslock \in S \cup {l} <=> tickslock \in S) /\ (ptable \in S \cup {l} <=> ptable \in S)
      BY <1>0, <2>3
    <3>4. \E c \in CPUs : rqlock(c) \in S \cup {l}
      BY <2>3
    <3> QED BY <3>2, <3>3, <3>4 DEF Depth
  <2> QED BY <1>0, <2>1, <2>2, <2>3
<1> QED BY <1>1, <1>2, <1>3, <1>4

-------------------------------------------------------------------------------
(* What a step of one CPU leaves of the invariant. *)

LEMMA ThreadFacts ==
  ASSUME LockAssumption
  PROVE  /\ \A c \in CPUs : c \in Nat /\ SchedulerOf(c) \in Schedulers /\ SchedulerOf(c) \in Threads
         /\ \A c, d \in CPUs : SchedulerOf(c) = SchedulerOf(d) => c = d
         /\ Pids \subseteq Threads /\ Schedulers \subseteq Threads
         /\ \A t \in Schedulers : t \notin Pids
         /\ NoCpu \notin CPUs
         /\ \A p \in Pids : Home(p) \in CPUs
<1>1. \A c \in CPUs : c \in Nat /\ SchedulerOf(c) \in Schedulers /\ SchedulerOf(c) \in Threads
  BY DEF CPUs, SchedulerOf, Schedulers, Threads, LockAssumption
<1>2. \A c, d \in CPUs : SchedulerOf(c) = SchedulerOf(d) => c = d
  BY DEF CPUs, SchedulerOf, LockAssumption
<1>3. \A t \in Schedulers : t \notin Pids
  BY DEF CPUs, Schedulers, Pids, LockAssumption
<1>4. NoCpu \notin CPUs /\ \A p \in Pids : Home(p) \in CPUs
  BY DEF CPUs, NoCpu, Home, Pids, LockAssumption
<1> QED BY <1>1, <1>2, <1>3, <1>4 DEF Threads

\* The step that a CPU is at, and the code behind it.
LEMMA StepAt ==
  ASSUME LockIInv, NEW c \in CPUs, NEW op \in Operations, At(c, op)
  PROVE  LET x == Head(code[thread[c]])
             r == Tail(code[thread[c]])
         IN /\ thread[c] \in Threads /\ x \in Steps /\ r \in Seq(Steps)
            /\ code[thread[c]] = Push(x, r)
            /\ x = <<op, Lock(c)>> /\ x[1] = op /\ x[2] = Lock(c)
            /\ Legal(thread[c], x, r) /\ Disciplined(thread[c], r)
            /\ op # "leave" => Fits(thread[c], r)
            /\ op \in {"acquire", "xchg", "own", "release", "unlock"} => Lock(c) \in Locks
<1> DEFINE x == Head(code[thread[c]])
           r == Tail(code[thread[c]])
<1>1. thread[c] \in Threads /\ code[thread[c]] \in Seq(Steps) /\ Disciplined(thread[c], code[thread[c]])
  BY DEF LockIInv, LockTypeOK, CodeIsDisciplined
<1>2. code[thread[c]] # <<>> /\ x[1] = op
  BY DEF At
<1>3. x \in Steps /\ r \in Seq(Steps) /\ code[thread[c]] = Push(x, r)
  BY <1>1, <1>2, SplitCode
<1>4. x = <<op, Lock(c)>> /\ x[2] = Lock(c)
  BY <1>2, <1>3, StepFacts DEF Lock
<1>5. Legal(thread[c], x, r) /\ Disciplined(thread[c], r)
  <2> HIDE DEF x, r
  <2> QED BY <1>1, <1>3, DisciplinedPush
<1> HIDE DEF x, r
<1>6. op # "leave" => Fits(thread[c], r)
  BY <1>2, <1>3, <1>5 DEF Fits, Legal, SwitchesUnderLock
<1>7. op \in {"acquire", "xchg", "own", "release", "unlock"} => Lock(c) \in Locks
  BY <1>2, <1>4, <1>5 DEF Legal, TakesInOrder, Held
<1> QED BY <1>1, <1>2, <1>3, <1>4, <1>5, <1>6, <1>7 DEF x, r

\* A CPU stays on its thread, which has u to do.
Replaces(c, u) == thread' = thread /\ code' = [code EXCEPT ![thread[c]] = u]

LEMMA CodeFrame ==
  ASSUME LockIInv, NEW c \in CPUs, NEW u, Replaces(c, u), u \in Seq(Steps),
         Disciplined(thread[c], u), Parks(u) => ptable \in Held(u)
  PROVE  /\ code' \in [Threads -> Seq(Steps)] /\ thread' \in [CPUs -> Threads]
         /\ CodeIsDisciplined' /\ ThreadsRunOnce' /\ SwitchedOut'
         /\ code'[thread'[c]] = u
         /\ \A d \in CPUs : d # c => thread'[d] # thread[c] /\ code'[thread'[d]] = code[thread[d]]
         /\ \A t \in Threads : t # thread[c] => code'[t] = code[t]
<1>1. code \in [Threads -> Seq(Steps)] /\ thread \in [CPUs -> Threads] /\ thread[c] \in Threads
  BY DEF LockIInv, LockTypeOK
<1>2. code' \in [Threads -> Seq(Steps)] /\ thread' \in [CPUs -> Threads]
  BY <1>1 DEF Replaces
<1>3. code'[thread'[c]] = u /\ \A t \in Threads : t # thread[c] => code'[t] = code[t]
  BY <1>1 DEF Replaces
<1>4. ThreadsRunOnce'
  BY DEF LockIInv, ThreadsRunOnce, Replaces
<1>5. \A d \in CPUs : d # c => thread'[d] # thread[c] /\ code'[thread'[d]] = code[thread[d]]
  BY <1>1, <1>3 DEF LockIInv, ThreadsRunOnce, Replaces
<1>6. CodeIsDisciplined'
  <2> SUFFICES ASSUME NEW t \in Threads
               PROVE  Disciplined(t, code'[t]) /\ (Parks(code'[t]) => ptable \in Held(code'[t]))
    BY DEF CodeIsDisciplined
  <2>1. CASE t = thread[c]
    BY <1>3, <2>1 DEF Replaces
  <2>2. CASE t # thread[c]
    BY <1>3, <2>2 DEF LockIInv, CodeIsDisciplined
  <2> QED BY <2>1, <2>2
<1>7. SwitchedOut'
  BY <1>3 DEF LockIInv, SwitchedOut, Replaces
<1> QED BY <1>2, <1>3, <1>4, <1>5, <1>6, <1>7

\* Nothing happens to the locks.
LEMMA LocksFrame ==
  ASSUME LockIInv, NEW c \in CPUs, NEW u, UNCHANGED lockVars,
         code'[thread'[c]] = u,
         \A d \in CPUs : d # c => code'[thread'[d]] = code[thread[d]],
         Held(u) = Held(code[thread[c]]), Busy(u) = Busy(code[thread[c]])
  PROVE  LocksMatchCode'
<1>1. \A d \in CPUs : /\ Held(code'[thread'[d]]) = Held(code[thread[d]])
                      /\ Busy(code'[thread'[d]]) = Busy(code[thread[d]])
  OBVIOUS
<1>2. LocksMatchCode
  BY DEF LockIInv
<1> QED BY <1>1, <1>2 DEF LocksMatchCode, lockVars

LEMMA CliFrame ==
  ASSUME LockIInv, NEW c \in CPUs, NEW u,
         code'[thread'[c]] = u,
         \A d \in CPUs : d # c => /\ code'[thread'[d]] = code[thread[d]]
                                  /\ ncli'[d] = ncli[d] /\ FL_IF'[d] = FL_IF[d],
         ncli'[c] = Depth(Nest(u)), ncli'[c] > 0 => ~FL_IF'[c]
  PROVE  CliNests' /\ \A d \in CPUs : ncli'[d] \in 0 .. 3
<1>1. CliNests'
  BY DEF LockIInv, CliNests
<1>2. ASSUME NEW d \in CPUs
      PROVE  ncli'[d] \in 0 .. 3
  <2>1. Nest(code'[thread'[d]]) \in SUBSET Locks
    BY DEF Nest, Held, Pending
  <2> QED BY <1>1, <2>1, DepthFacts DEF CliNests
<1> QED BY <1>1, <1>2

LEMMA StatesFrame ==
  ASSUME LockIInv, NEW c \in CPUs, NEW u, thread' = thread, state' = state,
         code'[thread'[c]] = u,
         \A d \in CPUs : d # c => code'[thread'[d]] = code[thread[d]],
         Parks(u) <=> Parks(code[thread[c]])
  PROVE  StatesMatchCode'
<1> SUFFICES ASSUME NEW d \in CPUs, thread[d] \in Pids
             PROVE  Parks(code'[thread[d]]) <=> state[thread[d]] # "RUNNING"
  BY DEF StatesMatchCode
<1>1. Parks(code[thread[d]]) <=> state[thread[d]] # "RUNNING"
  BY DEF LockIInv, StatesMatchCode
<1>2. CASE d = c
  BY <1>1, <1>2
<1>3. CASE d # c
  BY <1>1, <1>3
<1> QED BY <1>2, <1>3

\* The value that interrupts come back to.
Before(c) == IF ncli[c] = 0 THEN FL_IF[c] ELSE intena[c]

LEMMA InterruptsFrame ==
  ASSUME LockIInv, NEW c \in CPUs, NEW u, thread' = thread, saved' = saved,
         code'[thread'[c]] = u,
         \A t \in Threads : t # thread[c] => code'[t] = code[t],
         \A d \in CPUs : d # c => Before(d)' = Before(d),
         ~Resuming(u), ~Resuming(code[thread[c]]),
         Before(c)' = Before(c), EndsLike(u, code[thread[c]])
  PROVE  InterruptsRemembered'
<1>0. thread \in [CPUs -> Threads] /\ Pids \subseteq Threads
  BY DEF LockIInv, LockTypeOK, Threads
<1>1. ASSUME NEW p \in Pids, Resuming(code'[p])
      PROVE  Remembers(p, saved[p])'
  <2>1. p # thread[c]
    BY <1>1
  <2>2. code'[p] = code[p] /\ Remembers(p, saved[p])
    BY <1>0, <1>1, <2>1 DEF LockIInv, InterruptsRemembered
  <2> QED BY <2>2 DEF Remembers
<1>2. ASSUME NEW d \in CPUs, thread[d] \in Pids, ~Resuming(code'[thread[d]])
      PROVE  Remembers(thread[d], Before(d))'
  <2>1. CASE d = c
    <3>1. Remembers(thread[c], Before(c))
      BY <1>2, <2>1 DEF LockIInv, InterruptsRemembered, Before
    <3> QED BY <2>1, <3>1 DEF Remembers, EndsLike
  <2>2. CASE d # c
    <3>1. thread[d] # thread[c]
      BY <2>2 DEF LockIInv, ThreadsRunOnce
    <3>2. code'[thread[d]] = code[thread[d]]
      BY <1>0, <3>1
    <3>3. Remembers(thread[d], Before(d))
      BY <1>2, <3>2 DEF LockIInv, InterruptsRemembered, Before
    <3> QED BY <2>2, <3>2, <3>3 DEF Remembers
  <2> QED BY <2>1, <2>2
<1> QED BY <1>1, <1>2 DEF InterruptsRemembered, Before

\* A step that does not touch locks, with u to do behind it.
LEMMA PlainFrame ==
  ASSUME LockIInv, NEW c \in CPUs, NEW u, Replaces(c, u), Fits(thread[c], u),
         UNCHANGED <<kernel, lockVars, ncli, intena, saved, lockpanic>>,
         FL_IF' \in [CPUs -> BOOLEAN], \A d \in CPUs : d # c => FL_IF'[d] = FL_IF[d],
         ncli[c] > 0 => ~FL_IF'[c],
         state' \in [Pids -> {"RUNNABLE", "RUNNING", "SLEEPING"}],
         Held(u) = Held(code[thread[c]]), Busy(code[thread[c]]) = Held(u),
         Nest(code[thread[c]]) = Held(u),
         StatesMatchCode', InterruptsRemembered'
  PROVE  LockIInv'
<1>1. /\ code' \in [Threads -> Seq(Steps)] /\ thread' \in [CPUs -> Threads]
      /\ CodeIsDisciplined' /\ ThreadsRunOnce' /\ SwitchedOut'
      /\ code'[thread'[c]] = u
      /\ \A d \in CPUs : d # c => thread'[d] # thread[c] /\ code'[thread'[d]] = code[thread[d]]
  BY CodeFrame DEF Fits
<1>2. Busy(u) = Held(u) /\ Nest(u) = Held(u)
  BY FitsLocks
<1>3. LocksMatchCode'
  BY <1>1, <1>2, LocksFrame, SMTT(30)
<1>4. CliNests'
  <2>1. ncli[c] = Depth(Nest(u))
    BY <1>2 DEF LockIInv, CliNests
  <2> QED BY <1>1, <2>1, CliFrame
<1>5. LockTypeOK'
  BY <1>1 DEF LockIInv, LockTypeOK, lockVars, Replaces
<1> QED BY <1>1, <1>3, <1>4, <1>5 DEF LockIInv, NoPanic

\* A step of acquire() or release(), with u to do behind it.
LEMMA LockFrame ==
  ASSUME LockIInv, NEW c \in CPUs, NEW u, Replaces(c, u),
         u \in Seq(Steps), Disciplined(thread[c], u), Parks(u) => ptable \in Held(u),
         Parks(u) <=> Parks(code[thread[c]]), EndsLike(u, code[thread[c]]),
         ~Resuming(u), ~Resuming(code[thread[c]]),
         UNCHANGED <<kernel, saved, state, lockpanic>>,
         locked' \in [Locks -> BOOLEAN], holder' \in [Locks -> CPUs \cup {NoCpu}],
         FL_IF' \in [CPUs -> BOOLEAN], intena' \in [CPUs -> BOOLEAN], ncli' \in [CPUs -> Int],
         \A d \in CPUs : d # c => /\ ncli'[d] = ncli[d] /\ FL_IF'[d] = FL_IF[d]
                                  /\ intena'[d] = intena[d],
         ncli'[c] = Depth(Nest(u)), ncli'[c] > 0 => ~FL_IF'[c], Before(c)' = Before(c),
         code'[thread'[c]] = u /\ (\A d \in CPUs : d # c => code'[thread'[d]] = code[thread[d]])
           => LocksMatchCode'
  PROVE  LockIInv'
<1>1. /\ code' \in [Threads -> Seq(Steps)] /\ thread' \in [CPUs -> Threads]
      /\ CodeIsDisciplined' /\ ThreadsRunOnce' /\ SwitchedOut'
      /\ code'[thread'[c]] = u
      /\ \A d \in CPUs : d # c => thread'[d] # thread[c] /\ code'[thread'[d]] = code[thread[d]]
      /\ \A t \in Threads : t # thread[c] => code'[t] = code[t]
  BY CodeFrame
<1>2. \A d \in CPUs : d # c => code'[thread'[d]] = code[thread[d]]
  BY <1>1
<1>3. LocksMatchCode'
  BY <1>1, <1>2
<1>4. CliNests' /\ \A d \in CPUs : ncli'[d] \in 0 .. 3
  <2>1. \A d \in CPUs : d # c => /\ code'[thread'[d]] = code[thread[d]]
                                 /\ ncli'[d] = ncli[d] /\ FL_IF'[d] = FL_IF[d]
    BY <1>2
  <2> QED BY <1>1, <2>1, CliFrame, ZenonT(60)
<1>5. StatesMatchCode'
  <2>1. thread' = thread /\ state' = state
    BY DEF Replaces
  <2> QED BY <1>1, <1>2, <2>1, StatesFrame
<1>6. InterruptsRemembered'
  <2>1. thread' = thread /\ saved' = saved
    BY DEF Replaces
  <2>2. \A d \in CPUs : d # c => Before(d)' = Before(d)
    BY DEF Before
  <2>3. \A t \in Threads : t # thread[c] => code'[t] = code[t]
    BY <1>1
  <2> QED BY <1>1, <2>1, <2>2, <2>3, InterruptsFrame
<1>7. LockTypeOK'
  <2>1. ncli' \in [CPUs -> 0 .. 3]
    BY <1>4
  <2> QED BY <1>1, <2>1 DEF LockIInv, LockTypeOK
<1> QED BY <1>1, <1>3, <1>4, <1>5, <1>6, <1>7 DEF LockIInv, NoPanic

\* A lock that this CPU is at changes; the others stay as they are.
LEMMA LocksExcept ==
  ASSUME LockIInv, NEW c \in CPUs, NEW u, NEW l \in Locks,
         code'[thread'[c]] = u,
         \A d \in CPUs : d # c => code'[thread'[d]] = code[thread[d]],
         \A m \in Locks : m # l => /\ locked'[m] = locked[m] /\ holder'[m] = holder[m]
                                   /\ m \in Held(u) <=> m \in Held(code[thread[c]])
                                   /\ m \in Busy(u) <=> m \in Busy(code[thread[c]]),
         \A d \in CPUs : d # c => l \notin Busy(code[thread[d]]) /\ l \notin Held(code[thread[d]]),
         \A d \in CPUs : holder'[l] = d <=> d = c /\ l \in Held(u),
         locked'[l] <=> l \in Busy(u)
  PROVE  LocksMatchCode'
<1> SUFFICES ASSUME NEW m \in Locks
             PROVE  /\ \A d \in CPUs : holder'[m] = d <=> m \in Held(code'[thread'[d]])
                    /\ locked'[m] <=> \E d \in CPUs : m \in Busy(code'[thread'[d]])
                    /\ \A d, e \in CPUs : m \in Busy(code'[thread'[d]])
                                            /\ m \in Busy(code'[thread'[e]]) => d = e
  BY DEF LocksMatchCode
<1>1. /\ \A d \in CPUs : holder[m] = d <=> m \in Held(code[thread[d]])
      /\ locked[m] <=> \E d \in CPUs : m \in Busy(code[thread[d]])
      /\ \A d, e \in CPUs : m \in Busy(code[thread[d]]) /\ m \in Busy(code[thread[e]]) => d = e
  BY DEF LockIInv, LocksMatchCode
<1>2. CASE m = l
  BY <1>2
<1>3. CASE m # l
  <2>1. \A d \in CPUs : /\ m \in Held(code'[thread'[d]]) <=> m \in Held(code[thread[d]])
                        /\ m \in Busy(code'[thread'[d]]) <=> m \in Busy(code[thread[d]])
    BY <1>3
  <2> QED BY <1>1, <1>3, <2>1
<1> QED BY <1>2, <1>3

\* What a thread in front of a step of acquire() or release() has.
LEMMA AtLockStep ==
  ASSUME LockIInv, NEW c \in CPUs, NEW op \in {"acquire", "xchg", "own", "release", "unlock"}, At(c, op)
  PROVE  LET o == code[thread[c]]
             r == Tail(o)
             l == Lock(c)
         IN /\ thread[c] \in Threads /\ l \in Locks /\ r \in Seq(Steps)
            /\ Head(o) = <<op, l>> /\ o = Push(<<op, l>>, r)
            /\ Legal(thread[c], <<op, l>>, r) /\ Fits(thread[c], r)
            /\ Held(o) = IF op = "release" THEN Held(r) \cup {l}
                         ELSE IF op = "unlock" THEN Held(r) ELSE Held(r) \ {l}
            /\ Busy(o) = IF op \in {"acquire", "xchg"} THEN Held(r) \ {l} ELSE Held(r) \cup {l}
            /\ Nest(o) = IF op = "acquire" THEN Held(r) \ {l} ELSE Held(r) \cup {l}
            /\ op # "release" => (Parks(o) <=> Parks(r))
            /\ EndsLike(o, r) /\ ~Resuming(o) /\ o \in Seq(Steps)
            /\ op \in {"acquire", "xchg", "own"} =>
                 /\ l \in Held(r) /\ (\A m \in Held(r) \ {l} : Rank(m) < Rank(l))
                 /\ (l = ptable => ~Parks(r))
            /\ op \in {"release", "unlock"} => l \notin Held(r) /\ \A m \in Held(r) : Rank(m) # Rank(l)
            /\ Held(r) \subseteq Locks /\ Busy(r) = Held(r) /\ Nest(r) = Held(r)
            /\ ncli[c] = Depth(Nest(o))
<1> DEFINE o == code[thread[c]]
           r == Tail(o)
           l == Lock(c)
<1>1. /\ thread[c] \in Threads /\ r \in Seq(Steps) /\ o = Push(<<op, l>>, r) /\ Head(o) = <<op, l>>
      /\ Legal(thread[c], <<op, l>>, r) /\ Fits(thread[c], r) /\ l \in Locks
  <2>1. op \in Operations
    BY DEF Operations
  <2> QED BY <2>1, StepAt
<1>2. <<op, l>>[1] = op /\ <<op, l>>[2] = l
  OBVIOUS
<1>3. ncli[c] = Depth(Nest(o))
  BY DEF LockIInv, CliNests
<1> HIDE DEF o, r, l
<1>4. /\ Held(o) = IF op = "release" THEN Held(r) \cup {l}
                   ELSE IF op = "unlock" THEN Held(r) ELSE Held(r) \ {l}
      /\ Busy(o) = IF op \in {"acquire", "xchg"} THEN Held(r) \ {l} ELSE Held(r) \cup {l}
      /\ Nest(o) = IF op = "acquire" THEN Held(r) \ {l} ELSE Held(r) \cup {l}
      /\ op # "release" => (Parks(o) <=> Parks(r))
      /\ EndsLike(o, r) /\ ~Resuming(o) /\ o \in Seq(Steps)
  <2>1. CASE op = "acquire"
    <3>1. LET q == Push(<<"acquire", l>>, r)
          IN /\ Held(q) = Held(r) \ {l} /\ Busy(q) = Held(r) \ {l} /\ Nest(q) = Held(r) \ {l}
             /\ EndsLike(q, r) /\ ~Resuming(q) /\ q \in Seq(Steps) /\ (Parks(q) <=> Parks(r))
      BY <1>1, AtLock
    <3> QED BY <1>1, <2>1, <3>1
  <2>2. CASE op = "xchg"
    <3>1. LET q == Push(<<"xchg", l>>, r)
          IN /\ Held(q) = Held(r) \ {l} /\ Busy(q) = Held(r) \ {l} /\ Nest(q) = Held(r) \cup {l}
             /\ EndsLike(q, r) /\ ~Resuming(q) /\ q \in Seq(Steps) /\ (Parks(q) <=> Parks(r))
      BY <1>1, AtLock
    <3> QED BY <1>1, <2>2, <3>1
  <2>3. CASE op = "own"
    <3>1. LET q == Push(<<"own", l>>, r)
          IN /\ Held(q) = Held(r) \ {l} /\ Busy(q) = Held(r) \cup {l} /\ Nest(q) = Held(r) \cup {l}
             /\ EndsLike(q, r) /\ ~Resuming(q) /\ q \in Seq(Steps) /\ (Parks(q) <=> Parks(r))
      BY <1>1, AtLock
    <3> QED BY <1>1, <2>3, <3>1
  <2>4. CASE op = "release"
    <3>1. LET q == Push(<<"release", l>>, r)
          IN /\ Held(q) = Held(r) \cup {l} /\ Busy(q) = Held(r) \cup {l} /\ Nest(q) = Held(r) \cup {l}
             /\ EndsLike(q, r) /\ ~Resuming(q) /\ q \in Seq(Steps)
      BY <1>1, AtLock
    <3> QED BY <1>1, <2>4, <3>1
  <2>5. CASE op = "unlock"
    <3>1. LET q == Push(<<"unlock", l>>, r)
          IN /\ Held(q) = Held(r) /\ Busy(q) = Held(r) \cup {l} /\ Nest(q) = Held(r) \cup {l}
             /\ EndsLike(q, r) /\ ~Resuming(q) /\ q \in Seq(Steps) /\ (Parks(q) <=> Parks(r))
      BY <1>1, AtLock
    <3> QED BY <1>1, <2>5, <3>1
  <2> QED BY <2>1, <2>2, <2>3, <2>4, <2>5
<1>5. op \in {"acquire", "xchg", "own"} =>
        /\ l \in Held(r) /\ (\A m \in Held(r) \ {l} : Rank(m) < Rank(l))
        /\ (l = ptable => ~Parks(r))
  BY <1>1, <1>2 DEF Legal, TakesInOrder
<1>6. op \in {"release", "unlock"} => l \notin Held(r) /\ \A m \in Held(r) : Rank(m) # Rank(l)
  BY <1>1, <1>2 DEF Legal, TakesInOrder
<1>7. Held(r) \subseteq Locks /\ Busy(r) = Held(r) /\ Nest(r) = Held(r)
  BY <1>1, FitsLocks
<1> QED BY <1>1, <1>3, <1>4, <1>5, <1>6, <1>7 DEF o, r, l

\* acquire() up to the loop: the lock is not the own one, and one more pushcli().
LEMMA AcquireKeeps ==
  ASSUME LockIInv, NEW c \in CPUs, acquire(c)
  PROVE  LockIInv'
<1> DEFINE t == thread[c]
           l == Lock(c)
           r == Tail(code[t])
           u == Push(<<"xchg", l>>, r)
<1>1. /\ t \in Threads /\ r \in Seq(Steps) /\ l \in Locks
      /\ Legal(t, <<"acquire", l>>, r) /\ Fits(t, r)
      /\ Held(code[t]) = Held(r) \ {l} /\ Busy(code[t]) = Held(r) \ {l}
      /\ Nest(code[t]) = Held(r) \ {l}
      /\ (Parks(code[t]) <=> Parks(r)) /\ EndsLike(code[t], r) /\ ~Resuming(code[t])
      /\ l \in Held(r) /\ (\A m \in Held(r) \ {l} : Rank(m) < Rank(l)) /\ (l = ptable => ~Parks(r))
      /\ Held(r) \subseteq Locks /\ ncli[c] = Depth(Nest(code[t]))
  <2>1. At(c, "acquire")
    BY DEF acquire
  <2> QED BY <2>1, AtLockStep
<1>2. ~Holding(c, l)
  BY <1>1 DEF Holding, LockIInv, LocksMatchCode
<1>3. /\ pushcli(c) /\ Proceed(c, <<<<"xchg", l>>>>)
      /\ UNCHANGED <<kernel, lockVars, thread, saved, state, lockpanic>>
  BY <1>2 DEF acquire
<1>4. <<"xchg", l>> \in Steps /\ <<"xchg", l>>[1] = "xchg" /\ <<"xchg", l>>[2] = l
  BY <1>1, StepFacts DEF Operations
<1> HIDE DEF l, r
<1>5. Replaces(c, u)
  BY <1>3 DEF Proceed, Replaces, Push, r
<1>6. /\ Held(u) = Held(r) \ {l} /\ Busy(u) = Held(r) \ {l} /\ Nest(u) = Held(r) \cup {l}
      /\ (Parks(u) <=> Parks(r)) /\ EndsLike(u, r) /\ ~Resuming(u) /\ u \in Seq(Steps)
  BY <1>1, AtLock
<1>7. Disciplined(t, u)
  <2>1. Legal(t, <<"xchg", l>>, r)
    BY <1>1, <1>4 DEF Legal, TakesInOrder, SwitchesUnderLock, StepOfThread, Fits
  <2> QED BY <1>1, <1>4, <2>1, DisciplinedPush DEF Fits
<1> HIDE DEF u
<1>8. /\ Parks(u) => ptable \in Held(u)
      /\ Parks(u) <=> Parks(code[t])
      /\ EndsLike(u, code[t])
  BY <1>1, <1>6 DEF Fits, EndsLike
<1>9. /\ ncli \in [CPUs -> 0 .. 3] /\ FL_IF \in [CPUs -> BOOLEAN] /\ intena \in [CPUs -> BOOLEAN]
      /\ locked \in [Locks -> BOOLEAN] /\ holder \in [Locks -> CPUs \cup {NoCpu}]
  BY DEF LockIInv, LockTypeOK
<1>10. /\ ncli' = [ncli EXCEPT ![c] = ncli[c] + 1]
       /\ intena' = [intena EXCEPT ![c] = IF ncli[c] = 0 THEN FL_IF[c] ELSE intena[c]]
       /\ FL_IF' = [FL_IF EXCEPT ![c] = FALSE]
  BY <1>3 DEF pushcli
<1>11. /\ FL_IF' \in [CPUs -> BOOLEAN] /\ intena' \in [CPUs -> BOOLEAN] /\ ncli' \in [CPUs -> Int]
       /\ \A d \in CPUs : d # c => /\ ncli'[d] = ncli[d] /\ FL_IF'[d] = FL_IF[d]
                                   /\ intena'[d] = intena[d]
       /\ ncli'[c] = ncli[c] + 1 /\ ~FL_IF'[c] /\ ncli'[c] # 0
       /\ intena'[c] = IF ncli[c] = 0 THEN FL_IF[c] ELSE intena[c]
  BY <1>9, <1>10
<1>12. ncli'[c] = Depth(Nest(u))
  <2>1. Held(r) \ {l} \in SUBSET Locks /\ \A m \in Held(r) \ {l} : Rank(m) # Rank(l)
    BY <1>1, LockFacts
  <2>2. Depth((Held(r) \ {l}) \cup {l}) = Depth(Held(r) \ {l}) + 1
    BY <1>1, <2>1, DepthFacts
  <2>3. Nest(u) = (Held(r) \ {l}) \cup {l}
    BY <1>6
  <2> QED BY <1>1, <1>11, <2>2, <2>3
<1>13. Before(c)' = Before(c)
  BY <1>11 DEF Before
<1>14. ASSUME code'[thread'[c]] = u, \A d \in CPUs : d # c => code'[thread'[d]] = code[thread[d]]
       PROVE  LocksMatchCode'
  <2>1. Held(u) = Held(code[t]) /\ Busy(u) = Busy(code[t])
    BY <1>1, <1>6
  <2>2. UNCHANGED lockVars
    BY <1>3
  <2> QED BY <1>14, <2>1, <2>2, LocksFrame
<1>15. /\ UNCHANGED <<kernel, saved, state, lockpanic>>
       /\ locked' \in [Locks -> BOOLEAN] /\ holder' \in [Locks -> CPUs \cup {NoCpu}]
  BY <1>3, <1>9 DEF lockVars
<1> QED BY <1>1, <1>5, <1>6, <1>7, <1>8, <1>11, <1>12, <1>13, <1>14, <1>15, LockFrame

\* The xchg that finds 0: nobody was at the lock.
LEMMA XchgKeeps ==
  ASSUME LockIInv, NEW c \in CPUs, xchg(c)
  PROVE  LockIInv'
<1> DEFINE t == thread[c]
           l == Lock(c)
           r == Tail(code[t])
           u == Push(<<"own", l>>, r)
<1>1. /\ t \in Threads /\ r \in Seq(Steps) /\ l \in Locks
      /\ Legal(t, <<"xchg", l>>, r) /\ Fits(t, r)
      /\ Held(code[t]) = Held(r) \ {l} /\ Busy(code[t]) = Held(r) \ {l}
      /\ Nest(code[t]) = Held(r) \cup {l}
      /\ (Parks(code[t]) <=> Parks(r)) /\ EndsLike(code[t], r) /\ ~Resuming(code[t])
      /\ l \in Held(r) /\ (\A m \in Held(r) \ {l} : Rank(m) < Rank(l)) /\ (l = ptable => ~Parks(r))
      /\ ncli[c] = Depth(Nest(code[t]))
  <2>1. At(c, "xchg")
    BY DEF xchg
  <2> QED BY <2>1, AtLockStep
<1>2. /\ ~locked[l] /\ locked' = [locked EXCEPT ![l] = TRUE] /\ Proceed(c, <<<<"own", l>>>>)
      /\ UNCHANGED <<kernel, holder, cpuVars, saved, state, lockpanic>>
  BY DEF xchg
<1>3. <<"own", l>> \in Steps /\ <<"own", l>>[1] = "own" /\ <<"own", l>>[2] = l
  BY <1>1, StepFacts DEF Operations
<1> HIDE DEF l, r
<1>4. Replaces(c, u)
  BY <1>2 DEF Proceed, Replaces, Push, r, cpuVars
<1>5. /\ Held(u) = Held(r) \ {l} /\ Busy(u) = Held(r) \cup {l} /\ Nest(u) = Held(r) \cup {l}
      /\ (Parks(u) <=> Parks(r)) /\ EndsLike(u, r) /\ ~Resuming(u) /\ u \in Seq(Steps)
  BY <1>1, AtLock
<1>6. Disciplined(t, u)
  <2>1. Legal(t, <<"own", l>>, r)
    BY <1>1, <1>3 DEF Legal, TakesInOrder, SwitchesUnderLock, StepOfThread, Fits
  <2> QED BY <1>1, <1>3, <2>1, DisciplinedPush DEF Fits
<1> HIDE DEF u
<1>7. /\ Parks(u) => ptable \in Held(u)
      /\ Parks(u) <=> Parks(code[t])
      /\ EndsLike(u, code[t])
  BY <1>1, <1>5 DEF Fits, EndsLike
<1>8. /\ ncli \in [CPUs -> 0 .. 3] /\ FL_IF \in [CPUs -> BOOLEAN] /\ intena \in [CPUs -> BOOLEAN]
      /\ locked \in [Locks -> BOOLEAN] /\ holder \in [Locks -> CPUs \cup {NoCpu}]
  BY DEF LockIInv, LockTypeOK
<1>9. UNCHANGED ncli /\ UNCHANGED FL_IF /\ UNCHANGED intena /\ UNCHANGED holder
  BY <1>2 DEF cpuVars
<1>10. ncli'[c] = Depth(Nest(u)) /\ (ncli'[c] > 0 => ~FL_IF'[c]) /\ Before(c)' = Before(c)
  BY <1>1, <1>5, <1>9 DEF Before, LockIInv, CliNests
<1>11. ASSUME code'[thread'[c]] = u, \A d \in CPUs : d # c => code'[thread'[d]] = code[thread[d]]
       PROVE  LocksMatchCode'
  <2>1. \A m \in Locks : m # l => /\ locked'[m] = locked[m] /\ holder'[m] = holder[m]
                                  /\ m \in Held(u) <=> m \in Held(code[thread[c]])
                                  /\ m \in Busy(u) <=> m \in Busy(code[thread[c]])
    BY <1>1, <1>2, <1>5, <1>8, <1>9
  <2>2. \A d \in CPUs : l \notin Busy(code[thread[d]]) /\ l \notin Held(code[thread[d]])
    BY <1>1, <1>2 DEF LockIInv, LocksMatchCode, Busy
  <2>3. \A d \in CPUs : holder'[l] = d <=> d = c /\ l \in Held(u)
    BY <1>1, <1>5, <1>9, <2>2 DEF LockIInv, LocksMatchCode
  <2>4. locked'[l] <=> l \in Busy(u)
    BY <1>1, <1>2, <1>5, <1>8
  <2>5. \A d \in CPUs : d # c => l \notin Busy(code[thread[d]]) /\ l \notin Held(code[thread[d]])
    BY <2>2
  <2> QED BY <1>1, <1>11, <2>1, <2>3, <2>4, <2>5, LocksExcept
<1>12. /\ UNCHANGED <<kernel, saved, state, lockpanic>>
       /\ locked' \in [Locks -> BOOLEAN] /\ holder' \in [Locks -> CPUs \cup {NoCpu}]
       /\ FL_IF' \in [CPUs -> BOOLEAN] /\ intena' \in [CPUs -> BOOLEAN] /\ ncli' \in [CPUs -> Int]
       /\ \A d \in CPUs : d # c => /\ ncli'[d] = ncli[d] /\ FL_IF'[d] = FL_IF[d]
                                   /\ intena'[d] = intena[d]
  <2>1. ncli \in [CPUs -> Int]
    BY <1>8
  <2>2. /\ FL_IF' \in [CPUs -> BOOLEAN] /\ intena' \in [CPUs -> BOOLEAN] /\ ncli' \in [CPUs -> Int]
        /\ \A d \in CPUs : ncli'[d] = ncli[d] /\ FL_IF'[d] = FL_IF[d] /\ intena'[d] = intena[d]
    BY <1>8, <1>9, <2>1
  <2>3. /\ UNCHANGED <<kernel, saved, state, lockpanic>>
        /\ locked' \in [Locks -> BOOLEAN] /\ holder' \in [Locks -> CPUs \cup {NoCpu}]
    BY <1>2, <1>8, <1>9
  <2> QED BY <2>2, <2>3
<1> QED BY <1>1, <1>4, <1>5, <1>6, <1>7, <1>10, <1>11, <1>12, LockFrame

\* acquire() behind the loop.
LEMMA OwnKeeps ==
  ASSUME LockIInv, NEW c \in CPUs, own(c)
  PROVE  LockIInv'
<1> DEFINE t == thread[c]
           l == Lock(c)
           r == Tail(code[t])
<1>1. /\ t \in Threads /\ r \in Seq(Steps) /\ l \in Locks /\ Fits(t, r)
      /\ Held(code[t]) = Held(r) \ {l} /\ Busy(code[t]) = Held(r) \cup {l}
      /\ Nest(code[t]) = Held(r) \cup {l}
      /\ (Parks(code[t]) <=> Parks(r)) /\ EndsLike(code[t], r) /\ ~Resuming(code[t])
      /\ l \in Held(r) /\ Busy(r) = Held(r) /\ Nest(r) = Held(r)
      /\ ncli[c] = Depth(Nest(code[t]))
  <2>1. At(c, "own")
    BY DEF own
  <2> QED BY <2>1, AtLockStep
<1>2. /\ holder' = [holder EXCEPT ![l] = c] /\ Proceed(c, <<>>)
      /\ UNCHANGED <<kernel, locked, cpuVars, saved, state, lockpanic>>
  BY DEF own
<1>3. Replaces(c, r)
  <2>1. <<>> \o r = r
    BY <1>1, PushConcat
  <2> QED BY <1>2, <2>1 DEF Proceed, Replaces, cpuVars
<1> HIDE DEF l, r
<1>4. /\ Parks(r) => ptable \in Held(r)
      /\ Parks(r) <=> Parks(code[t])
      /\ EndsLike(r, code[t]) /\ ~Resuming(r) /\ Disciplined(t, r)
  BY <1>1 DEF Fits, EndsLike
<1>5. /\ ncli \in [CPUs -> 0 .. 3] /\ FL_IF \in [CPUs -> BOOLEAN] /\ intena \in [CPUs -> BOOLEAN]
      /\ locked \in [Locks -> BOOLEAN] /\ holder \in [Locks -> CPUs \cup {NoCpu}]
  BY DEF LockIInv, LockTypeOK
<1>6. UNCHANGED ncli /\ UNCHANGED FL_IF /\ UNCHANGED intena /\ UNCHANGED locked
  BY <1>2 DEF cpuVars
<1>7. ncli'[c] = Depth(Nest(r)) /\ (ncli'[c] > 0 => ~FL_IF'[c]) /\ Before(c)' = Before(c)
  <2>1. Nest(code[t]) = Nest(r)
    BY <1>1
  <2> QED BY <1>1, <1>6, <2>1 DEF Before, LockIInv, CliNests
<1>8. ASSUME code'[thread'[c]] = r, \A d \in CPUs : d # c => code'[thread'[d]] = code[thread[d]]
      PROVE  LocksMatchCode'
  <2>1. \A m \in Locks : m # l => /\ locked'[m] = locked[m] /\ holder'[m] = holder[m]
                                  /\ m \in Held(r) <=> m \in Held(code[thread[c]])
                                  /\ m \in Busy(r) <=> m \in Busy(code[thread[c]])
    BY <1>1, <1>2, <1>5, <1>6
  <2>2. l \in Busy(code[thread[c]])
    BY <1>1
  <2>3. \A d \in CPUs : d # c => l \notin Busy(code[thread[d]]) /\ l \notin Held(code[thread[d]])
    BY <1>1, <2>2 DEF LockIInv, LocksMatchCode, Busy
  <2>4. \A d \in CPUs : holder'[l] = d <=> d = c /\ l \in Held(r)
    BY <1>1, <1>2, <1>5
  <2>5. locked'[l] <=> l \in Busy(r)
    BY <1>1, <1>6, <2>2 DEF LockIInv, LocksMatchCode
  <2> QED BY <1>1, <1>8, <2>1, <2>3, <2>4, <2>5, LocksExcept
<1>9. /\ UNCHANGED <<kernel, saved, state, lockpanic>>
      /\ locked' \in [Locks -> BOOLEAN] /\ holder' \in [Locks -> CPUs \cup {NoCpu}]
      /\ FL_IF' \in [CPUs -> BOOLEAN] /\ intena' \in [CPUs -> BOOLEAN] /\ ncli' \in [CPUs -> Int]
      /\ \A d \in CPUs : d # c => /\ ncli'[d] = ncli[d] /\ FL_IF'[d] = FL_IF[d]
                                  /\ intena'[d] = intena[d]
  <2>1. ncli \in [CPUs -> Int]
    BY <1>5
  <2>2. /\ FL_IF' \in [CPUs -> BOOLEAN] /\ intena' \in [CPUs -> BOOLEAN] /\ ncli' \in [CPUs -> Int]
        /\ \A d \in CPUs : ncli'[d] = ncli[d] /\ FL_IF'[d] = FL_IF[d] /\ intena'[d] = intena[d]
    BY <1>5, <1>6, <2>1
  <2>3. /\ UNCHANGED <<kernel, saved, state, lockpanic>>
        /\ locked' \in [Locks -> BOOLEAN] /\ holder' \in [Locks -> CPUs \cup {NoCpu}]
    BY <1>2, <1>5, <1>6
  <2> QED BY <2>2, <2>3
<1> QED BY <1>1, <1>3, <1>4, <1>7, <1>8, <1>9, LockFrame

\* release() up to the store of 0: the lock is the own one.
LEMMA ReleaseKeeps ==
  ASSUME LockIInv, NEW c \in CPUs, release(c)
  PROVE  LockIInv'
<1> DEFINE t == thread[c]
           l == Lock(c)
           r == Tail(code[t])
           u == Push(<<"unlock", l>>, r)
<1>1. /\ t \in Threads /\ r \in Seq(Steps) /\ l \in Locks
      /\ Legal(t, <<"release", l>>, r) /\ Fits(t, r)
      /\ Head(code[t]) = <<"release", l>> /\ code[t] = Push(<<"release", l>>, r)
      /\ Held(code[t]) = Held(r) \cup {l} /\ Busy(code[t]) = Held(r) \cup {l}
      /\ Nest(code[t]) = Held(r) \cup {l}
      /\ EndsLike(code[t], r) /\ ~Resuming(code[t])
      /\ l \notin Held(r) /\ (\A m \in Held(r) : Rank(m) # Rank(l))
      /\ ncli[c] = Depth(Nest(code[t]))
  <2>1. At(c, "release")
    BY DEF release
  <2> QED BY <2>1, AtLockStep
<1>2. Holding(c, l)
  <2>1. holder[l] = c /\ l \in Busy(code[t])
    BY <1>1 DEF LockIInv, LocksMatchCode
  <2> QED BY <1>1, <2>1 DEF Holding, LockIInv, LocksMatchCode
<1>3. /\ holder' = [holder EXCEPT ![l] = NoCpu] /\ Proceed(c, <<<<"unlock", l>>>>)
      /\ UNCHANGED <<kernel, locked, cpuVars, saved, state, lockpanic>>
  BY <1>2 DEF release
<1>4. /\ <<"unlock", l>> \in Steps /\ <<"unlock", l>>[1] = "unlock" /\ <<"unlock", l>>[2] = l
      /\ <<"release", l>> \in Steps /\ <<"release", l>>[1] = "release" /\ <<"release", l>>[2] = l
  BY <1>1, StepFacts DEF Operations
<1> HIDE DEF l, r
<1>5. Replaces(c, u)
  BY <1>3 DEF Proceed, Replaces, Push, r, cpuVars
<1>6. /\ Held(u) = Held(r) /\ Busy(u) = Held(r) \cup {l} /\ Nest(u) = Held(r) \cup {l}
      /\ (Parks(u) <=> Parks(r)) /\ EndsLike(u, r) /\ ~Resuming(u) /\ u \in Seq(Steps)
  BY <1>1, AtLock
<1>7. Disciplined(t, u)
  <2>1. Legal(t, <<"unlock", l>>, r)
    BY <1>1, <1>4 DEF Legal, TakesInOrder, SwitchesUnderLock, StepOfThread, Fits
  <2> QED BY <1>1, <1>4, <2>1, DisciplinedPush DEF Fits
<1>8. Parks(code[t]) <=> Parks(r)
  <2>1. <<"release", l>> = Release(ptable) => ~Parks(r)
    BY <1>1 DEF Release, Fits
  <2> QED BY <1>1, <1>4, <2>1, ParksPush
<1> HIDE DEF u
<1>9. /\ Parks(u) => ptable \in Held(u)
      /\ Parks(u) <=> Parks(code[t])
      /\ EndsLike(u, code[t])
  BY <1>1, <1>6, <1>8 DEF Fits, EndsLike
<1>10. /\ ncli \in [CPUs -> 0 .. 3] /\ FL_IF \in [CPUs -> BOOLEAN] /\ intena \in [CPUs -> BOOLEAN]
       /\ locked \in [Locks -> BOOLEAN] /\ holder \in [Locks -> CPUs \cup {NoCpu}]
  BY DEF LockIInv, LockTypeOK
<1>11. UNCHANGED ncli /\ UNCHANGED FL_IF /\ UNCHANGED intena /\ UNCHANGED locked
  BY <1>3 DEF cpuVars
<1>12. ncli'[c] = Depth(Nest(u)) /\ (ncli'[c] > 0 => ~FL_IF'[c]) /\ Before(c)' = Before(c)
  <2>1. Nest(code[t]) = Nest(u)
    BY <1>1, <1>6
  <2> QED BY <1>1, <1>11, <2>1 DEF Before, LockIInv, CliNests
<1>13. ASSUME code'[thread'[c]] = u, \A d \in CPUs : d # c => code'[thread'[d]] = code[thread[d]]
       PROVE  LocksMatchCode'
  <2>1. \A m \in Locks : m # l => /\ locked'[m] = locked[m] /\ holder'[m] = holder[m]
                                  /\ m \in Held(u) <=> m \in Held(code[thread[c]])
                                  /\ m \in Busy(u) <=> m \in Busy(code[thread[c]])
    BY <1>1, <1>3, <1>6, <1>10, <1>11
  <2>2. l \in Busy(code[thread[c]])
    BY <1>1
  <2>3. \A d \in CPUs : d # c => l \notin Busy(code[thread[d]]) /\ l \notin Held(code[thread[d]])
    BY <1>1, <2>2 DEF LockIInv, LocksMatchCode, Busy
  <2>4. \A d \in CPUs : holder'[l] = d <=> d = c /\ l \in Held(u)
    <3>1. NoCpu \notin CPUs
      BY ThreadFacts DEF LockIInv
    <3> QED BY <1>1, <1>3, <1>6, <1>10, <3>1
  <2>5. locked'[l] <=> l \in Busy(u)
    BY <1>1, <1>6, <1>11, <2>2 DEF LockIInv, LocksMatchCode
  <2> QED BY <1>1, <1>13, <2>1, <2>3, <2>4, <2>5, LocksExcept
<1>14. /\ UNCHANGED <<kernel, saved, state, lockpanic>>
       /\ locked' \in [Locks -> BOOLEAN] /\ holder' \in [Locks -> CPUs \cup {NoCpu}]
       /\ FL_IF' \in [CPUs -> BOOLEAN] /\ intena' \in [CPUs -> BOOLEAN] /\ ncli' \in [CPUs -> Int]
       /\ \A d \in CPUs : d # c => /\ ncli'[d] = ncli[d] /\ FL_IF'[d] = FL_IF[d]
                                   /\ intena'[d] = intena[d]
  <2>1. ncli \in [CPUs -> Int]
    BY <1>10
  <2>2. /\ FL_IF' \in [CPUs -> BOOLEAN] /\ intena' \in [CPUs -> BOOLEAN] /\ ncli' \in [CPUs -> Int]
        /\ \A d \in CPUs : ncli'[d] = ncli[d] /\ FL_IF'[d] = FL_IF[d] /\ intena'[d] = intena[d]
    BY <1>10, <1>11, <2>1
  <2>3. /\ UNCHANGED <<kernel, saved, state, lockpanic>>
        /\ locked' \in [Locks -> BOOLEAN] /\ holder' \in [Locks -> CPUs \cup {NoCpu}]
    BY <1>3, <1>10, <1>11
  <2> QED BY <2>2, <2>3
<1> QED BY <1>1, <1>5, <1>6, <1>7, <1>9, <1>12, <1>13, <1>14, LockFrame

\* The store of 0 and popcli(): pushcli() has been called for this lock.
LEMMA UnlockKeeps ==
  ASSUME LockIInv, NEW c \in CPUs, unlock(c)
  PROVE  LockIInv'
<1> DEFINE t == thread[c]
           l == Lock(c)
           r == Tail(code[t])
<1>1. /\ t \in Threads /\ r \in Seq(Steps) /\ l \in Locks /\ Fits(t, r)
      /\ Held(code[t]) = Held(r) /\ Busy(code[t]) = Held(r) \cup {l}
      /\ Nest(code[t]) = Held(r) \cup {l}
      /\ (Parks(code[t]) <=> Parks(r)) /\ EndsLike(code[t], r) /\ ~Resuming(code[t])
      /\ l \notin Held(r) /\ (\A m \in Held(r) : Rank(m) # Rank(l))
      /\ Held(r) \subseteq Locks /\ Busy(r) = Held(r) /\ Nest(r) = Held(r)
      /\ ncli[c] = Depth(Nest(code[t]))
  <2>1. At(c, "unlock")
    BY DEF unlock
  <2> QED BY <2>1, AtLockStep
<1> HIDE DEF l, r
<1>2. ncli[c] = Depth(Held(r)) + 1 /\ Depth(Held(r)) \in 0 .. 3
  <2>1. Held(r) \in SUBSET Locks
    BY <1>1
  <2>2. Depth(Held(r) \cup {l}) = Depth(Held(r)) + 1 /\ Depth(Held(r)) \in 0 .. 3
    BY <1>1, <2>1, DepthFacts
  <2> QED BY <1>1, <2>2
<1>3. ncli[c] # 0 /\ ~FL_IF[c]
  BY <1>2 DEF LockIInv, CliNests
<1>4. /\ locked' = [locked EXCEPT ![l] = FALSE] /\ popcli(c) /\ Proceed(c, <<>>)
      /\ UNCHANGED <<kernel, holder, intena, thread, saved, state, lockpanic>>
  BY <1>3 DEF unlock, l
<1>5. Replaces(c, r)
  <2>1. <<>> \o r = r
    BY <1>1, PushConcat
  <2> QED BY <1>4, <2>1 DEF Proceed, Replaces, r
<1>6. /\ Parks(r) => ptable \in Held(r)
      /\ Parks(r) <=> Parks(code[t])
      /\ EndsLike(r, code[t]) /\ ~Resuming(r) /\ Disciplined(t, r)
  BY <1>1 DEF Fits, EndsLike
<1>7. /\ ncli \in [CPUs -> 0 .. 3] /\ FL_IF \in [CPUs -> BOOLEAN] /\ intena \in [CPUs -> BOOLEAN]
      /\ locked \in [Locks -> BOOLEAN] /\ holder \in [Locks -> CPUs \cup {NoCpu}]
  BY DEF LockIInv, LockTypeOK
<1>8. /\ UNCHANGED intena /\ UNCHANGED holder
      /\ ncli' = [ncli EXCEPT ![c] = ncli[c] - 1]
      /\ FL_IF' = [FL_IF EXCEPT ![c] = ncli[c] = 1 /\ intena[c]]
  BY <1>4 DEF popcli
<1>9. /\ FL_IF' \in [CPUs -> BOOLEAN] /\ intena' \in [CPUs -> BOOLEAN] /\ ncli' \in [CPUs -> Int]
      /\ \A d \in CPUs : d # c => /\ ncli'[d] = ncli[d] /\ FL_IF'[d] = FL_IF[d]
                                  /\ intena'[d] = intena[d]
      /\ ncli'[c] = ncli[c] - 1 /\ intena'[c] = intena[c]
      /\ FL_IF'[c] <=> ncli[c] = 1 /\ intena[c]
  <2>1. (ncli[c] = 1 /\ intena[c]) \in BOOLEAN
    OBVIOUS
  <2>2. FL_IF' \in [CPUs -> BOOLEAN] /\ (FL_IF'[c] <=> ncli[c] = 1 /\ intena[c])
        /\ \A d \in CPUs : d # c => FL_IF'[d] = FL_IF[d]
    BY <1>7, <1>8, <2>1
  <2>3. ncli' \in [CPUs -> Int] /\ ncli'[c] = ncli[c] - 1
        /\ \A d \in CPUs : d # c => ncli'[d] = ncli[d]
    BY <1>7, <1>8
  <2> QED BY <1>7, <1>8, <2>2, <2>3
<1>10. ncli'[c] = Depth(Nest(r)) /\ (ncli'[c] > 0 => ~FL_IF'[c])
  BY <1>1, <1>2, <1>9
<1>11. Before(c)' = Before(c)
  <2>1. Before(c) = intena[c]
    BY <1>3 DEF Before
  <2>2. CASE ncli[c] = 1
    <3>1. ncli'[c] = 0 /\ FL_IF'[c] = intena[c]
      BY <1>7, <1>9, <2>2
    <3> QED BY <2>1, <3>1 DEF Before
  <2>3. CASE ncli[c] # 1
    <3>1. ncli'[c] # 0
      BY <1>2, <1>9, <2>3
    <3> QED BY <1>9, <2>1, <3>1 DEF Before
  <2> QED BY <2>2, <2>3
<1>12. ASSUME code'[thread'[c]] = r, \A d \in CPUs : d # c => code'[thread'[d]] = code[thread[d]]
       PROVE  LocksMatchCode'
  <2>1. \A m \in Locks : m # l => /\ locked'[m] = locked[m] /\ holder'[m] = holder[m]
                                  /\ m \in Held(r) <=> m \in Held(code[thread[c]])
                                  /\ m \in Busy(r) <=> m \in Busy(code[thread[c]])
    BY <1>1, <1>4, <1>7, <1>8
  <2>2. l \in Busy(code[thread[c]])
    BY <1>1
  <2>3. \A d \in CPUs : d # c => l \notin Busy(code[thread[d]]) /\ l \notin Held(code[thread[d]])
    BY <1>1, <2>2 DEF LockIInv, LocksMatchCode, Busy
  <2>4. \A d \in CPUs : holder'[l] = d <=> d = c /\ l \in Held(r)
    <3>1. \A d \in CPUs : holder[l] # d
      BY <1>1, <2>3 DEF LockIInv, LocksMatchCode
    <3> QED BY <1>1, <1>8, <3>1
  <2>5. locked'[l] <=> l \in Busy(r)
    BY <1>1, <1>4, <1>7
  <2> QED BY <1>1, <1>12, <2>1, <2>3, <2>4, <2>5, LocksExcept
<1>13. /\ UNCHANGED <<kernel, saved, state, lockpanic>>
       /\ locked' \in [Locks -> BOOLEAN] /\ holder' \in [Locks -> CPUs \cup {NoCpu}]
  BY <1>4, <1>7, <1>8
<1> QED BY <1>1, <1>5, <1>6, <1>9, <1>10, <1>11, <1>12, <1>13, LockFrame

\* What a thread in front of a step has that is not one of acquire() or release().
LEMMA AtPlainStep ==
  ASSUME LockIInv, NEW c \in CPUs,
         NEW op \in Operations \ {"acquire", "xchg", "own", "release", "unlock"}, At(c, op)
  PROVE  LET o == code[thread[c]]
             r == Tail(o)
         IN /\ thread[c] \in Threads /\ r \in Seq(Steps) /\ o \in Seq(Steps)
            /\ \E x \in Steps : x[1] = op /\ o = Push(x, r) /\ Legal(thread[c], x, r)
            /\ op # "leave" => Fits(thread[c], r)
            /\ Held(o) = Held(r) /\ Busy(o) = Held(r) /\ Nest(o) = Held(r)
            /\ Parks(o) <=> op \in {"sched", "leave"}
                            \/ (op \notin {"runnable", "asleep"} /\ Parks(r))
            /\ \A q : Has(o, q) <=> op = q \/ Has(r, q)
            /\ Resuming(o) <=> op = "resume"
            /\ ncli[c] = Depth(Held(r)) /\ (ncli[c] > 0 => ~FL_IF[c])
<1> DEFINE o == code[thread[c]]
           r == Tail(o)
<1>1. PICK x \in Steps : /\ thread[c] \in Threads /\ r \in Seq(Steps) /\ o = Push(x, r)
                         /\ x[1] = op /\ Head(o) = x
                         /\ Legal(thread[c], x, r) /\ (op # "leave" => Fits(thread[c], r))
  BY StepAt
<1>2. ncli[c] = Depth(Nest(o)) /\ (ncli[c] > 0 => ~FL_IF[c])
  BY DEF LockIInv, CliNests
<1> HIDE DEF o, r
<1>3. /\ Held(Push(x, r)) = Held(r) /\ Busy(Push(x, r)) = Held(r) /\ Nest(Push(x, r)) = Held(r)
      /\ Parks(Push(x, r)) <=> x[1] \in {"sched", "leave"}
                               \/ (x[1] \notin {"runnable", "asleep"} /\ Parks(r))
  <2>1. x[1] \notin {"acquire", "xchg", "own", "release", "unlock"}
    BY <1>1
  <2> QED BY <1>1, <2>1, AtPlain
<1>4. \A q : Has(o, q) <=> op = q \/ Has(r, q)
  BY <1>1, HasPush
<1>5. o # <<>> /\ o \in Seq(Steps)
  BY <1>1, PushFacts
<1>6. Resuming(o) <=> op = "resume"
  BY <1>1, <1>5 DEF Resuming
<1>7. Nest(o) = Held(r)
  BY <1>1, <1>3
<1>8. ncli[c] = Depth(Held(r)) /\ (ncli[c] > 0 => ~FL_IF[c])
  BY <1>2, <1>7
<1>9. Held(o) = Held(r) /\ Busy(o) = Held(r)
  BY <1>1, <1>3
<1>10. Parks(o) <=> op \in {"sched", "leave"} \/ (op \notin {"runnable", "asleep"} /\ Parks(r))
  BY <1>1, <1>3
<1> QED BY <1>1, <1>4, <1>5, <1>6, <1>7, <1>8, <1>9, <1>10 DEF o, r

\* The thread of c gets u to do, and the value that its interrupts come back to is right.
LEMMA InterruptsSet ==
  ASSUME LockIInv, NEW c \in CPUs, NEW u, thread' = thread, saved' = saved,
         code'[thread'[c]] = u,
         \A t \in Threads : t # thread[c] => code'[t] = code[t],
         \A d \in CPUs : d # c => Before(d)' = Before(d),
         ~Resuming(u),
         thread[c] \in Pids => /\ Has(u, "iret") => ~Before(c)'
                               /\ ~Has(u, "iret") /\ ~Has(u, "trapret") => Before(c)'
  PROVE  InterruptsRemembered'
<1>0. thread \in [CPUs -> Threads] /\ Pids \subseteq Threads
  BY DEF LockIInv, LockTypeOK, Threads
<1>1. ASSUME NEW p \in Pids, Resuming(code'[p])
      PROVE  Remembers(p, saved[p])'
  <2>1. p # thread[c]
    BY <1>1
  <2>2. code'[p] = code[p] /\ Remembers(p, saved[p])
    BY <1>0, <1>1, <2>1 DEF LockIInv, InterruptsRemembered
  <2> QED BY <2>2 DEF Remembers
<1>2. ASSUME NEW d \in CPUs, thread[d] \in Pids, ~Resuming(code'[thread[d]])
      PROVE  Remembers(thread[d], Before(d))'
  <2>1. CASE d = c
    BY <1>2, <2>1 DEF Remembers
  <2>2. CASE d # c
    <3>1. thread[d] # thread[c]
      BY <2>2 DEF LockIInv, ThreadsRunOnce
    <3>2. code'[thread[d]] = code[thread[d]]
      BY <1>0, <3>1
    <3>3. Remembers(thread[d], Before(d))
      BY <1>2, <3>2 DEF LockIInv, InterruptsRemembered, Before
    <3> QED BY <2>2, <3>2, <3>3 DEF Remembers
  <2> QED BY <2>1, <2>2
<1> QED BY <1>1, <1>2 DEF InterruptsRemembered, Before

\* A step that leaves locks, interrupts and process states alone.
LEMMA QuietStep ==
  ASSUME LockIInv, NEW c \in CPUs, NEW u, Replaces(c, u), Fits(thread[c], u),
         UNCHANGED <<kernel, lockVars, cpuVars, saved, state, lockpanic>>,
         Held(u) = Held(code[thread[c]]), Busy(code[thread[c]]) = Held(u),
         Nest(code[thread[c]]) = Held(u), Parks(u) <=> Parks(code[thread[c]]),
         EndsLike(u, code[thread[c]]), ~Resuming(code[thread[c]])
  PROVE  LockIInv'
<1>1. /\ code'[thread'[c]] = u
      /\ \A d \in CPUs : d # c => code'[thread'[d]] = code[thread[d]]
      /\ \A t \in Threads : t # thread[c] => code'[t] = code[t]
  BY CodeFrame DEF Fits
<1>2. /\ thread' = thread /\ state' = state /\ saved' = saved
      /\ FL_IF' = FL_IF /\ ncli' = ncli /\ intena' = intena
  BY DEF cpuVars
<1>3. StatesMatchCode'
  BY <1>1, <1>2, StatesFrame
<1>4. \A d \in CPUs : Before(d)' = Before(d)
  BY <1>2 DEF Before
<1>5. InterruptsRemembered'
  BY <1>1, <1>2, <1>4, InterruptsFrame DEF Fits
<1>6. /\ FL_IF' \in [CPUs -> BOOLEAN] /\ \A d \in CPUs : d # c => FL_IF'[d] = FL_IF[d]
      /\ ncli[c] > 0 => ~FL_IF'[c]
      /\ state' \in [Pids -> {"RUNNABLE", "RUNNING", "SLEEPING"}]
  BY <1>2 DEF LockIInv, LockTypeOK, CliNests
<1>7. UNCHANGED <<kernel, lockVars, ncli, intena, saved, lockpanic>>
  BY <1>2
<1> QED BY <1>3, <1>5, <1>6, <1>7, PlainFrame

\* A step that is done.
LEMMA DoneIsReplaced ==
  ASSUME NEW c, Tail(code[thread[c]]) \in Seq(Steps), Proceed(c, <<>>), thread' = thread
  PROVE  Replaces(c, Tail(code[thread[c]]))
<1>1. <<>> \o Tail(code[thread[c]]) = Tail(code[thread[c]])
  BY PushConcat
<1> QED BY <1>1 DEF Proceed, Replaces

\* cli(), sti() and iret happen outside of every lock.
LEMMA SetsIFKeeps ==
  ASSUME LockIInv, NEW c \in CPUs, setsIF(c)
  PROVE  LockIInv'
<1> DEFINE t == thread[c]
           r == Tail(code[t])
<1>1. PICK op \in {"cli", "sti", "iret", "trapret"} :
        At(c, op) /\ FL_IF' = [FL_IF EXCEPT ![c] = op # "cli"]
  BY DEF setsIF
<1>2. /\ Proceed(c, <<>>)
      /\ UNCHANGED <<kernel, lockVars, ncli, intena, thread, saved, state, lockpanic>>
  BY DEF setsIF
<1>3. op \in Operations \ {"acquire", "xchg", "own", "release", "unlock"}
  BY DEF Operations
<1>4. /\ t \in Threads /\ r \in Seq(Steps) /\ Fits(t, r)
      /\ Held(code[t]) = Held(r) /\ Busy(code[t]) = Held(r) /\ Nest(code[t]) = Held(r)
      /\ Parks(code[t]) <=> Parks(r)
      /\ ncli[c] = Depth(Held(r))
  BY <1>1, <1>3, AtPlainStep
<1>5. PICK x \in Steps : x[1] = op /\ Legal(t, x, r)
  BY <1>1, <1>3, AtPlainStep
<1>6. Replaces(c, r)
  BY <1>2, <1>4, DoneIsReplaced
<1> HIDE DEF r
<1>7. Held(r) = {} /\ ncli[c] = 0
  <2>1. Held(r) = {}
    BY <1>5 DEF Legal, SwitchesUnderLock
  <2> QED BY <1>4, <2>1, DepthFacts
<1>8. /\ FL_IF' \in [CPUs -> BOOLEAN] /\ \A d \in CPUs : d # c => FL_IF'[d] = FL_IF[d]
      /\ FL_IF'[c] <=> op # "cli"
  BY <1>1 DEF LockIInv, LockTypeOK
<1>9. /\ code'[thread'[c]] = r
      /\ \A d \in CPUs : d # c => code'[thread'[d]] = code[thread[d]]
      /\ \A q \in Threads : q # thread[c] => code'[q] = code[q]
  BY <1>4, <1>6, CodeFrame DEF Fits
<1>10. thread' = thread /\ state' = state /\ saved' = saved /\ ncli' = ncli /\ intena' = intena
  BY <1>2
<1>11. StatesMatchCode'
  BY <1>4, <1>9, <1>10, StatesFrame
<1>12. \A d \in CPUs : d # c => Before(d)' = Before(d)
  BY <1>8, <1>10 DEF Before
<1>13. t \in Pids => op \in {"iret", "trapret"} /\ ~Has(r, "iret") /\ Before(c)'
  <2>1. t \in Pids => t \notin Schedulers
    BY ThreadFacts DEF LockIInv
  <2>2. t \in Pids => op \in {"iret", "trapret"} /\ ~Has(r, "iret")
    BY <1>5, <2>1 DEF Legal, StepOfThread
  <2> QED BY <2>2, <1>7, <1>8, <1>10 DEF Before
<1>14. InterruptsRemembered'
  <2>1. ~Resuming(r)
    BY <1>4 DEF Fits
  <2> QED BY <2>1, <1>9, <1>10, <1>12, <1>13, InterruptsSet
<1>15. UNCHANGED <<kernel, lockVars, ncli, intena, saved, lockpanic>>
  BY <1>2
<1>16. ncli[c] > 0 => ~FL_IF'[c]
  BY <1>7
<1>17. state' \in [Pids -> {"RUNNABLE", "RUNNING", "SLEEPING"}]
  BY <1>10 DEF LockIInv, LockTypeOK
<1> QED BY <1>4, <1>6, <1>8, <1>11, <1>14, <1>15, <1>16, <1>17, PlainFrame

\* A process that changes its state is about to park.
LEMMA SetsStateKeeps ==
  ASSUME LockIInv, NEW c \in CPUs, setsState(c)
  PROVE  LockIInv'
<1> DEFINE t == thread[c]
           r == Tail(code[t])
<1>1. PICK op \in {"runnable", "asleep"} :
        At(c, op) /\ state' = [state EXCEPT ![t] = IF op = "runnable" THEN "RUNNABLE" ELSE "SLEEPING"]
  BY DEF setsState
<1>2. Proceed(c, <<>>) /\ UNCHANGED <<kernel, lockVars, cpuVars, saved, lockpanic>>
  BY DEF setsState
<1>3. op \in Operations \ {"acquire", "xchg", "own", "release", "unlock"}
  BY DEF Operations
<1>4. /\ t \in Threads /\ r \in Seq(Steps) /\ Fits(t, r)
      /\ Held(code[t]) = Held(r) /\ Busy(code[t]) = Held(r) /\ Nest(code[t]) = Held(r)
      /\ ncli[c] > 0 => ~FL_IF[c]
      /\ ~Resuming(code[t])
  BY <1>1, <1>3, AtPlainStep
<1>5. EndsLike(r, code[t])
  BY <1>1, <1>3, AtPlainStep DEF EndsLike
<1>6. PICK x \in Steps : x[1] = op /\ Legal(t, x, r)
  BY <1>1, <1>3, AtPlainStep
<1>7. /\ thread' = thread /\ saved' = saved /\ ncli' = ncli /\ intena' = intena /\ FL_IF' = FL_IF
  BY <1>2 DEF cpuVars
<1>8. Replaces(c, r)
  BY <1>2, <1>4, <1>7, DoneIsReplaced
<1> HIDE DEF r
<1>9. t \in Pids /\ Parks(r)
  BY <1>6 DEF Legal, StepOfThread, SwitchesUnderLock
<1>10. /\ code'[thread'[c]] = r
       /\ \A d \in CPUs : d # c => thread'[d] # t /\ code'[thread'[d]] = code[thread[d]]
       /\ \A q \in Threads : q # thread[c] => code'[q] = code[q]
  BY <1>4, <1>8, CodeFrame DEF Fits
<1>11. /\ state' \in [Pids -> {"RUNNABLE", "RUNNING", "SLEEPING"}] /\ state'[t] # "RUNNING"
       /\ \A p \in Pids : p # t => state'[p] = state[p]
  BY <1>1, <1>9 DEF LockIInv, LockTypeOK
<1>12. StatesMatchCode'
  <2> SUFFICES ASSUME NEW d \in CPUs, thread[d] \in Pids
               PROVE  Parks(code'[thread[d]]) <=> state'[thread[d]] # "RUNNING"
    BY <1>7 DEF StatesMatchCode
  <2>1. CASE d = c
    BY <1>7, <1>9, <1>10, <1>11, <2>1
  <2>2. CASE d # c
    BY <1>7, <1>10, <1>11, <2>2 DEF LockIInv, StatesMatchCode
  <2> QED BY <2>1, <2>2
<1>13. \A d \in CPUs : Before(d)' = Before(d)
  BY <1>7 DEF Before
<1>14. InterruptsRemembered'
  <2>1. ~Resuming(r)
    BY <1>4 DEF Fits
  <2> QED BY <1>4, <1>5, <1>7, <1>10, <1>13, <2>1, InterruptsFrame
<1>15. UNCHANGED <<kernel, lockVars, ncli, intena, saved, lockpanic>>
  BY <1>2, <1>7
<1>16. /\ FL_IF' \in [CPUs -> BOOLEAN] /\ \A d \in CPUs : d # c => FL_IF'[d] = FL_IF[d]
       /\ ncli[c] > 0 => ~FL_IF'[c]
  BY <1>4, <1>7 DEF LockIInv, LockTypeOK
<1> QED BY <1>4, <1>8, <1>11, <1>12, <1>14, <1>15, <1>16, PlainFrame

\* sys_sleep() sleeps or has slept long enough, with tickslock.
LEMMA TestsKeeps ==
  ASSUME LockIInv, NEW c \in CPUs, tests(c)
  PROVE  LockIInv'
<1> DEFINE t == thread[c]
           r == Tail(code[t])
           d == Home(t)
           u == (Sleep(d) \o <<Do("test")>>) \o r
<1>1. /\ At(c, "test") /\ UNCHANGED <<kernel, lockVars, cpuVars, saved, state, lockpanic>>
      /\ Proceed(c, Sleep(d) \o <<Do("test")>>) \/ Proceed(c, <<>>)
  BY DEF tests
<1>2. "test" \in Operations \ {"acquire", "xchg", "own", "release", "unlock"}
  BY DEF Operations
<1>3. /\ t \in Threads /\ r \in Seq(Steps) /\ Fits(t, r)
      /\ Held(code[t]) = Held(r) /\ Busy(code[t]) = Held(r) /\ Nest(code[t]) = Held(r)
      /\ Parks(code[t]) <=> Parks(r)
      /\ ~Resuming(code[t])
  BY <1>1, <1>2, AtPlainStep
<1>4. EndsLike(r, code[t])
  BY <1>1, <1>2, AtPlainStep DEF EndsLike
<1>5. PICK x \in Steps : x[1] = "test" /\ Legal(t, x, r)
  BY <1>1, <1>2, AtPlainStep
<1>6. thread' = thread
  BY <1>1 DEF cpuVars
<1>7. CASE Proceed(c, <<>>)
  <2>1. Replaces(c, r)
    BY <1>3, <1>6, <1>7, DoneIsReplaced
  <2> HIDE DEF r
  <2> QED BY <1>1, <1>3, <1>4, <2>1, QuietStep
<1>8. CASE Proceed(c, Sleep(d) \o <<Do("test")>>)
  <2>1. Replaces(c, u)
    BY <1>6, <1>8 DEF Proceed, Replaces
  <2> HIDE DEF r, d
  <2>2. t \in Pids /\ Held(r) = {tickslock} /\ ~Parks(r)
    BY <1>5 DEF Legal, StepOfThread, SwitchesUnderLock
  <2>3. d \in CPUs
    BY <2>2, ThreadFacts DEF LockIInv, d
  <2>4. Fits(t, u) /\ Held(u) = {tickslock} /\ ~Parks(u) /\ EndsLike(u, r)
    BY <1>3, <2>2, <2>3, FitsTest
  <2> HIDE DEF u
  <2>5. EndsLike(u, code[t])
    BY <1>4, <2>4 DEF EndsLike
  <2> QED BY <1>1, <1>3, <2>1, <2>2, <2>4, <2>5, QuietStep
<1> QED BY <1>1, <1>7, <1>8

\* wakeup1() makes a sleeper RUNNABLE, which has parked already.
LEMMA WakeupKeeps ==
  ASSUME LockIInv, NEW c \in CPUs, wakeup1(c)
  PROVE  LockIInv'
<1> DEFINE t == thread[c]
           r == Tail(code[t])
           sleepers == {p \in Pids : state[p] = "SLEEPING"}
<1>1. /\ At(c, "wakeup1") /\ UNCHANGED <<kernel, lockVars, cpuVars, saved, lockpanic>>
      /\ \/ Proceed(c, <<>>) /\ UNCHANGED state
         \/ \E p \in sleepers : /\ state' = [state EXCEPT ![p] = "RUNNABLE"]
                                /\ Proceed(c, RunQueue(Home(p)) \o <<Do("wakeup1")>>)
  BY DEF wakeup1
<1>2. "wakeup1" \in Operations \ {"acquire", "xchg", "own", "release", "unlock"}
  BY DEF Operations
<1>3. /\ t \in Threads /\ r \in Seq(Steps) /\ Fits(t, r)
      /\ Held(code[t]) = Held(r) /\ Busy(code[t]) = Held(r) /\ Nest(code[t]) = Held(r)
      /\ Parks(code[t]) <=> Parks(r)
      /\ ncli[c] > 0 => ~FL_IF[c]
      /\ ~Resuming(code[t])
  BY <1>1, <1>2, AtPlainStep
<1>4. EndsLike(r, code[t])
  BY <1>1, <1>2, AtPlainStep DEF EndsLike
<1>5. PICK x \in Steps : x[1] = "wakeup1" /\ Legal(t, x, r)
  BY <1>1, <1>2, AtPlainStep
<1>6. /\ thread' = thread /\ saved' = saved /\ ncli' = ncli /\ intena' = intena /\ FL_IF' = FL_IF
  BY <1>1 DEF cpuVars
<1>7. ASSUME Proceed(c, <<>>), UNCHANGED state
      PROVE  LockIInv'
  <2>1. Replaces(c, r)
    BY <1>3, <1>6, <1>7, DoneIsReplaced
  <2>2. UNCHANGED <<kernel, lockVars, cpuVars, saved, state, lockpanic>>
    BY <1>1, <1>7
  <2> HIDE DEF r
  <2> QED BY <1>3, <1>4, <2>1, <2>2, QuietStep
<1>8. ASSUME NEW p \in sleepers, state' = [state EXCEPT ![p] = "RUNNABLE"],
             Proceed(c, RunQueue(Home(p)) \o <<Do("wakeup1")>>)
      PROVE  LockIInv'
  <2> DEFINE d == Home(p)
             u == (RunQueue(d) \o <<Do("wakeup1")>>) \o r
  <2>1. Replaces(c, u)
    BY <1>6, <1>8 DEF Proceed, Replaces
  <2> HIDE DEF r, d
  <2>2. Held(r) = {tickslock, ptable} /\ ~Parks(r)
    BY <1>5 DEF Legal, SwitchesUnderLock
  <2>3. d \in CPUs /\ p \in Pids /\ state[p] = "SLEEPING"
    BY ThreadFacts DEF LockIInv, d
  <2>4. Fits(t, u) /\ Held(u) = {tickslock, ptable} /\ ~Parks(u) /\ EndsLike(u, r)
    BY <1>3, <2>2, <2>3, FitsWakeup
  <2> HIDE DEF u
  <2>5. EndsLike(u, code[t]) /\ ~Resuming(u)
    BY <1>4, <2>4 DEF EndsLike, Fits
  <2>6. /\ code'[thread'[c]] = u
        /\ \A e \in CPUs : e # c => thread'[e] # t /\ code'[thread'[e]] = code[thread[e]]
        /\ \A q \in Threads : q # thread[c] => code'[q] = code[q]
    BY <2>1, <2>4, CodeFrame DEF Fits
  <2>7. /\ state' \in [Pids -> {"RUNNABLE", "RUNNING", "SLEEPING"}]
        /\ \A q \in Pids : state'[q] = "RUNNING" <=> state[q] = "RUNNING"
    BY <1>8, <2>3 DEF LockIInv, LockTypeOK
  <2>8. StatesMatchCode'
    <3> SUFFICES ASSUME NEW e \in CPUs, thread[e] \in Pids
                 PROVE  Parks(code'[thread[e]]) <=> state'[thread[e]] # "RUNNING"
      BY <1>6 DEF StatesMatchCode
    <3>1. Parks(code[thread[e]]) <=> state[thread[e]] # "RUNNING"
      BY DEF LockIInv, StatesMatchCode
    <3>2. Parks(code'[thread[e]]) <=> Parks(code[thread[e]])
      <4>1. CASE e = c
        BY <1>3, <1>6, <2>2, <2>4, <2>6, <4>1
      <4>2. CASE e # c
        BY <1>6, <2>6, <4>2
      <4> QED BY <4>1, <4>2
    <3> QED BY <2>7, <3>1, <3>2
  <2>9. \A e \in CPUs : Before(e)' = Before(e)
    BY <1>6 DEF Before
  <2>10. InterruptsRemembered'
    BY <1>3, <1>6, <2>5, <2>6, <2>9, InterruptsFrame
  <2>11. UNCHANGED <<kernel, lockVars, ncli, intena, saved, lockpanic>>
    BY <1>1, <1>6
  <2>12. /\ FL_IF' \in [CPUs -> BOOLEAN] /\ \A e \in CPUs : e # c => FL_IF'[e] = FL_IF[e]
         /\ ncli[c] > 0 => ~FL_IF'[c]
    BY <1>3, <1>6 DEF LockIInv, LockTypeOK
  <2>13. /\ Held(u) = Held(code[t]) /\ Busy(code[t]) = Held(u) /\ Nest(code[t]) = Held(u)
    BY <1>3, <2>2, <2>4
  <2> QED BY <2>1, <2>4, <2>7, <2>8, <2>10, <2>11, <2>12, <2>13, PlainFrame
<1> QED BY <1>1, <1>7, <1>8

\* sched(): none of its panics is reached.
LEMMA SchedKeeps ==
  ASSUME LockIInv, NEW c \in CPUs, sched(c)
  PROVE  LockIInv'
<1> DEFINE t == thread[c]
           r == Tail(code[t])
           d == Home(t)
           b == state[t] = "RUNNABLE"
           u == ((IF b THEN RunQueue(d) ELSE <<>>) \o <<Do("leave"), Do("resume")>>) \o r
<1>1. At(c, "sched")
  BY DEF sched
<1>2. "sched" \in Operations \ {"acquire", "xchg", "own", "release", "unlock"}
  BY DEF Operations
<1>3. /\ t \in Threads /\ r \in Seq(Steps) /\ Fits(t, r)
      /\ Held(code[t]) = Held(r) /\ Busy(code[t]) = Held(r) /\ Nest(code[t]) = Held(r)
      /\ Parks(code[t])
      /\ ncli[c] = Depth(Held(r)) /\ (ncli[c] > 0 => ~FL_IF[c])
      /\ ~Resuming(code[t])
  BY <1>1, <1>2, AtPlainStep
<1>4. EndsLike(r, code[t])
  BY <1>1, <1>2, AtPlainStep DEF EndsLike
<1>5. PICK x \in Steps : x[1] = "sched" /\ Legal(t, x, r)
  BY <1>1, <1>2, AtPlainStep
<1> HIDE DEF r
<1>6. t \in Pids /\ Held(r) = {ptable} /\ ~Parks(r)
  BY <1>5 DEF Legal, StepOfThread, SwitchesUnderLock
<1>7. ncli[c] = 1 /\ ~FL_IF[c]
  BY <1>3, <1>6, DepthFacts
<1>8. state[t] # "RUNNING"
  BY <1>3, <1>6 DEF LockIInv, StatesMatchCode
<1>9. Holding(c, ptable)
  <2>1. ptable \in Held(code[t]) /\ ptable \in Busy(code[t]) /\ ptable \in Locks
    BY <1>3, <1>6, LockFacts
  <2> QED BY <2>1 DEF Holding, LockIInv, LocksMatchCode
<1>10. /\ Proceed(c, (IF b THEN RunQueue(d) ELSE <<>>) \o <<Do("leave"), Do("resume")>>)
       /\ UNCHANGED <<kernel, lockVars, cpuVars, saved, state, lockpanic>>
  BY <1>7, <1>8, <1>9 DEF sched
<1>11. Replaces(c, u)
  BY <1>10 DEF Proceed, Replaces, cpuVars, r
<1>12. d \in CPUs /\ b \in BOOLEAN
  BY <1>6, ThreadFacts DEF LockIInv
<1>13. Fits(t, u) /\ Held(u) = {ptable} /\ Parks(u) /\ EndsLike(u, r)
  <2> HIDE DEF b, d
  <2> QED BY <1>3, <1>6, <1>12, FitsSwitch
<1> HIDE DEF u
<1>14. EndsLike(u, code[t])
  BY <1>4, <1>13 DEF EndsLike
<1> QED BY <1>3, <1>6, <1>10, <1>11, <1>13, <1>14, QuietStep

\* A step of a scheduler that leaves locks and interrupts alone.
LEMMA SchedulerStep ==
  ASSUME LockIInv, NEW c \in CPUs, NEW u, Replaces(c, u), Fits(thread[c], u), thread[c] \notin Pids,
         UNCHANGED <<kernel, lockVars, cpuVars, saved, state, lockpanic>>,
         Held(u) = Held(code[thread[c]]), Busy(code[thread[c]]) = Held(u),
         Nest(code[thread[c]]) = Held(u)
  PROVE  LockIInv'
<1>1. /\ code'[thread'[c]] = u
      /\ \A d \in CPUs : d # c => code'[thread'[d]] = code[thread[d]]
      /\ \A t \in Threads : t # thread[c] => code'[t] = code[t]
  BY CodeFrame DEF Fits
<1>2. /\ thread' = thread /\ state' = state /\ saved' = saved
      /\ FL_IF' = FL_IF /\ ncli' = ncli /\ intena' = intena
  BY DEF cpuVars
<1>3. StatesMatchCode'
  <2> SUFFICES ASSUME NEW d \in CPUs, thread[d] \in Pids
               PROVE  Parks(code'[thread[d]]) <=> state[thread[d]] # "RUNNING"
    BY <1>2 DEF StatesMatchCode
  <2>1. d # c
    OBVIOUS
  <2> QED BY <1>1, <1>2, <2>1 DEF LockIInv, StatesMatchCode
<1>4. \A d \in CPUs : Before(d)' = Before(d)
  BY <1>2 DEF Before
<1>5. InterruptsRemembered'
  <2>1. ~Resuming(u)
    BY DEF Fits
  <2> QED BY <1>1, <1>2, <1>4, <2>1, InterruptsSet
<1>6. /\ FL_IF' \in [CPUs -> BOOLEAN] /\ \A d \in CPUs : d # c => FL_IF'[d] = FL_IF[d]
      /\ ncli[c] > 0 => ~FL_IF'[c]
      /\ state' \in [Pids -> {"RUNNABLE", "RUNNING", "SLEEPING"}]
  BY <1>2 DEF LockIInv, LockTypeOK, CliNests
<1>7. UNCHANGED <<kernel, lockVars, ncli, intena, saved, lockpanic>>
  BY <1>2
<1> QED BY <1>3, <1>5, <1>6, <1>7, PlainFrame

\* Nothing to do in the kernel.
LEMMA AtRest ==
  Busy(<<>>) = {} /\ Nest(<<>>) = {} /\ Held(<<>>) = {} /\ ~Parks(<<>>) /\ ~Resuming(<<>>)
BY NoCode DEF Busy, Nest, Resuming

\* A scheduler goes round its loop.
LEMMA TurnKeeps ==
  ASSUME LockIInv, NEW c \in CPUs, turn(c)
  PROVE  LockIInv'
<1> DEFINE t == thread[c]
<1>1. /\ t = SchedulerOf(c) /\ code[t] = <<>>
      /\ UNCHANGED <<kernel, lockVars, cpuVars, saved, state, lockpanic>>
  BY DEF turn
<1>2. PICK steps \in Turns(c) : code' = [code EXCEPT ![t] = steps]
  BY DEF turn
<1>3. t \in Schedulers /\ t \notin Pids
  BY <1>1, ThreadFacts DEF LockIInv
<1>4. Fits(t, steps) /\ Held(steps) = {}
  BY <1>3, FitsTurn
<1>5. Replaces(c, steps)
  BY <1>1, <1>2 DEF Replaces, cpuVars
<1>6. Held(steps) = Held(code[t]) /\ Busy(code[t]) = Held(steps) /\ Nest(code[t]) = Held(steps)
  BY <1>1, <1>4, AtRest
<1> QED BY <1>1, <1>3, <1>4, <1>5, <1>6, SchedulerStep

\* rq_select() has looked for a process.
LEMMA SelectKeeps ==
  ASSUME LockIInv, NEW c \in CPUs, rq_select(c)
  PROVE  LockIInv'
<1> DEFINE t == thread[c]
           r == Tail(code[t])
           u == r \o (IF Runnable(c) = {} THEN Idle ELSE RunSelected(c))
<1>1. /\ At(c, "rq_select") /\ code' = [code EXCEPT ![t] = u]
      /\ UNCHANGED <<kernel, lockVars, cpuVars, saved, state, lockpanic>>
  BY DEF rq_select
<1>2. "rq_select" \in Operations \ {"acquire", "xchg", "own", "release", "unlock"}
  BY DEF Operations
<1>3. /\ t \in Threads /\ r \in Seq(Steps) /\ Fits(t, r)
      /\ Held(code[t]) = Held(r) /\ Busy(code[t]) = Held(r) /\ Nest(code[t]) = Held(r)
  BY <1>1, <1>2, AtPlainStep
<1>4. PICK x \in Steps : x[1] = "rq_select" /\ Legal(t, x, r)
  BY <1>1, <1>2, AtPlainStep
<1> HIDE DEF r
<1>5. t \in Schedulers /\ \E d \in CPUs : r = <<Release(rqlock(d))>>
  BY <1>4 DEF Legal, StepOfThread, SwitchesUnderLock
<1>6. t \notin Pids
  BY <1>5, ThreadFacts DEF LockIInv
<1>7. PICK d \in CPUs : r = <<Release(rqlock(d))>>
  BY <1>5
<1>8. Fits(t, u) /\ Held(u) = {rqlock(d)}
  BY <1>5, <1>6, <1>7, FitsFound
<1>9. Held(r) = {rqlock(d)}
  <2>1. Release(rqlock(d)) \in Steps /\ rqlock(d) \in Locks
    BY LockFacts, Written2
  <2>2. r = Push(Release(rqlock(d)), <<>>)
    BY <1>7, <2>1, Written
  <2>3. \A m \in Locks : m \in Held(r) <=> m = rqlock(d)
    <3>1. \A m \in Locks : Release(rqlock(d)) = Release(m) <=> m = rqlock(d)
      BY DEF Release
    <3> QED BY <2>1, <2>2, <3>1, HeldPush, NoCode
  <2>4. Held(r) \subseteq Locks
    BY DEF Held
  <2> QED BY <2>1, <2>3, <2>4
<1>10. Replaces(c, u)
  BY <1>1 DEF Replaces, cpuVars
<1> HIDE DEF u
<1>11. Held(u) = Held(code[t]) /\ Busy(code[t]) = Held(u) /\ Nest(code[t]) = Held(u)
  BY <1>3, <1>8, <1>9
<1> QED BY <1>1, <1>6, <1>8, <1>10, <1>11, SchedulerStep

\* A process calls sleep() from user mode.
LEMMA SyscallKeeps ==
  ASSUME LockIInv, NEW c \in CPUs, syscall(c)
  PROVE  LockIInv'
<1> DEFINE t == thread[c]
           u == sys_sleep
<1>1. /\ t \in Pids /\ code[t] = <<>> /\ code' = [code EXCEPT ![t] = u]
      /\ UNCHANGED <<kernel, lockVars, cpuVars, saved, state, lockpanic>>
  BY DEF syscall
<1>2. Fits(t, u) /\ Held(u) = {} /\ EndsLike(u, <<>>)
  BY <1>1, FitsSysSleep
<1>3. Replaces(c, u)
  BY <1>1 DEF Replaces, cpuVars
<1> HIDE DEF u
<1>4. Held(u) = Held(code[t]) /\ Busy(code[t]) = Held(u) /\ Nest(code[t]) = Held(u)
      /\ (Parks(u) <=> Parks(code[t])) /\ ~Resuming(code[t]) /\ EndsLike(u, code[t])
  <2>1. ~Parks(u)
    BY <1>2 DEF Fits
  <2> QED BY <1>1, <1>2, <2>1, AtRest
<1> QED BY <1>1, <1>2, <1>3, <1>4, QuietStep

\* The timer interrupts code that is outside of every lock.
LEMMA TimerKeeps ==
  ASSUME LockIInv, NEW c \in CPUs, timer(c)
  PROVE  LockIInv'
<1> DEFINE t == thread[c]
           o == code[t]
           u == Handler(c) \o o
<1>1. /\ FL_IF[c] /\ FL_IF' = [FL_IF EXCEPT ![c] = FALSE]
      /\ code' = [code EXCEPT ![t] = u]
      /\ UNCHANGED <<kernel, lockVars, ncli, intena, thread, saved, state, lockpanic>>
  BY DEF timer
<1>2. /\ t \in Threads /\ o \in Seq(Steps) /\ Disciplined(t, o)
      /\ Parks(o) => ptable \in Held(o)
      /\ ncli \in [CPUs -> 0 .. 3] /\ ncli[c] = Depth(Nest(o)) /\ (ncli[c] > 0 => ~FL_IF[c])
  BY DEF LockIInv, LockTypeOK, CodeIsDisciplined, CliNests
<1>3. Replaces(c, u)
  BY <1>1 DEF Replaces
<1> HIDE DEF o
<1>4. ncli[c] = 0 /\ Nest(o) = {}
  <2>1. ncli[c] = 0
    BY <1>1, <1>2
  <2>2. Nest(o) \in SUBSET Locks
    BY DEF Nest, Held, Pending
  <2> QED BY <1>2, <2>1, <2>2, DepthFacts
<1>5. /\ Held(o) = {} /\ Busy(o) = {} /\ Pending(o, {"xchg", "own", "unlock"}) = {}
      /\ ~Parks(o)
  <2>1. Held(o) = {} /\ Pending(o, {"xchg", "own", "unlock"}) = {}
    BY <1>4 DEF Nest
  <2>2. Pending(o, {"own", "unlock"}) \subseteq Pending(o, {"xchg", "own", "unlock"})
    BY DEF Pending
  <2> QED BY <1>2, <2>1, <2>2 DEF Busy
<1>6. ~Resuming(o)
  <2> SUFFICES ASSUME Resuming(o) PROVE FALSE
    OBVIOUS
  <2>1. At(c, "resume")
    BY DEF Resuming, At, o
  <2>2. "resume" \in Operations \ {"acquire", "xchg", "own", "release", "unlock"}
    BY DEF Operations
  <2>3. Held(o) = Held(Tail(o)) /\ \E x \in Steps : x[1] = "resume" /\ Legal(t, x, Tail(o))
    BY <2>1, <2>2, AtPlainStep DEF o
  <2>4. Held(Tail(o)) = {ptable}
    BY <2>3 DEF Legal, SwitchesUnderLock
  <2> QED BY <1>5, <2>3, <2>4
<1>7. Fits(t, o)
  BY <1>2, <1>5, <1>6 DEF Fits
<1>8. t \in Pids => ~Has(o, "iret")
  BY <1>1, <1>4, <1>6 DEF LockIInv, InterruptsRemembered, Remembers, o
<1>9. Fits(t, u) /\ Held(u) = {} /\ Has(u, "iret")
  BY <1>2, <1>5, <1>7, <1>8, FitsHandler
<1> HIDE DEF u
<1>10. ~Parks(u) /\ ~Resuming(u)
  BY <1>9 DEF Fits
<1>11. /\ code'[thread'[c]] = u
       /\ \A d \in CPUs : d # c => code'[thread'[d]] = code[thread[d]]
       /\ \A q \in Threads : q # thread[c] => code'[q] = code[q]
  BY <1>3, <1>9, CodeFrame DEF Fits
<1>12. thread' = thread /\ state' = state /\ saved' = saved /\ ncli' = ncli /\ intena' = intena
  BY <1>1
<1>13. /\ FL_IF' \in [CPUs -> BOOLEAN] /\ \A d \in CPUs : d # c => FL_IF'[d] = FL_IF[d]
       /\ ~FL_IF'[c]
  BY <1>1 DEF LockIInv, LockTypeOK
<1>14. StatesMatchCode'
  <2>1. Parks(u) <=> Parks(code[t])
    BY <1>5, <1>10 DEF o
  <2> QED BY <1>11, <1>12, <2>1, StatesFrame
<1>15. InterruptsRemembered'
  <2>1. \A d \in CPUs : d # c => Before(d)' = Before(d)
    BY <1>12, <1>13 DEF Before
  <2>2. ~Before(c)'
    BY <1>4, <1>12, <1>13 DEF Before
  <2> QED BY <1>9, <1>10, <1>11, <1>12, <2>1, <2>2, InterruptsSet
<1>16. UNCHANGED <<kernel, lockVars, ncli, intena, saved, lockpanic>>
  BY <1>1
<1>17. state' \in [Pids -> {"RUNNABLE", "RUNNING", "SLEEPING"}]
  BY <1>12 DEF LockIInv, LockTypeOK
<1>18. Held(u) = Held(code[t]) /\ Busy(code[t]) = Held(u) /\ Nest(code[t]) = Held(u)
  BY <1>4, <1>5, <1>9 DEF o
<1> QED BY <1>3, <1>9, <1>13, <1>14, <1>15, <1>16, <1>17, <1>18, PlainFrame

\* A process that comes back to sched() gets its own intena.
LEMMA ResumeKeeps ==
  ASSUME LockIInv, NEW c \in CPUs, resume(c)
  PROVE  LockIInv'
<1> DEFINE t == thread[c]
           r == Tail(code[t])
<1>1. /\ At(c, "resume") /\ intena' = [intena EXCEPT ![c] = saved[t]] /\ Proceed(c, <<>>)
      /\ UNCHANGED <<kernel, lockVars, FL_IF, ncli, thread, saved, state, lockpanic>>
  BY DEF resume
<1>2. "resume" \in Operations \ {"acquire", "xchg", "own", "release", "unlock"}
  BY DEF Operations
<1>3. /\ t \in Threads /\ r \in Seq(Steps) /\ Fits(t, r)
      /\ Held(code[t]) = Held(r) /\ Busy(code[t]) = Held(r) /\ Nest(code[t]) = Held(r)
      /\ Parks(code[t]) <=> Parks(r)
      /\ ncli[c] = Depth(Held(r)) /\ (ncli[c] > 0 => ~FL_IF[c])
      /\ Resuming(code[t])
  BY <1>1, <1>2, AtPlainStep
<1>4. EndsLike(r, code[t])
  BY <1>1, <1>2, AtPlainStep DEF EndsLike
<1>5. PICK x \in Steps : x[1] = "resume" /\ Legal(t, x, r)
  BY <1>1, <1>2, AtPlainStep
<1>6. Replaces(c, r)
  BY <1>1, <1>3, DoneIsReplaced
<1> HIDE DEF r
<1>7. t \in Pids /\ Held(r) = {ptable} /\ ~Resuming(r)
  BY <1>3, <1>5 DEF Legal, StepOfThread, SwitchesUnderLock, Fits
<1>8. ncli[c] = 1
  BY <1>3, <1>7, DepthFacts
<1>9. /\ code' \in [Threads -> Seq(Steps)] /\ thread' \in [CPUs -> Threads]
      /\ CodeIsDisciplined' /\ ThreadsRunOnce' /\ SwitchedOut'
      /\ code'[thread'[c]] = r
      /\ \A d \in CPUs : d # c => code'[thread'[d]] = code[thread[d]]
      /\ \A q \in Threads : q # thread[c] => code'[q] = code[q]
  BY <1>3, <1>6, CodeFrame DEF Fits
<1>10. /\ thread' = thread /\ state' = state /\ saved' = saved /\ ncli' = ncli /\ FL_IF' = FL_IF
       /\ UNCHANGED lockVars /\ kernel' = kernel /\ lockpanic' = lockpanic
  BY <1>1
<1>11. Busy(r) = Held(r) /\ Nest(r) = Held(r)
  BY <1>3, FitsLocks
<1>12. LocksMatchCode'
  BY <1>3, <1>9, <1>10, <1>11, LocksFrame
<1>13. CliNests'
  BY <1>3, <1>9, <1>10, <1>11, CliFrame
<1>14. StatesMatchCode'
  BY <1>3, <1>9, <1>10, StatesFrame
<1>15. /\ intena' \in [CPUs -> BOOLEAN] /\ intena'[c] = saved[t]
       /\ \A d \in CPUs : d # c => intena'[d] = intena[d]
  BY <1>1, <1>7 DEF LockIInv, LockTypeOK
<1>16. InterruptsRemembered'
  <2>1. \A d \in CPUs : d # c => Before(d)' = Before(d)
    BY <1>10, <1>15 DEF Before
  <2>2. Before(c)' = saved[t]
    BY <1>8, <1>10, <1>15 DEF Before
  <2>3. Remembers(t, saved[t])
    BY <1>3, <1>7 DEF LockIInv, InterruptsRemembered
  <2>4. /\ Has(r, "iret") => ~saved[t]
        /\ ~Has(r, "iret") /\ ~Has(r, "trapret") => saved[t]
    BY <1>4, <2>3 DEF Remembers, EndsLike
  <2> QED BY <1>7, <1>9, <1>10, <2>1, <2>2, <2>4, InterruptsSet
<1>17. LockTypeOK'
  BY <1>9, <1>10, <1>15 DEF LockIInv, LockTypeOK, lockVars
<1> QED BY <1>9, <1>10, <1>12, <1>13, <1>14, <1>16, <1>17 DEF LockIInv, NoPanic

\* A CPU switches from a thread, which has r to do when it comes back, to one on no CPU.
LEMMA SwitchFrame ==
  ASSUME LockIInv, NEW c \in CPUs, NEW r \in Seq(Steps), NEW n \in Threads,
         n \in Pids \cup {SchedulerOf(c)}, \A d \in CPUs : thread[d] # n,
         thread' = [thread EXCEPT ![c] = n], code' = [code EXCEPT ![thread[c]] = r],
         Held(code[thread[c]]) = {ptable}, Busy(code[thread[c]]) = {ptable},
         Nest(code[thread[c]]) = {ptable},
         Disciplined(thread[c], r), Held(r) = {ptable}, ~Parks(r),
         Pending(r, {"xchg", "own", "unlock"}) = {}, thread[c] \in Pids => Resuming(r),
         UNCHANGED <<kernel, lockVars, FL_IF, ncli, intena, lockpanic>>,
         saved' \in [Pids -> BOOLEAN],
         state' \in [Pids -> {"RUNNABLE", "RUNNING", "SLEEPING"}],
         StatesMatchCode', InterruptsRemembered'
  PROVE  LockIInv'
<1>1. /\ code \in [Threads -> Seq(Steps)] /\ thread \in [CPUs -> Threads] /\ thread[c] \in Threads
      /\ ncli \in [CPUs -> 0 .. 3]
  BY DEF LockIInv, LockTypeOK
<1>2. /\ code' \in [Threads -> Seq(Steps)] /\ thread' \in [CPUs -> Threads] /\ thread'[c] = n
      /\ \A d \in CPUs : d # c => thread'[d] = thread[d]
      /\ code'[thread[c]] = r /\ \A q \in Threads : q # thread[c] => code'[q] = code[q]
  BY <1>1
<1>3. /\ Held(code[n]) = {ptable} /\ Busy(code[n]) = {ptable} /\ Nest(code[n]) = {ptable}
  <2>1. Held(code[n]) = {ptable} /\ Pending(code[n], {"xchg", "own", "unlock"}) = {}
    BY DEF LockIInv, SwitchedOut
  <2>2. Pending(code[n], {"own", "unlock"}) \subseteq Pending(code[n], {"xchg", "own", "unlock"})
    BY DEF Pending
  <2> QED BY <2>1, <2>2 DEF Busy, Nest
<1>4. code'[thread'[c]] = code[n]
  BY <1>2
<1>5. \A d \in CPUs : d # c => thread[d] # thread[c] /\ code'[thread'[d]] = code[thread[d]]
  BY <1>1, <1>2 DEF LockIInv, ThreadsRunOnce
<1>6. CodeIsDisciplined'
  <2> SUFFICES ASSUME NEW t \in Threads
               PROVE  Disciplined(t, code'[t]) /\ (Parks(code'[t]) => ptable \in Held(code'[t]))
    BY DEF CodeIsDisciplined
  <2>1. CASE t = thread[c]
    BY <1>2, <2>1
  <2>2. CASE t # thread[c]
    BY <1>2, <2>2 DEF LockIInv, CodeIsDisciplined
  <2> QED BY <2>1, <2>2
<1>7. ThreadsRunOnce'
  BY <1>2 DEF LockIInv, ThreadsRunOnce
<1>8. \A d \in CPUs : /\ Held(code'[thread'[d]]) = Held(code[thread[d]])
                      /\ Busy(code'[thread'[d]]) = Busy(code[thread[d]])
                      /\ Nest(code'[thread'[d]]) = Nest(code[thread[d]])
  BY <1>3, <1>4, <1>5
<1>9. LocksMatchCode'
  <2>1. LocksMatchCode
    BY DEF LockIInv
  <2> QED BY <1>8, <2>1 DEF LocksMatchCode, lockVars
<1>10. CliNests'
  BY <1>8 DEF LockIInv, CliNests
<1>11. SwitchedOut'
  <2> SUFFICES ASSUME NEW t \in Threads, \A d \in CPUs : thread'[d] # t
               PROVE  /\ Held(code'[t]) = {ptable} /\ ~Parks(code'[t])
                      /\ Pending(code'[t], {"xchg", "own", "unlock"}) = {}
                      /\ t \in Pids => \/ Resuming(code'[t])
                                       \/ Has(code'[t], "trapret") /\ ~Has(code'[t], "iret")
    BY DEF SwitchedOut
  <2>1. CASE t = thread[c]
    BY <1>2, <2>1
  <2>2. CASE t # thread[c]
    <3>1. \A d \in CPUs : thread[d] # t
      BY <1>2, <2>2
    <3> QED BY <1>2, <2>2, <3>1 DEF LockIInv, SwitchedOut
  <2> QED BY <2>1, <2>2
<1>12. LockTypeOK'
  BY <1>2 DEF LockIInv, LockTypeOK, lockVars
<1> QED BY <1>6, <1>7, <1>9, <1>10, <1>11, <1>12 DEF LockIInv, NoPanic

\* sched() switches to the scheduler, with ptable.lock.
LEMMA LeaveKeeps ==
  ASSUME LockIInv, NEW c \in CPUs, leave(c)
  PROVE  LockIInv'
<1> DEFINE t == thread[c]
           r == Tail(code[t])
           n == SchedulerOf(c)
<1>1. /\ At(c, "leave") /\ Proceed(c, <<>>)
      /\ saved' = [saved EXCEPT ![t] = intena[c]]
      /\ thread' = [thread EXCEPT ![c] = n]
      /\ UNCHANGED <<kernel, lockVars, FL_IF, ncli, intena, state, lockpanic>>
  BY DEF leave
<1>2. "leave" \in Operations \ {"acquire", "xchg", "own", "release", "unlock"}
  BY DEF Operations
<1>3. /\ t \in Threads /\ r \in Seq(Steps)
      /\ Held(code[t]) = Held(r) /\ Busy(code[t]) = Held(r) /\ Nest(code[t]) = Held(r)
      /\ ncli[c] = Depth(Held(r)) /\ (ncli[c] > 0 => ~FL_IF[c])
      /\ ~Resuming(code[t])
  BY <1>1, <1>2, AtPlainStep
<1>4. EndsLike(r, code[t])
  BY <1>1, <1>2, AtPlainStep DEF EndsLike
<1>5. PICK x \in Steps : x[1] = "leave" /\ Legal(t, x, r) /\ code[t] = Push(x, r)
  BY <1>1, <1>2, AtPlainStep
<1>6. code' = [code EXCEPT ![t] = r]
  <2>1. <<>> \o r = r
    BY <1>3, PushConcat
  <2> QED BY <1>1, <2>1 DEF Proceed
<1> HIDE DEF r
<1>7. /\ t \in Pids /\ Held(r) = {ptable} /\ ~Parks(r) /\ Resuming(r)
      /\ Pending(r, {"xchg", "own", "unlock"}) = {}
  BY <1>5 DEF Legal, StepOfThread, SwitchesUnderLock
<1>8. Disciplined(t, r)
  <2>1. Disciplined(t, code[t])
    BY <1>3 DEF LockIInv, CodeIsDisciplined
  <2> QED BY <1>3, <1>5, <2>1, DisciplinedPush
<1>9. n \in Threads /\ n \notin Pids /\ \A d \in CPUs : thread[d] # n
  <2>1. n \in Threads /\ n \notin Pids
    BY ThreadFacts DEF LockIInv
  <2>2. \A d \in CPUs : SchedulerOf(d) = n => d = c
    BY ThreadFacts DEF LockIInv
  <2>3. \A d \in CPUs : thread[d] \in Pids \cup {SchedulerOf(d)}
    BY DEF LockIInv, ThreadsRunOnce
  <2> QED BY <1>7, <2>1, <2>2, <2>3
<1>10. ncli[c] = 1
  BY <1>3, <1>7, DepthFacts
<1>11. /\ saved' \in [Pids -> BOOLEAN] /\ saved'[t] = intena[c]
       /\ \A p \in Pids : p # t => saved'[p] = saved[p]
  BY <1>1, <1>7 DEF LockIInv, LockTypeOK
<1>12. /\ thread'[c] = n /\ \A d \in CPUs : d # c => thread'[d] = thread[d] /\ thread[d] # t
       /\ code'[t] = r /\ \A q \in Threads : q # t => code'[q] = code[q]
  BY <1>1, <1>3, <1>6 DEF LockIInv, LockTypeOK, ThreadsRunOnce
<1>13. Pids \subseteq Threads
  BY DEF Threads
<1>14. StatesMatchCode'
  <2> SUFFICES ASSUME NEW d \in CPUs, thread'[d] \in Pids
               PROVE  Parks(code'[thread'[d]]) <=> state'[thread'[d]] # "RUNNING"
    BY DEF StatesMatchCode
  <2>1. d # c
    BY <1>9, <1>12
  <2>2. thread'[d] = thread[d] /\ code'[thread[d]] = code[thread[d]] /\ state' = state
    BY <1>1, <1>12, <1>13, <2>1
  <2> QED BY <2>2 DEF LockIInv, StatesMatchCode
<1>15. InterruptsRemembered'
  <2>1. ASSUME NEW p \in Pids, Resuming(code'[p])
        PROVE  Remembers(p, saved[p])'
    <3>1. CASE p = t
      <4>1. Remembers(t, intena[c])
        BY <1>3, <1>7, <1>10 DEF LockIInv, InterruptsRemembered
      <4> QED BY <1>4, <1>11, <1>12, <3>1, <4>1 DEF Remembers, EndsLike
    <3>2. CASE p # t
      <4>1. code'[p] = code[p] /\ saved'[p] = saved[p]
        BY <1>11, <1>12, <1>13, <3>2
      <4>2. Remembers(p, saved[p])
        BY <2>1, <4>1 DEF LockIInv, InterruptsRemembered
      <4> QED BY <4>1, <4>2 DEF Remembers
    <3> QED BY <3>1, <3>2
  <2>2. ASSUME NEW d \in CPUs, thread'[d] \in Pids, ~Resuming(code'[thread'[d]])
        PROVE  Remembers(thread[d], Before(d))'
    <3>1. d # c
      BY <1>9, <1>12, <2>2
    <3>2. thread'[d] = thread[d] /\ code'[thread[d]] = code[thread[d]]
      BY <1>12, <1>13, <2>2, <3>1
    <3>3. Remembers(thread[d], Before(d))
      BY <2>2, <3>2 DEF LockIInv, InterruptsRemembered, Before
    <3>4. Before(d)' = Before(d)
      BY <1>1 DEF Before
    <3> QED BY <3>2, <3>3, <3>4 DEF Remembers
  <2> QED BY <2>1, <2>2 DEF InterruptsRemembered, Before
<1>16. state' \in [Pids -> {"RUNNABLE", "RUNNING", "SLEEPING"}]
  BY <1>1 DEF LockIInv, LockTypeOK
<1>17. UNCHANGED <<kernel, lockVars, FL_IF, ncli, intena, lockpanic>>
  BY <1>1
<1>18. Held(code[t]) = {ptable} /\ Busy(code[t]) = {ptable} /\ Nest(code[t]) = {ptable}
  BY <1>3, <1>7
<1>19. n \in Pids \cup {SchedulerOf(c)}
  OBVIOUS
<1> HIDE DEF n
<1> QED BY <1>1, <1>3, <1>6, <1>7, <1>8, <1>9, <1>11, <1>14, <1>15, <1>16, <1>17, <1>18, <1>19, SwitchFrame

\* A scheduler with ptable.lock runs p, and has r to do when it comes back.
LEMMA SwitchToKeeps ==
  ASSUME LockIInv, NEW c \in CPUs, NEW p \in Runnable(c), NEW r \in Seq(Steps), SwitchTo(c, p, r),
         thread[c] \in Schedulers,
         Held(code[thread[c]]) = {ptable}, Busy(code[thread[c]]) = {ptable},
         Nest(code[thread[c]]) = {ptable},
         Disciplined(thread[c], r), Held(r) = {ptable}, ~Parks(r),
         Pending(r, {"xchg", "own", "unlock"}) = {}
  PROVE  LockIInv'
<1> DEFINE t == thread[c]
<1>1. /\ thread' = [thread EXCEPT ![c] = p] /\ state' = [state EXCEPT ![p] = "RUNNING"]
      /\ code' = [code EXCEPT ![t] = r]
      /\ UNCHANGED <<kernel, lockVars, FL_IF, ncli, intena, saved, lockpanic>>
  BY DEF SwitchTo
<1>2. p \in Pids /\ state[p] = "RUNNABLE" /\ p \in Threads /\ Pids \subseteq Threads
  BY DEF Runnable, Threads
<1>3. t \notin Pids
  BY ThreadFacts DEF LockIInv
<1>4. \A d \in CPUs : thread[d] # p
  <2> SUFFICES ASSUME NEW d \in CPUs, thread[d] = p PROVE FALSE
    OBVIOUS
  <2>1. Parks(code[p])
    BY <1>2 DEF LockIInv, StatesMatchCode
  <2>2. ptable \in Held(code[thread[d]])
    BY <1>2, <2>1 DEF LockIInv, CodeIsDisciplined
  <2>3. holder[ptable] = d /\ holder[ptable] = c
    <3>1. ptable \in Locks /\ ptable \in Held(code[thread[c]])
      BY LockFacts
    <3> QED BY <2>2, <3>1 DEF LockIInv, LocksMatchCode
  <2> QED BY <1>2, <1>3, <2>3
<1>5. /\ thread'[c] = p /\ \A d \in CPUs : d # c => thread'[d] = thread[d] /\ thread[d] # t
      /\ \A q \in Pids : code'[q] = code[q]
      /\ state' \in [Pids -> {"RUNNABLE", "RUNNING", "SLEEPING"}] /\ state'[p] = "RUNNING"
      /\ \A q \in Pids : q # p => state'[q] = state[q]
  BY <1>1, <1>2, <1>3 DEF LockIInv, LockTypeOK, ThreadsRunOnce
<1>6. /\ ~Parks(code[p])
      /\ Resuming(code[p]) \/ (Has(code[p], "trapret") /\ ~Has(code[p], "iret"))
  BY <1>2, <1>4 DEF LockIInv, SwitchedOut
<1>7. StatesMatchCode'
  <2> SUFFICES ASSUME NEW d \in CPUs, thread'[d] \in Pids
               PROVE  Parks(code'[thread'[d]]) <=> state'[thread'[d]] # "RUNNING"
    BY DEF StatesMatchCode
  <2>1. CASE d = c
    BY <1>2, <1>5, <1>6, <2>1
  <2>2. CASE d # c
    BY <1>4, <1>5, <2>2 DEF LockIInv, StatesMatchCode
  <2> QED BY <2>1, <2>2
<1>8. InterruptsRemembered'
  <2>1. ASSUME NEW q \in Pids, Resuming(code'[q])
        PROVE  Remembers(q, saved[q])'
    <3>1. code'[q] = code[q] /\ saved' = saved /\ Remembers(q, saved[q])
      BY <1>1, <1>5, <2>1 DEF LockIInv, InterruptsRemembered
    <3> QED BY <3>1 DEF Remembers
  <2>2. ASSUME NEW d \in CPUs, thread'[d] \in Pids, ~Resuming(code'[thread'[d]])
        PROVE  Remembers(thread[d], Before(d))'
    <3>1. CASE d = c
      BY <1>2, <1>5, <1>6, <2>2, <3>1 DEF Remembers
    <3>2. CASE d # c
      <4>1. thread'[d] = thread[d] /\ code'[thread[d]] = code[thread[d]]
        BY <1>5, <2>2, <3>2
      <4>2. Remembers(thread[d], Before(d))
        BY <2>2, <4>1 DEF LockIInv, InterruptsRemembered, Before
      <4>3. Before(d)' = Before(d)
        BY <1>1 DEF Before
      <4> QED BY <4>1, <4>2, <4>3 DEF Remembers
    <3> QED BY <3>1, <3>2
  <2> QED BY <2>1, <2>2 DEF InterruptsRemembered, Before
<1>9. saved' \in [Pids -> BOOLEAN] /\ UNCHANGED <<kernel, lockVars, FL_IF, ncli, intena, lockpanic>>
  BY <1>1 DEF LockIInv, LockTypeOK
<1> QED BY <1>1, <1>2, <1>3, <1>4, <1>5, <1>7, <1>8, <1>9, SwitchFrame

\* The lottery kernel's scheduler runs the process that it has chosen.
LEMMA SwtchKeeps ==
  ASSUME LockIInv, NEW c \in CPUs, swtch(c)
  PROVE  LockIInv'
<1> DEFINE t == thread[c]
           r == Tail(code[t])
<1>1. At(c, "swtch") /\ \E p \in Runnable(c) : SwitchTo(c, p, r)
  BY DEF swtch
<1>2. "swtch" \in Operations \ {"acquire", "xchg", "own", "release", "unlock"}
  BY DEF Operations
<1>3. /\ r \in Seq(Steps) /\ Fits(t, r)
      /\ Held(code[t]) = Held(r) /\ Busy(code[t]) = Held(r) /\ Nest(code[t]) = Held(r)
  BY <1>1, <1>2, AtPlainStep
<1>4. PICK x \in Steps : x[1] = "swtch" /\ Legal(t, x, r)
  BY <1>1, <1>2, AtPlainStep
<1> HIDE DEF r
<1>5. t \in Schedulers /\ Held(r) = {ptable} /\ ~Parks(r)
  BY <1>4 DEF Legal, StepOfThread, SwitchesUnderLock
<1>6. PICK p \in Runnable(c) : SwitchTo(c, p, r)
  BY <1>1
<1>7. Disciplined(t, r) /\ Pending(r, {"xchg", "own", "unlock"}) = {}
  BY <1>3 DEF Fits
<1> QED BY <1>3, <1>5, <1>6, <1>7, SwitchToKeeps

\* The round-robin kernel's scheduler runs a process, or has gone through the table.
LEMMA WalkKeeps ==
  ASSUME LockIInv, NEW c \in CPUs, walk(c)
  PROVE  LockIInv'
<1> DEFINE t == thread[c]
           o == code[t]
           r == Tail(o)
<1>1. At(c, "walk")
  BY DEF walk
<1>2. "walk" \in Operations \ {"acquire", "xchg", "own", "release", "unlock"}
  BY DEF Operations
<1>3. /\ r \in Seq(Steps) /\ Fits(t, r) /\ o \in Seq(Steps) /\ t \in Threads
      /\ Held(o) = Held(r) /\ Busy(o) = Held(r) /\ Nest(o) = Held(r)
      /\ (Parks(o) <=> Parks(r))
  BY <1>1, <1>2, AtPlainStep
<1>4. PICK x \in Steps : x[1] = "walk" /\ Legal(t, x, r) /\ o = Push(x, r)
  BY <1>1, <1>2, AtPlainStep
<1>5. ASSUME Proceed(c, <<>>), UNCHANGED <<kernel, lockVars, cpuVars, saved, state, lockpanic>>
      PROVE  LockIInv'
  <2>1. t \notin Pids
    BY <1>4, ThreadFacts DEF Legal, StepOfThread, LockIInv
  <2>2. thread' = thread
    BY <1>5 DEF cpuVars
  <2>3. Replaces(c, r)
    BY <1>3, <1>5, <2>2, DoneIsReplaced
  <2> HIDE DEF r
  <2> QED BY <1>3, <1>5, <2>1, <2>3, SchedulerStep
<1>6. ASSUME NEW p \in Runnable(c), SwitchTo(c, p, o)
      PROVE  LockIInv'
  <2> HIDE DEF r
  <2>1. t \in Schedulers /\ Held(r) = {ptable} /\ ~Parks(r)
    BY <1>4 DEF Legal, StepOfThread, SwitchesUnderLock
  <2>2. Disciplined(t, o)
    BY <1>3 DEF LockIInv, CodeIsDisciplined
  <2>3. Pending(o, {"xchg", "own", "unlock"}) = {}
    <3>1. Head(o)[1] = "walk"
      BY <1>1 DEF At
    <3> QED BY <3>1 DEF Pending
  <2> QED BY <1>3, <1>6, <2>1, <2>2, <2>3, SwitchToKeeps
<1> QED BY <1>5, <1>6 DEF walk

-------------------------------------------------------------------------------
(* The inductive invariant holds. *)

\* A process that has never run: it has ptable.lock to release, and then goes to user mode.
LEMMA ForkretFacts ==
  ASSUME NEW t \in Pids
  PROVE  /\ Fits(t, Forkret) /\ Held(Forkret) = {ptable} /\ ~Parks(Forkret)
         /\ Has(Forkret, "trapret") /\ ~Has(Forkret, "iret")
<1> DEFINE u == Push(Do("trapret"), <<>>)
           v == Push(Release(ptable), u)
<1>1. /\ ptable \in Locks /\ "trapret" \in Operations /\ Do("trapret")[1] = "trapret"
      /\ Do("trapret") \in Steps /\ Release(ptable) \in Steps
  BY LockFacts, Written2 DEF Operations
<1>2. Fits(t, u) /\ Held(u) = {} /\ ~Parks(u) /\ Has(u, "trapret") /\ ~Has(u, "iret")
  <2>1. SwitchesUnderLock(Do("trapret"), <<>>) /\ StepOfThread(t, Do("trapret"), <<>>)
    BY <1>1, NoCode, FitsNothing DEF SwitchesUnderLock, StepOfThread, Fits
  <2>2. "trapret" \in Operations \ {"acquire", "xchg", "own", "release", "unlock", "leave", "resume"}
    BY <1>1
  <2>3. Fits(t, <<>>) /\ Held(<<>>) = {} /\ ~Parks(<<>>) /\ ~Has(<<>>, "iret")
    BY FitsNothing, NoCode
  <2>4. /\ Fits(t, u) /\ Held(u) = Held(<<>>)
        /\ Parks(u) <=> "trapret" = "sched"
                        \/ ("trapret" \notin {"runnable", "asleep"} /\ Parks(<<>>))
        /\ \A o : Has(u, o) <=> "trapret" = o \/ Has(<<>>, o)
    BY <2>1, <2>2, <2>3, FitsDo
  <2> HIDE DEF u
  <2> QED BY <2>3, <2>4
<1>3. Forkret = v
  <2>1. <<Do("trapret")>> = u /\ Forkret = Push(Release(ptable), <<Do("trapret")>>)
    BY <1>1, Written DEF Forkret
  <2> QED BY <2>1
<1> HIDE DEF u
<1>4. Fits(t, v) /\ Held(v) = Held(u) \cup {ptable} /\ (Parks(v) <=> Parks(u)) /\ EndsLike(v, u)
  BY <1>1, <1>2, FitsRelease
<1> HIDE DEF v
<1> QED BY <1>2, <1>3, <1>4 DEF EndsLike

\* The invariant holds at the start: the schedulers are about to begin, every process is new.
LEMMA InitIsSafe ==
  ASSUME LockAssumption, LockInit
  PROVE  LockIInv
<1>1. /\ locked = [l \in Locks |-> FALSE] /\ holder = [l \in Locks |-> NoCpu]
      /\ FL_IF = [c \in CPUs |-> FALSE] /\ ncli = [c \in CPUs |-> 0]
      /\ intena = [c \in CPUs |-> FALSE] /\ thread = [c \in CPUs |-> SchedulerOf(c)]
      /\ code = [t \in Threads |-> IF t \in Pids THEN Forkret ELSE <<>>]
      /\ saved = [p \in Pids |-> FALSE] /\ state = [p \in Pids |-> "RUNNABLE"]
      /\ kernel \in Kernels /\ lockpanic = "none"
  BY DEF LockInit
<1>2. /\ \A c \in CPUs : SchedulerOf(c) \in Threads /\ SchedulerOf(c) \notin Pids
      /\ \A c, d \in CPUs : SchedulerOf(c) = SchedulerOf(d) => c = d
      /\ NoCpu \notin CPUs
  BY ThreadFacts
<1>3. \A t \in Threads : t \notin Pids => \E c \in CPUs : t = SchedulerOf(c)
  BY DEF Threads, Schedulers, SchedulerOf
<1>4. \A t \in Pids : /\ Fits(t, Forkret) /\ Held(Forkret) = {ptable} /\ ~Parks(Forkret)
                      /\ Has(Forkret, "trapret") /\ ~Has(Forkret, "iret")
  BY ForkretFacts
<1>5. \A t : Fits(t, <<>>) /\ Held(<<>>) = {}
  BY FitsNothing
<1> HIDE DEF Forkret
<1>6. /\ \A c \in CPUs : thread[c] = SchedulerOf(c) /\ code[thread[c]] = <<>>
      /\ \A t \in Pids : code[t] = Forkret
      /\ \A t \in Threads : t \notin Pids => code[t] = <<>>
  <2>1. Pids \subseteq Threads
    BY DEF Threads
  <2> QED BY <1>1, <1>2, <2>1
<1>7. LockTypeOK
  <2>1. code \in [Threads -> Seq(Steps)]
    <3>1. \A t \in Threads : (IF t \in Pids THEN Forkret ELSE <<>>) \in Seq(Steps)
      BY <1>4, <1>5 DEF Fits
    <3> QED BY <1>1, <3>1
  <2>2. ncli \in [CPUs -> 0 .. 3]
    BY <1>1
  <2>3. lockpanic \in LockPanics
    BY <1>1 DEF LockPanics
  <2> QED BY <1>1, <1>2, <2>1, <2>2, <2>3 DEF LockTypeOK
<1>8. CodeIsDisciplined
  BY <1>4, <1>5, <1>6 DEF CodeIsDisciplined, Fits
<1>9. ThreadsRunOnce
  BY <1>2, <1>6 DEF ThreadsRunOnce
<1>10. LocksMatchCode
  <2>1. \A c \in CPUs : Held(code[thread[c]]) = {} /\ Busy(code[thread[c]]) = {}
    BY <1>6, AtRest
  <2> QED BY <1>1, <1>2, <2>1 DEF LocksMatchCode
<1>11. CliNests
  <2>1. \A c \in CPUs : Nest(code[thread[c]]) = {}
    BY <1>6, AtRest
  <2> QED BY <1>1, <2>1, DepthFacts DEF CliNests
<1>12. StatesMatchCode
  BY <1>2, <1>6 DEF StatesMatchCode
<1>13. SwitchedOut
  <2> SUFFICES ASSUME NEW t \in Threads, \A c \in CPUs : thread[c] # t
               PROVE  /\ Held(code[t]) = {ptable} /\ ~Parks(code[t])
                      /\ Pending(code[t], {"xchg", "own", "unlock"}) = {}
                      /\ t \in Pids => \/ Resuming(code[t])
                                       \/ Has(code[t], "trapret") /\ ~Has(code[t], "iret")
    BY DEF SwitchedOut
  <2>1. t \in Pids
    BY <1>3, <1>6
  <2> QED BY <1>4, <1>6, <2>1 DEF Fits
<1>14. InterruptsRemembered
  BY <1>2, <1>4, <1>6 DEF InterruptsRemembered, Fits
<1> QED BY <1>1, <1>7, <1>8, <1>9, <1>10, <1>11, <1>12, <1>13, <1>14 DEF LockIInv, NoPanic

\* Every step keeps the invariant.
LEMMA NextKeeps ==
  ASSUME LockIInv, [LockNext]_spinVars
  PROVE  LockIInv'
<1>1. ASSUME NEW c \in CPUs, KernelStep(c) \/ syscall(c) \/ timer(c)
      PROVE  LockIInv'
  <2>1. CASE acquire(c)
    BY <2>1, AcquireKeeps
  <2>2. CASE xchg(c)
    BY <2>2, XchgKeeps
  <2>3. CASE own(c)
    BY <2>3, OwnKeeps
  <2>4. CASE release(c)
    BY <2>4, ReleaseKeeps
  <2>5. CASE unlock(c)
    BY <2>5, UnlockKeeps
  <2>6. CASE setsIF(c)
    BY <2>6, SetsIFKeeps
  <2>7. CASE setsState(c)
    BY <2>7, SetsStateKeeps
  <2>8. CASE tests(c)
    BY <2>8, TestsKeeps
  <2>9. CASE wakeup1(c)
    BY <2>9, WakeupKeeps
  <2>10. CASE sched(c)
    BY <2>10, SchedKeeps
  <2>11. CASE leave(c)
    BY <2>11, LeaveKeeps
  <2>12. CASE resume(c)
    BY <2>12, ResumeKeeps
  <2>13. CASE turn(c)
    BY <2>13, TurnKeeps
  <2>14. CASE rq_select(c)
    BY <2>14, SelectKeeps
  <2>15. CASE swtch(c)
    BY <2>15, SwtchKeeps
  <2>16. CASE walk(c)
    BY <2>16, WalkKeeps
  <2>17. CASE syscall(c)
    BY <2>17, SyscallKeeps
  <2>18. CASE timer(c)
    BY <2>18, TimerKeeps
  <2> QED BY <1>1, <2>1, <2>2, <2>3, <2>4, <2>5, <2>6, <2>7, <2>8, <2>9, <2>10, <2>11, <2>12,
             <2>13, <2>14, <2>15, <2>16, <2>17, <2>18 DEF KernelStep, LockStep
<1>2. CASE UNCHANGED spinVars
  <2>1. /\ kernel' = kernel /\ locked' = locked /\ holder' = holder /\ FL_IF' = FL_IF
        /\ ncli' = ncli /\ intena' = intena /\ thread' = thread /\ code' = code
        /\ saved' = saved /\ state' = state /\ lockpanic' = lockpanic
    BY <1>2 DEF spinVars, lockVars, cpuVars
  <2>2. LockTypeOK' /\ NoPanic' /\ CodeIsDisciplined'
    BY <2>1 DEF LockIInv, LockTypeOK, NoPanic, CodeIsDisciplined
  <2>3. ThreadsRunOnce' /\ LocksMatchCode' /\ CliNests'
    BY <2>1 DEF LockIInv, ThreadsRunOnce, LocksMatchCode, CliNests
  <2>4. StatesMatchCode' /\ SwitchedOut' /\ InterruptsRemembered'
    BY <2>1 DEF LockIInv, StatesMatchCode, SwitchedOut, InterruptsRemembered, Remembers
  <2> QED BY <2>2, <2>3, <2>4 DEF LockIInv
<1> QED BY <1>1, <1>2 DEF LockNext

-------------------------------------------------------------------------------
(* What the invariant means. *)

\* A thread that comes back to sched() has ptable.lock.
LEMMA ResumesLocked ==
  ASSUME LockIInv, NEW c \in CPUs, ncli[c] = 0
  PROVE  Held(code[thread[c]]) = {} /\ ~Resuming(code[thread[c]])
<1> DEFINE o == code[thread[c]]
<1>1. Held(o) = {}
  <2>1. Nest(o) \in SUBSET Locks
    BY DEF Nest, Held, Pending
  <2>2. Depth(Nest(o)) = 0
    BY DEF LockIInv, CliNests
  <2>3. Nest(o) = {}
    BY <2>1, <2>2, DepthFacts
  <2> QED BY <2>3 DEF Nest
<1>2. ASSUME Resuming(o) PROVE FALSE
  <2>1. At(c, "resume")
    BY <1>2 DEF Resuming, At
  <2>2. "resume" \in Operations \ {"acquire", "xchg", "own", "release", "unlock"}
    BY DEF Operations
  <2>3. Held(o) = Held(Tail(o)) /\ \E x \in Steps : x[1] = "resume" /\ Legal(thread[c], x, Tail(o))
    BY <2>1, <2>2, AtPlainStep
  <2>4. Held(Tail(o)) = {ptable}
    BY <2>3 DEF Legal, SwitchesUnderLock
  <2> QED BY <1>1, <2>3, <2>4
<1> QED BY <1>1, <1>2

\* The CPUs at a lock are those whose code is inside of it, or in the middle of taking it.
LEMMA BusyAtLock ==
  ASSUME NEW c \in CPUs, NEW l \in Locks
  PROVE  l \in Busy(code[thread[c]]) <=> l \in Inside(thread[c]) \/ (Taking(c) /\ Lock(c) = l)
BY DEF Busy, Pending, Inside, Taking, Lock, At

LEMMA IInvExcludes ==
  ASSUME LockIInv
  PROVE  MutualExclusion
<1> SUFFICES ASSUME NEW l \in Locks
             PROVE  /\ \A c \in CPUs : holder[l] = c <=> l \in Inside(thread[c])
                    /\ LET in == {c \in CPUs : l \in Inside(thread[c]) \/ (Taking(c) /\ Lock(c) = l)}
                       IN Cardinality(in) = (IF locked[l] THEN 1 ELSE 0)
  BY DEF MutualExclusion
<1> DEFINE in == {c \in CPUs : l \in Inside(thread[c]) \/ (Taking(c) /\ Lock(c) = l)}
<1>1. \A c \in CPUs : c \in in <=> l \in Busy(code[thread[c]])
  BY BusyAtLock
<1>2. /\ \A c \in CPUs : holder[l] = c <=> l \in Inside(thread[c])
      /\ locked[l] <=> \E c \in CPUs : l \in Busy(code[thread[c]])
      /\ \A c, d \in CPUs : l \in Busy(code[thread[c]]) /\ l \in Busy(code[thread[d]]) => c = d
  BY DEF LockIInv, LocksMatchCode, Inside
<1>3. in \subseteq CPUs
  OBVIOUS
<1> HIDE DEF in
<1>4. CASE locked[l]
  <2>1. PICK c \in CPUs : c \in in
    BY <1>1, <1>2, <1>4
  <2>2. in = {c}
    BY <1>1, <1>2, <1>3, <2>1
  <2> QED BY <1>2, <1>4, <2>2, FS_Singleton DEF in
<1>5. CASE ~locked[l]
  <2>1. in = {}
    BY <1>1, <1>2, <1>3, <1>5
  <2> QED BY <1>2, <1>5, <2>1, FS_EmptySet DEF in
<1> QED BY <1>4, <1>5

LEMMA IInvInterrupts ==
  ASSUME LockIInv
  PROVE  InterruptsComeBack
<1> SUFFICES ASSUME NEW c \in CPUs, thread[c] \in Pids, ncli[c] = 0
             PROVE  LET ops == {code[thread[c]][i][1] : i \in DOMAIN code[thread[c]]}
                    IN "trapret" \notin ops => (FL_IF[c] <=> "iret" \notin ops)
  BY DEF InterruptsComeBack
<1>1. Remembers(thread[c], FL_IF[c])
  BY ResumesLocked DEF LockIInv, InterruptsRemembered
<1> QED BY <1>1 DEF Remembers, Has

LEMMA IInvNoCircle ==
  ASSUME LockIInv
  PROVE  NoCircularWait
<1> SUFFICES ASSUME NEW D \in (SUBSET CPUs) \ {{}}
             PROVE  \E c \in D : \A d \in D : ~Awaits(c, d)
  BY DEF NoCircularWait
<1> SUFFICES ASSUME \A c \in D : \E d \in D : Awaits(c, d)
             PROVE  FALSE
  OBVIOUS
<1>1. \A c \in D : /\ c \in CPUs /\ At(c, "xchg") /\ Lock(c) \in Locks /\ Rank(Lock(c)) \in 0 .. 2
                   /\ \A m \in Busy(code[thread[c]]) : Rank(m) < Rank(Lock(c))
  <2> TAKE c \in D
  <2>1. At(c, "xchg")
    BY DEF Awaits
  <2>2. LET o == code[thread[c]]
            r == Tail(o)
            l == Lock(c)
        IN /\ l \in Locks /\ Busy(o) = Held(r) \ {l}
           /\ \A m \in Held(r) \ {l} : Rank(m) < Rank(l)
    BY <2>1, AtLockStep
  <2> QED BY <2>1, <2>2, LockFacts
<1>2. PICK c \in D : \A d \in D : Rank(Lock(d)) <= Rank(Lock(c))
  <2> DEFINE f(d) == Rank(Lock(d))
  <2>0. \A d \in D : f(d) \in 0 .. 2
    BY <1>1
  <2> HIDE DEF f
  <2>1. ASSUME NEW e \in D, f(e) = 2
        PROVE  \A d \in D : f(d) <= f(e)
    BY <2>0, <2>1
  <2>2. ASSUME \A d \in D : f(d) # 2, NEW e \in D, f(e) = 1
        PROVE  \A d \in D : f(d) <= f(e)
    BY <2>0, <2>2
  <2>3. ASSUME \A d \in D : f(d) # 2 /\ f(d) # 1, NEW e \in D
        PROVE  \A d \in D : f(d) <= f(e)
    BY <2>0, <2>3
  <2>4. \E e \in D : e = e
    <3>1. D # {}
      OBVIOUS
    <3> QED BY <3>1, Zenon
  <2>5. \E e \in D : \A d \in D : f(d) <= f(e)
    BY <2>1, <2>2, <2>3, <2>4
  <2> QED BY <2>5 DEF f
<1>3. PICK d \in D : Awaits(c, d)
  OBVIOUS
<1>4. Lock(c) \in Busy(code[thread[d]])
  <2>1. c \in CPUs /\ d \in CPUs /\ Lock(c) \in Locks
    BY <1>1
  <2>2. CASE holder[Lock(c)] = d
    <3>1. Lock(c) \in Held(code[thread[d]])
      BY <2>1, <2>2 DEF LockIInv, LocksMatchCode
    <3> QED BY <3>1 DEF Busy
  <2>3. CASE Taking(d) /\ Lock(d) = Lock(c)
    BY <2>1, <2>3, BusyAtLock
  <2> QED BY <1>3, <2>2, <2>3 DEF Awaits
<1>5. Rank(Lock(c)) < Rank(Lock(d)) /\ Rank(Lock(d)) <= Rank(Lock(c))
  BY <1>1, <1>2, <1>3, <1>4
<1> QED BY <1>1, <1>5

\* The inductive invariant of acquire(), release(), pushcli(), popcli() (spinlock.c) under
\* sched(), sleep(), wakeup1() and the timer interrupt: the code that a thread has still to
\* do takes its locks in order, and locks, interrupt flags and process states say where in
\* its code a CPU is.
THEOREM IInvHolds == LockAssumption /\ LockSpec => []LockIInv
<1>1. LockAssumption /\ LockInit => LockIInv
  BY InitIsSafe
<1>2. LockIInv /\ [LockNext]_spinVars => LockIInv'
  BY NextKeeps
<1> QED BY <1>1, <1>2, PTL DEF LockSpec

\* Spin locks exclude, the interrupt flag comes back as it was, none of the panics of
\* spinlock.c and sched() is reached, and no CPUs spin for each other in a circle.
THEOREM LocksCorrect == LockAssumption /\ LockSpec => []LocksAreSafe
<1>1. LockIInv => LocksAreSafe
  <2>1. ASSUME LockIInv
        PROVE  LockTypeOK /\ NoPanic
    BY <2>1 DEF LockIInv
  <2> QED BY <2>1, IInvExcludes, IInvInterrupts, IInvNoCircle DEF LocksAreSafe
<1> QED BY <1>1, IInvHolds, PTL
===============================================================================
