-------------------------------- MODULE Strings -------------------------------
(***************************************************************************)
(* Functions on bytes whose ends are easily one off: memmove() of the      *)
(* kernel and of user programs, safestrcpy(), printint() and atoi()        *)
(* (string.c, ulib.c, printf.c, console.c).  A behaviour of Spec is one    *)
(* call.  PathSpec is path names character by character (fs.c: skipelem,   *)
(* namex's loop, namecmp and the name that dirlink() writes; string.c:     *)
(* strncmp, strncpy), down to names that fill their DIRSIZ bytes and so    *)
(* have no NUL at the end.  FileSystem takes the names as values; PathSpec *)
(* shows that it may.                                                      *)
(***************************************************************************)
EXTENDS Integers, Sequences, FiniteSets

CONSTANTS BYTES,  \* the bytes of the memory that memmove() and safestrcpy() work on
          WORD,   \* 2^w, for words of w bits
          Bases,  \* bases of printint()
          DIRSIZ, \* bytes of a name in a directory entry
          Paths   \* sequences of "/" and other characters

VARIABLES
  f,           \* the function
  dst, src, n, \* its arguments: addresses and a number of bytes
  xx, base,    \* its arguments: a signed number and a base
  mem,         \* the memory, before the call
  res,         \* the memory after the call, or the digits printed
  path,        \* the path that namex() walks
  s,           \* where it is; 0 when skipelem() has returned 0
  name,        \* the buffer of the caller
  walked       \* the buffers after each element, and whether it was seen as the last one

vars     == <<f, dst, src, n, xx, base, mem, res>>
pathVars == <<path, s, name, walked>>

Addresses == 0 .. (BYTES - 1)
Ints      == -(WORD \div 2) .. (WORD \div 2 - 1)

Init ==
  /\ \/ /\ f \in {"memmove", "user memmove"}
        /\ mem = [a \in Addresses |-> a]
        /\ dst \in Addresses /\ src \in Addresses
        /\ n \in {k \in 0 .. BYTES : dst + k <= BYTES /\ src + k <= BYTES}
        /\ xx = 0 /\ base = 0
     \/ /\ f = "safestrcpy"
        /\ dst = BYTES \div 2 /\ src = 0 /\ n \in 0 .. (BYTES \div 2)
        /\ \E len \in 0 .. (BYTES \div 2 - 1) :
             mem = [a \in Addresses |-> IF a = len THEN 0 ELSE a + 1]
        /\ xx = 0 /\ base = 0
     \/ /\ f = "printint"
        /\ mem = <<>> /\ dst = 0 /\ src = 0 /\ n = 0
        /\ xx \in Ints /\ base \in Bases
  /\ res = <<>>

-------------------------------------------------------------------------------
\* m with k bytes copied to place d, from place from on, upwards or downwards.
RECURSIVE Upwards(_, _, _, _), Downwards(_, _, _, _)
Upwards(m, d, from, k) ==
  IF k = 0 THEN m ELSE Upwards([m EXCEPT ![d] = m[from]], d + 1, from + 1, k - 1)
Downwards(m, d, from, k) ==
  IF k = 0 THEN m ELSE Downwards([m EXCEPT ![d + k - 1] = m[from + k - 1]], d, from, k - 1)

memmove(m, d, from, k) ==
  IF from < d /\ from + k > d THEN Downwards(m, d, from, k) ELSE Upwards(m, d, from, k)

\* ulib.c
usermemmove(m, d, from, k) == Upwards(m, d, from, k)

\* The loop of safestrcpy() and the NUL behind it; k is n - 1 bytes.
RECURSIVE CopyString(_, _, _, _)
CopyString(m, d, from, k) ==
  IF k = 0 THEN [m EXCEPT ![d] = 0]
  ELSE IF m[from] = 0 THEN [m EXCEPT ![d] = 0, ![d + 1] = 0]
  ELSE CopyString([m EXCEPT ![d] = m[from]], d + 1, from + 1, k - 1)

safestrcpy(m, d, from, k) == IF k <= 0 THEN m ELSE CopyString(m, d, from, k - 1)

\* The digits of x, the last one first.
RECURSIVE Digits(_, _)
Digits(x, b) == IF x < b THEN <<x>> ELSE <<x % b>> \o Digits(x \div b, b)

\* x = -xx, an unsigned word.
Absolute(x) == (IF x < 0 THEN -x ELSE x) % WORD

\* printint(xx, 10, 1) and, for the other bases, printint(xx, base, 0).
printint(x, b) ==
  LET signed == b = 10
      d  == Digits(IF signed THEN Absolute(x) ELSE x % WORD, b)
  IN [neg |-> signed /\ x < 0, digits |-> [i \in 1 .. Len(d) |-> d[Len(d) + 1 - i]]]

\* atoi() on digits.
RECURSIVE atoi(_, _)
atoi(d, m) == IF d = <<>> THEN m ELSE atoi(Tail(d), m * 10 + Head(d))

call ==
  /\ res = <<>>
  /\ res' = CASE f = "memmove"      -> memmove(mem, dst, src, n)
              [] f = "user memmove" -> usermemmove(mem, dst, src, n)
              [] f = "safestrcpy"   -> safestrcpy(mem, dst, src, n)
              [] f = "printint"     -> printint(xx, base)
  /\ UNCHANGED <<f, dst, src, n, xx, base, mem>>

Next == call
Spec == Init /\ [][Next]_vars

-------------------------------------------------------------------------------
(* The walk of namex() through a path. *)

NUL     == "0"
Rubbish == "?"
Buffer(c) == [i \in 0 .. (DIRSIZ - 1) |-> c]

PathInit ==
  /\ path \in Paths
  /\ s = 1 /\ name = Buffer(Rubbish) /\ walked = <<>>

Char(i) == IF i <= Len(path) THEN path[i] ELSE NUL

\* The first place from i on that holds none of the characters S, or the first that does.
RECURSIVE Skip(_, _), Upto(_, _)
Skip(i, S) == IF Char(i) \in S THEN Skip(i + 1, S) ELSE i
Upto(i, S) == IF Char(i) \in S THEN i ELSE Upto(i + 1, S)

\* skipelem() copies len bytes, DIRSIZ at most, and a NUL if there is room.
Element(from, len) ==
  [i \in 0 .. (DIRSIZ - 1) |->
     IF i < len THEN path[from + i] ELSE IF i = len THEN NUL ELSE name[i]]

Rest(i) == Skip(i, {"/"})

\* One turn of the loop of namex().
skipelem ==
  LET from == Skip(s, {"/"})
      end  == Upto(from, {"/", NUL})
  IN
  /\ s # 0
  /\ IF Char(from) = NUL
     THEN s' = 0 /\ UNCHANGED <<name, walked>>
     ELSE /\ s' = Rest(end)
          /\ name' = Element(from, end - from)
          /\ walked' = Append(walked, [name |-> name', last |-> Char(s') = NUL])
  /\ UNCHANGED path

PathNext == skipelem
PathSpec == PathInit /\ [][PathNext]_pathVars

-------------------------------------------------------------------------------
(* string.c, on buffers of DIRSIZ bytes. *)

\* strncmp(p, q, DIRSIZ) = 0 from byte i on.
RECURSIVE SameFrom(_, _, _), EndOf(_, _)
SameFrom(p, q, i) ==
  IF i < DIRSIZ /\ p[i] # NUL /\ p[i] = q[i] THEN SameFrom(p, q, i + 1)
  ELSE i = DIRSIZ \/ p[i] = q[i]

namecmp(p, q) == SameFrom(p, q, 0)

\* The first NUL of t, or DIRSIZ.
EndOf(t, i) == IF i < DIRSIZ /\ t[i] # NUL THEN EndOf(t, i + 1) ELSE i

\* strncpy(de.name, t, DIRSIZ): what lies behind the first NUL is zeroed.
strncpy(t) == [i \in 0 .. (DIRSIZ - 1) |-> IF i < EndOf(t, 0) THEN t[i] ELSE NUL]

-------------------------------------------------------------------------------
(* Properties. *)

Copied == [a \in Addresses |-> IF a \in dst .. (dst + n - 1) THEN mem[src + a - dst] ELSE mem[a]]

\* memmove() moves the bytes as they were before, however the two places overlap; the one
\* of user programs does when it moves down.
MovesWhatWasThere ==
  res # <<>> /\ (f = "memmove" \/ (f = "user memmove" /\ (dst <= src \/ src + n <= dst))) =>
    res = Copied

Least(S) == CHOOSE a \in S : \A b \in S : a <= b

\* safestrcpy() leaves a string that ends inside of its n bytes, is the source as far as
\* there is room, and touches nothing else.
EndsInside ==
  res # <<>> /\ f = "safestrcpy" /\ n > 0 =>
    LET len == Least({a \in Addresses : mem[a] = 0})
        k   == IF len < n THEN len ELSE n - 1
    IN /\ \A a \in 0 .. (k - 1) : res[dst + a] = mem[a]
       /\ res[dst + k] = 0
       /\ \A a \in Addresses : a \notin dst .. (dst + n - 1) => res[a] = mem[a]

RECURSIVE ValueOf(_, _)
ValueOf(d, b) == IF d = <<>> THEN 0 ELSE ValueOf(SubSeq(d, 1, Len(d) - 1), b) * b + d[Len(d)]

\* What printint() prints reads back as the number, the least one included, as unsigned in
\* the other bases, without a zero in front; atoi() reads back what is not negative.
ReadsBack ==
  res # <<>> /\ f = "printint" =>
    LET v == ValueOf(res.digits, base) IN
    /\ base = 10 => xx = (IF res.neg THEN -v ELSE v)
    /\ base # 10 => v = xx % WORD
    /\ Len(res.digits) > 1 => res.digits[1] # 0
    /\ base = 10 /\ xx >= 0 => atoi(res.digits, 0) = xx

\* The elements of a path: what stands between slashes, cut to DIRSIZ bytes.
Elements ==
  LET starts == {i \in 1 .. Len(path) : path[i] # "/" /\ (i = 1 \/ path[i - 1] = "/")}
      nth[k \in 1 .. Cardinality(starts)] ==
        CHOOSE i \in starts : Cardinality({j \in starts : j <= i}) = k
      elem(i) == SubSeq(path, i, Upto(i, {"/", NUL}) - 1)
  IN [k \in 1 .. Cardinality(starts) |->
        SubSeq(elem(nth[k]), 1, IF Len(elem(nth[k])) < DIRSIZ THEN Len(elem(nth[k])) ELSE DIRSIZ)]

Text(buf) == [i \in 1 .. EndOf(buf, 0) |-> buf[i - 1]]

\* namex() walks through exactly the elements of the path, whatever slashes surround them,
\* and sees *path = 0 at the last one and no earlier: nameiparent() stops in the right
\* directory.
WalksEveryElement ==
  s = 0 =>
    /\ Len(walked) = Len(Elements)
    /\ \A i \in DOMAIN walked : /\ Text(walked[i].name) = Elements[i]
                                /\ walked[i].last <=> i = Len(walked)

\* A name that dirlink() has written is found under that name and under no other, also
\* when it fills the entry, and whatever the buffer held before.
FoundAsWritten ==
  \A i, j \in DOMAIN walked :
    namecmp(walked[i].name, strncpy(walked[j].name)) <=> Elements[i] = Elements[j]
===============================================================================
