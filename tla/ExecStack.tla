------------------------------ MODULE ExecStack ------------------------------
(***************************************************************************)
(* The arguments that exec() puts on the new stack (exec.c), a string at a *)
(* time.  The memory of the program ends with an inaccessible page and the *)
(* page of the stack; copyout() (vm.c) fails at the first byte that it may *)
(* not write.                                                              *)
(***************************************************************************)
EXTENDS Integers, Sequences

CONSTANTS PGSIZE, MAXARG,
          WORD,    \* bytes of a word
          Lengths  \* of the argument strings

VARIABLES argv,   \* the lengths of the strings
          argc,   \* how many have been pushed
          sp,
          ustack, \* the addresses of the strings
          mem,    \* what the bytes of the stack page hold
          done    \* "no", or what exec() returns

vars == <<argv, argc, sp, ustack, mem, done>>

\* The program, the guard page, the stack page.
SZ    == 3 * PGSIZE
Stack == 2 * PGSIZE .. SZ - 1
Empty == <<0, 0>>

\* As many strings as exec() takes, which together are larger than a page.
bigargtest == [i \in 1 .. MAXARG - 1 |-> PGSIZE \div (MAXARG - 1) + 1]

Init ==
  /\ argv \in UNION {[1 .. n -> Lengths] : n \in 0 .. MAXARG + 1} \cup {bigargtest}
  /\ argc = 0 /\ sp = SZ /\ ustack = <<>>
  /\ mem = [a \in Stack |-> Empty]
  /\ done = "no"

\* copyout() of n bytes to a, of the bytes p[0] .. p[n - 1].
CopyFails(a, n) == \E i \in 0 .. n - 1 : a + i \notin Stack
Copied(a, n, p) == [x \in Stack |-> IF x >= a /\ x < a + n THEN p[x - a] ELSE mem[x]]

\* What copyout() copies of string i: its characters and the NUL.
Bytes(i) == argv[i] + 1

\* Where string i goes, aligned to a word.
Below(i) == ((sp - (argv[i] + 1)) \div WORD) * WORD

Fails == done' = "bad" /\ UNCHANGED <<argc, sp, ustack, mem>>

\* The string is one more than there is room for in ustack.
TooMany == argc >= MAXARG

push ==
  /\ done = "no" /\ argc < Len(argv)
  /\ LET i == argc + 1
         a == Below(i)
     IN IF TooMany \/ CopyFails(a, Bytes(i)) THEN Fails
        ELSE /\ sp' = a /\ argc' = i
             /\ ustack' = Append(ustack, a)
             /\ mem' = Copied(a, Bytes(i), [k \in 0 .. Bytes(i) - 1 |-> <<i, k>>])
             /\ UNCHANGED done
  /\ UNCHANGED argv

\* The return address, argc, argv and the addresses of the strings with a 0 behind them.
Frame == (3 + argc + 1) * WORD

finish ==
  /\ done = "no" /\ argc = Len(argv)
  /\ IF CopyFails(sp - Frame, Frame) THEN Fails
     ELSE /\ sp' = sp - Frame
          /\ mem' = Copied(sp - Frame, Frame, [k \in 0 .. Frame - 1 |-> <<MAXARG + 2, k \div WORD>>])
          /\ done' = "ok"
          /\ UNCHANGED <<argc, ustack>>
  /\ UNCHANGED argv

Next == push \/ finish
Spec == Init /\ [][Next]_vars

-------------------------------------------------------------------------------
(* Properties. *)

\* The program finds every argument as it was given: each string with its NUL, and the frame below
\* them.
ArgumentsIntact ==
  done = "ok" =>
    /\ Len(ustack) = Len(argv)
    /\ \A i \in DOMAIN argv : \A k \in 0 .. argv[i] : mem[ustack[i] + k] = <<i, k>>
    /\ \A k \in 0 .. Frame - 1 : mem[sp + k] = <<MAXARG + 2, k \div WORD>>
    /\ sp % WORD = 0

RECURSIVE Total(_)
Total(lengths) == IF lengths = <<>> THEN 0
                  ELSE ((Head(lengths) + WORD) \div WORD) * WORD + Total(Tail(lengths))

\* exec() fails exactly when there are too many arguments, or when they and the frame need more
\* than a page.
FailsIfTooBig ==
  done # "no" => (done = "bad" <=> \/ Len(argv) > MAXARG
                                   \/ Total(argv) + (4 + Len(argv)) * WORD > PGSIZE)
===============================================================================
