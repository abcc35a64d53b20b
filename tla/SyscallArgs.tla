------------------------------ MODULE SyscallArgs -----------------------------
(***************************************************************************)
(* How the kernel fetches the arguments of a system call (syscall.c).      *)
(*                                                                         *)
(* An address is an unsigned word; the memory of a process is what lies    *)
(* below sz, at most KERNBASE.  Every call asks for argument number k, as  *)
(* a number, as a pointer to size bytes or as a string; the stack pointer  *)
(* and the words in memory are whatever the program put there.             *)
(***************************************************************************)
EXTENDS Integers, FiniteSets

CONSTANTS WORD,     \* 2^w, for words of w bits
          KERNBASE, \* the end of user memory
          INT,      \* the bytes of an int
          MaxArg    \* the highest argument number

VARIABLES
  kind,    \* what is fetched: "int", "ptr" or "str"
  k,       \* which argument
  sz,      \* p->sz
  esp,     \* tf->esp
  value,   \* the word at the address of the argument, as a signed int
  size,    \* the size that argptr() is asked for
  nul,     \* the first address from value on that holds a 0, sz if none below sz
  ret      \* what argint(), argptr() or argstr() has returned: "none" before

vars == <<kind, k, sz, esp, value, size, nul, ret>>

Addresses == 0 .. (WORD - 1)
Ints      == -(WORD \div 2) .. (WORD \div 2 - 1)
uint(x)   == x % WORD

TypeOK ==
  /\ kind \in {"int", "ptr", "str"} /\ k \in 0 .. MaxArg
  /\ sz \in 0 .. KERNBASE /\ esp \in Addresses
  /\ value \in Ints /\ size \in Ints /\ nul \in 0 .. KERNBASE
  /\ ret \in {"none", "ok", "failed"}

Init ==
  /\ kind \in {"int", "ptr", "str"} /\ k \in 0 .. MaxArg
  /\ sz \in 0 .. KERNBASE /\ esp \in Addresses
  /\ value \in IF kind = "int" THEN {0} ELSE Ints
  /\ size \in IF kind = "ptr" THEN Ints ELSE {0}
  /\ nul \in IF kind = "str" /\ uint(value) < sz THEN uint(value) .. sz ELSE {sz}
  /\ ret = "none"

-------------------------------------------------------------------------------
\* fetchint() checks the end of the word only.
fetchint_endOnly(addr) == uint(addr + INT) <= sz

\* fetchint() succeeds.
fetchint(addr) == ~(addr >= sz \/ uint(addr + INT) > sz)

argAddress == uint(esp + INT + INT * k)

\* argint() succeeds.
argint == fetchint(argAddress)

\* argptr() succeeds.
argptr ==
  /\ argint
  /\ ~(size < 0 \/ uint(value) >= sz \/ uint(uint(value) + size) > sz)

\* fetchstr() looks for the 0 from the first byte on, up to the last one below sz.
fetchstr == uint(value) < sz /\ nul < sz

\* argstr() succeeds.
argstr == argint /\ fetchstr

\* A system call fetches one of its arguments.
fetch ==
  /\ ret = "none"
  /\ ret' = IF CASE kind = "int" -> argint [] kind = "ptr" -> argptr [] kind = "str" -> argstr
            THEN "ok" ELSE "failed"
  /\ UNCHANGED <<kind, k, sz, esp, value, size, nul>>

Next == fetch
Spec == Init /\ [][Next]_vars

-------------------------------------------------------------------------------
(* Properties. *)

Memory       == 0 .. (sz - 1)
Bytes(a, n)  == {uint(a + i) : i \in 0 .. (n - 1)}

\* The bytes that the kernel reads to fetch an argument, and those that it reads or writes
\* through it when the fetch has succeeded.
Touched ==
  (IF ret # "none" /\ argint THEN Bytes(argAddress, INT) ELSE {}) \cup
  (CASE ret = "ok" /\ kind = "ptr" -> Bytes(uint(value), size)
     [] ret = "ok" /\ kind = "str" -> uint(value) .. nul
     [] OTHER -> {})

\* No argument leads the kernel outside of the memory of the process, though the sums of
\* the tests wrap round.
StaysInMemory == Touched \subseteq Memory

\* Nothing that lies in the memory of the process is refused: every word, every block that
\* is not empty and every terminated string, up to the last byte.
NothingIsRefused ==
  ret = "failed" =>
    \/ ~(Bytes(argAddress, INT) \subseteq Memory)
    \/ kind = "ptr" /\ (size <= 0 \/ ~(Bytes(uint(value), size) \subseteq Memory))
    \/ kind = "str" /\ (nul \notin Memory \/ uint(value) > nul)
===============================================================================
