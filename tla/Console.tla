-------------------------------- MODULE Console -------------------------------
(***************************************************************************)
(* Console input (console.c, the same in the three kernels): the ring that *)
(* the keyboard interrupt fills and edits and that processes read.         *)
(*                                                                         *)
(* A critical section of cons.lock is one action; as kill() does not take  *)
(* it, the test of p->killed and the sleep are two, the lock held between  *)
(* them.  What is echoed is left out.                                      *)
(***************************************************************************)
EXTENDS Integers, Sequences, SequencesExt, FiniteSetsExt

CONSTANTS Readers,
          INPUT_BUF, \* characters in the ring (128)
          CWORD,     \* its indices count modulo CWORD (2^32)
          Letters,   \* characters without a meaning to the console
          NL, EOF, BACKSPACE, KILL_LINE, \* '\n', ^D, ^H and ^U
          NoReader

ASSUME ConsoleAssumption ==
  /\ INPUT_BUF \in Nat \ {0} /\ CWORD \in Nat /\ CWORD % INPUT_BUF = 0 /\ CWORD > INPUT_BUF
  /\ NoReader \notin Readers

Chars == Letters \cup {NL, EOF}
Keys  == Chars \cup {BACKSPACE, KILL_LINE}

VARIABLES
  buf, r, w, e, \* input
  clock,        \* who holds cons.lock from one action to the next
  cpc,          \* where each process is in consoleread()
  room,         \* n: the characters that it can still take
  line,         \* the characters that it has taken
  killedReader  \* p->killed

consVars == <<buf, r, w, e, clock, cpc, room, line, killedReader>>

ConsolePoints == {"out", "read", "tested", "sleeps", "done"}

Distance(from, to) == (to - from + CWORD) % CWORD
Span(from, to) == [i \in 1 .. Distance(from, to) |-> buf[(from + i - 1) % INPUT_BUF]]
Forward(i, k)  == (i + k) % CWORD
Back(i, k)     == (i - k + CWORD) % CWORD

\* The ring is never longer than INPUT_BUF, and r, w, e stand in this order.
ConsoleTypeOK ==
  /\ buf \in [0 .. INPUT_BUF - 1 -> Chars]
  /\ {r, w, e} \subseteq 0 .. CWORD - 1
  /\ Distance(r, w) + Distance(w, e) <= INPUT_BUF
  /\ clock \in Readers \cup {NoReader}
  /\ cpc \in [Readers -> ConsolePoints]
  /\ room \in [Readers -> Nat] /\ line \in [Readers -> Seq(Chars)]
  /\ killedReader \in [Readers -> BOOLEAN]

ConsoleInit ==
  /\ buf = [i \in 0 .. INPUT_BUF - 1 |-> NL]
  /\ r = 0 /\ w = 0 /\ e = 0
  /\ clock = NoReader
  /\ cpc  = [p \in Readers |-> "out"]
  /\ room = [p \in Readers |-> 0]
  /\ line = [p \in Readers |-> <<>>]
  /\ killedReader = [p \in Readers |-> FALSE]

-------------------------------------------------------------------------------
(* consoleintr(), one character *)

\* How far ^U goes back: to w, or to the end of the line before.
LineStart == Max({0} \cup {i \in 1 .. Distance(w, e) : Span(w, e)[i] = NL})

Confirms(c) == c \in {NL, EOF} \/ Forward(e, 1) = Forward(r, INPUT_BUF)

HasRoom == Distance(r, e) < INPUT_BUF

Roused == [p \in Readers |-> IF cpc[p] = "sleeps" THEN "read" ELSE cpc[p]]

\* The start of the line instead of its end.
EditPlace_start == w % INPUT_BUF

EditPlace == e % INPUT_BUF

typed(c) ==
  /\ c \in Chars /\ clock = NoReader
  /\ IF HasRoom
     THEN /\ buf' = [buf EXCEPT ![EditPlace] = c]
          /\ e' = Forward(e, 1)
          /\ IF Confirms(c) THEN w' = e' /\ cpc' = Roused ELSE UNCHANGED <<w, cpc>>
     ELSE UNCHANGED <<buf, e, w, cpc>>
  /\ UNCHANGED <<r, clock, room, line, killedReader>>

\* How many characters a key takes away.
Erased(c) == IF c = KILL_LINE THEN Distance(w, e) - LineStart ELSE Min({1, Distance(w, e)})

edited(c) ==
  /\ c \in {BACKSPACE, KILL_LINE} /\ clock = NoReader
  /\ e' = Back(e, Erased(c))
  /\ UNCHANGED <<buf, r, w, clock, cpc, room, line, killedReader>>

consoleintr(c) == typed(c) \/ edited(c)

-------------------------------------------------------------------------------
(* consoleread() *)

\* The call, for n > 0 characters.
consoleread(p, n) ==
  /\ cpc[p] = "out"
  /\ cpc'  = [cpc EXCEPT ![p] = "read"]
  /\ room' = [room EXCEPT ![p] = n]
  /\ line' = [line EXCEPT ![p] = <<>>]
  /\ UNCHANGED <<buf, r, w, e, clock, killedReader>>

\* The characters that the loop looks at: up to the first NL or EOF, at most as many as fit.
Looked(p) ==
  LET s == Span(r, w)
      stops == {i \in DOMAIN s : s[i] \in {NL, EOF}}
  IN SubSeq(s, 1, Min({Len(s), room[p]} \cup stops))

\* EOF stays for the next call, unless this one returns nothing but EOF.
Consumed(p, s) ==
  IF Last(s) = EOF /\ line[p] \o Front(s) # <<>> THEN Len(s) - 1 ELSE Len(s)

\* The loop, as long as there is something to read and nothing that ends it.
copies(p) ==
  /\ cpc[p] = "read" /\ clock = NoReader /\ r # w
  /\ LET s == Looked(p)
         given == IF Last(s) = EOF THEN Front(s) ELSE s
     IN /\ r' = Forward(r, Consumed(p, s))
        /\ line' = [line EXCEPT ![p] = @ \o given]
        /\ room' = [room EXCEPT ![p] = @ - Len(given)]
        /\ cpc' = [cpc EXCEPT ![p] =
                     IF Last(s) \in {NL, EOF} \/ Len(s) = room[p] THEN "done" ELSE "read"]
  /\ UNCHANGED <<buf, w, e, clock, killedReader>>

\* Nothing to read: a killed process gives up what it has, another is about to sleep.
waits(p) ==
  /\ cpc[p] = "read" /\ clock = NoReader /\ r = w
  /\ IF killedReader[p]
     THEN /\ cpc' = [cpc EXCEPT ![p] = "done"]
          /\ line' = [line EXCEPT ![p] = <<>>]
          /\ UNCHANGED clock
     ELSE /\ cpc' = [cpc EXCEPT ![p] = "tested"]
          /\ clock' = p
          /\ UNCHANGED line
  /\ UNCHANGED <<buf, r, w, e, room, killedReader>>

sleeps(p) ==
  /\ cpc[p] = "tested"
  /\ cpc' = [cpc EXCEPT ![p] = "sleeps"]
  /\ clock' = NoReader
  /\ UNCHANGED <<buf, r, w, e, room, line, killedReader>>

\* kill() of a process that may be in consoleread().
killReader(p) ==
  /\ killedReader' = [killedReader EXCEPT ![p] = TRUE]
  /\ cpc' = [cpc EXCEPT ![p] = IF @ = "sleeps" THEN "read" ELSE @]
  /\ UNCHANGED <<buf, r, w, e, clock, room, line>>

\* The caller has what it asked for.
returns(p) ==
  /\ cpc[p] = "done"
  /\ cpc' = [cpc EXCEPT ![p] = "out"]
  /\ UNCHANGED <<buf, r, w, e, clock, room, line, killedReader>>

ConsoleContinues(p) == copies(p) \/ waits(p) \/ sleeps(p)

-------------------------------------------------------------------------------
(* Properties. *)

\* A reader sleeps only while no confirmed character is there: also when the ring fills up
\* without a newline, the reader is told.
NoReaderOversleeps == (\E p \in Readers : cpc[p] = "sleeps") => r = w

\* A ring that is full has something to read: typing never gets stuck.
FullIsReadable == Distance(r, e) = INPUT_BUF => r # w

Editor == INSTANCE LineEditor WITH
  Room <- INPUT_BUF, confirmed <- Span(r, w), line <- Span(w, e)

\* The ring implements LineEditor: neither editing nor a full ring nor the end-of-file character
\* that is put back touches what was confirmed.
RefinesLineEditor == Editor!Spec

\* The inductive invariant: who holds cons.lock has found nothing to read, and nothing comes
\* before he sleeps; who reads has room left.
ConsoleInv ==
  /\ ConsoleTypeOK /\ FullIsReadable
  /\ \A p \in Readers :
       /\ clock = p <=> cpc[p] = "tested"
       /\ cpc[p] \in {"tested", "sleeps"} => r = w
       /\ cpc[p] \in {"read", "tested", "sleeps"} => room[p] > 0
===============================================================================
