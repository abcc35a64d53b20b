----------------------------- MODULE ConsoleOutput ----------------------------
(***************************************************************************)
(* What the console puts out (console.c), in two specifications.           *)
(*                                                                         *)
(* ScreenSpec is the text on the screen (consputc, cgaputc): a memory of   *)
(* ROWS rows of which all but the last one are written, and a cursor.      *)
(* Beside it the same text is written on paper that has no end: what the   *)
(* screen shows has to be the last rows of it.  A zero and a space look    *)
(* the same.                                                               *)
(*                                                                         *)
(* Spec is the messages of the kernel (cprintf, panic, consputc) on        *)
(* several CPUs.  A message has LEN characters; each is put in two steps,  *)
(* the test of panicked and the output.  What the characters are is the    *)
(* matter of UserText, where they appear that of ScreenSpec.               *)
(***************************************************************************)
EXTENDS Integers, Sequences, FiniteSets

CONSTANTS ROWS, COLS, \* 25 and 80
          Letters,
          MaxTyped,   \* characters of a line that can be taken back (INPUT_BUF)
          MaxPut,     \* characters of a behaviour
          CPUs, Nobody,
          LEN,        \* characters of a message
          MaxMessages \* messages of a behaviour, panics included

\* What is typed can be taken back without leaving the screen.
ScreenAssumption ==
  ROWS \in Nat /\ COLS \in Nat \ {0} /\ MaxTyped \in Nat /\ MaxTyped < (ROWS - 2) * COLS

VARIABLES
  crt, pos,   \* the memory and the cursor
  overflow,   \* panic("pos under/overflow"), or a write outside of the memory
  typed,      \* characters of the edited line that are on the screen
  paper, at,  \* the paper, and the place of the next character
  nput,
  conslock,   \* who holds cons.lock
  locking,    \* cons.locking
  panicked,
  pc,
  mine,       \* the variable locking of cprintf()
  dying,      \* is in panic()
  left,       \* characters that are left of the message
  out,        \* what has been printed: pairs of a CPU and whether it is in panic()
  nmessages

screenVars == <<crt, pos, overflow, typed, paper, at, nput>>
vars == <<conslock, locking, panicked, pc, mine, dying, left, out, nmessages>>

-------------------------------------------------------------------------------
(* The screen. *)

Cells == 0 .. ROWS * COLS - 1
Visible == 0 .. (ROWS - 1) * COLS - 1
PaperCells == 0 .. (ROWS + MaxPut) * COLS
Blank == " "

\* The boot loader leaves the cursor anywhere in the rows that are used.
ScreenInit ==
  /\ crt = [i \in Cells |-> Blank] /\ pos \in Visible
  /\ overflow = FALSE /\ typed = 0
  /\ paper = [i \in PaperCells |-> Blank] /\ at = pos
  /\ nput = 0

NextRow(p) == p + (COLS - (p % COLS))
BackFrom(p) == IF p > 0 THEN p - 1 ELSE 0

\* The cursor behind c.
Moved(c, p) == CASE c = "newline" -> NextRow(p) [] c = "backspace" -> BackFrom(p) [] OTHER -> p + 1

\* m moved up by a row, and blank from the cursor p on.
ScrolledUp(m, p) ==
  [i \in Cells |-> IF i >= p /\ i < (ROWS - 1) * COLS THEN Blank
                   ELSE IF i < (ROWS - 2) * COLS THEN m[i + COLS] ELSE m[i]]

cgaputc(c) ==
  LET m == IF c \in Letters THEN [crt EXCEPT ![pos] = c] ELSE crt
      p == Moved(c, pos)
      full == p \div COLS >= ROWS - 1
      q == IF full THEN p - COLS ELSE p
  IN IF p > ROWS * COLS \/ q \notin Cells
     THEN overflow' = TRUE /\ UNCHANGED <<crt, pos>>
     ELSE /\ pos' = q
          /\ crt' = [(IF full THEN ScrolledUp(m, q) ELSE m) EXCEPT ![q] = Blank]
          /\ UNCHANGED overflow

\* The same on the paper.
Writes(c) ==
  /\ at' = Moved(c, at)
  /\ paper' = CASE c = "newline" -> paper
                [] c = "backspace" -> [paper EXCEPT ![at - 1] = Blank]
                [] OTHER -> [paper EXCEPT ![at] = c]

\* A program writes, and the editor echoes; it takes back only what has been typed in this line.
consputc(c) ==
  /\ ~overflow /\ nput < MaxPut /\ nput' = nput + 1
  /\ cgaputc(c) /\ Writes(c)

Write == \E c \in Letters \cup {"newline"} : consputc(c) /\ UNCHANGED typed
Echo  == \/ typed < MaxTyped /\ (\E c \in Letters : consputc(c)) /\ typed' = typed + 1
         \/ consputc("newline") /\ typed' = 0
Erase == typed > 0 /\ consputc("backspace") /\ typed' = typed - 1

ScreenNext == Write \/ Echo \/ Erase
ScreenSpec == ScreenInit /\ [][ScreenNext]_screenVars

-------------------------------------------------------------------------------
(* The messages. *)

\* consoleinit() has run.
Init ==
  /\ conslock = Nobody /\ locking = TRUE /\ panicked = FALSE
  /\ pc = [c \in CPUs |-> "run"] /\ mine = [c \in CPUs |-> FALSE]
  /\ dying = [c \in CPUs |-> FALSE] /\ left = [c \in CPUs |-> 0]
  /\ out = <<>> /\ nmessages = 0

At(c, point)   == pc[c] = point
Goes(c, point) == pc' = [pc EXCEPT ![c] = point]
Counts == nmessages < MaxMessages /\ nmessages' = nmessages + 1

\* cprintf() looks at cons.locking once.
Begins(c) ==
  /\ mine' = [mine EXCEPT ![c] = locking]
  /\ left' = [left EXCEPT ![c] = LEN]
  /\ Goes(c, IF locking THEN "acquire" ELSE "test")

cprintf(c) ==
  /\ At(c, "run") /\ Counts /\ Begins(c)
  /\ UNCHANGED <<conslock, locking, panicked, dying, out>>

acquire(c) ==
  /\ At(c, "acquire") /\ conslock = Nobody
  /\ conslock' = c /\ Goes(c, "test")
  /\ UNCHANGED <<locking, panicked, mine, dying, left, out, nmessages>>

\* consputc() looks at panicked, and stops; the end of the message is behind its last character.
tests(c) ==
  /\ At(c, "test")
  /\ Goes(c, IF left[c] = 0 THEN "printed" ELSE IF panicked THEN "frozen" ELSE "put")
  /\ UNCHANGED <<conslock, locking, panicked, mine, dying, left, out, nmessages>>

puts(c) ==
  /\ At(c, "put")
  /\ out' = Append(out, <<c, dying[c]>>)
  /\ left' = [left EXCEPT ![c] = @ - 1]
  /\ Goes(c, "test")
  /\ UNCHANGED <<conslock, locking, panicked, mine, dying, nmessages>>

release(c) ==
  /\ At(c, "printed") /\ ~dying[c]
  /\ conslock' = IF mine[c] THEN Nobody ELSE conslock
  /\ Goes(c, "run")
  /\ UNCHANGED <<locking, panicked, mine, dying, left, out, nmessages>>

\* panic() on a CPU that prints nothing, or out of cgaputc() with the lock held.
panic(c) ==
  /\ At(c, "run") \/ (At(c, "put") /\ ~dying[c])
  /\ Counts
  /\ locking' = FALSE
  /\ dying' = [dying EXCEPT ![c] = TRUE]
  /\ Goes(c, "dying")
  /\ UNCHANGED <<conslock, panicked, mine, left, out>>

panicPrints(c) ==
  /\ At(c, "dying") /\ Begins(c)
  /\ UNCHANGED <<conslock, locking, panicked, dying, out, nmessages>>

\* The other CPUs are frozen before the message is out.
panicEnds_early(c) ==
  /\ At(c, "test") /\ dying[c]
  /\ panicked' = TRUE /\ Goes(c, "stopped")
  /\ UNCHANGED <<conslock, locking, mine, dying, left, out, nmessages>>

\* panic() freezes the other CPUs, and loops.
panicEnds(c) ==
  /\ At(c, "printed") /\ dying[c]
  /\ panicked' = TRUE /\ Goes(c, "stopped")
  /\ UNCHANGED <<conslock, locking, mine, dying, left, out, nmessages>>

Next == \E c \in CPUs : \/ cprintf(c) \/ acquire(c) \/ tests(c) \/ puts(c) \/ release(c)
                        \/ panic(c) \/ panicPrints(c) \/ panicEnds(c)

Spec == Init /\ [][Next]_vars

-------------------------------------------------------------------------------
(* Properties. *)

\* The screen shows the last rows of what has been written, whatever has been scrolled away and
\* taken back, and nothing is written outside of it.
ScreenShowsText ==
  /\ ~overflow /\ pos \in Visible
  /\ (at - pos) % COLS = 0
  /\ \A i \in Visible : crt[i] = paper[i + at - pos]

Said(c, how) == Cardinality({i \in DOMAIN out : out[i] = <<c, how>>})

\* Until a CPU panics, messages are not mixed.
MessagesStayWhole ==
  locking => \A i, j \in DOMAIN out : (i - 1) \div LEN = (j - 1) \div LEN => out[i] = out[j]

\* When the CPUs are frozen, the message of one that has panicked is out, to its last character.
PanicIsHeard == panicked => \E c \in CPUs : dying[c] /\ Said(c, TRUE) = LEN

\* A CPU that panics does not wait for the console, though it or another one may hold its lock
\* for ever.
PanicNeverWaits == \A c \in CPUs : dying[c] => ~At(c, "acquire")
===============================================================================
