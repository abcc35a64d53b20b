------------------------------- MODULE UserText -------------------------------
(***************************************************************************)
(* Functions on text: printf() of user programs and cprintf() of the       *)
(* kernel (printf.c, console.c), gets() (ulib.c) and wc.  A behaviour is   *)
(* one call, or for gets() all the calls until the end of the text.  What  *)
(* printint() prints is the matter of Strings.                             *)
(***************************************************************************)
EXTENDS Naturals, Sequences, SequencesExt, FiniteSets

CONSTANTS Formats, \* format strings
          Inputs,  \* texts that are read
          Sizes    \* of buffers

VARIABLES fn,     \* the function
          string, \* the format or the text
          max,    \* the size of the buffer
          result  \* what has been printed or counted, or the lines that have been read

vars == <<fn, string, max, result>>

Init ==
  /\ \/ fn = "printf" /\ string \in Formats /\ max = 0
     \/ fn \in {"gets", "wc"} /\ string \in Inputs /\ max \in Sizes
  /\ result = <<>>

-------------------------------------------------------------------------------
(* printf.  An argument is printed as its number and its conversion, other characters with 0. *)

Plain(c) == <<0, c>>

\* What the directive % c prints as argument k, and whether it takes an argument; "p" is "x".
KernelDirective(c, k) ==
  CASE c \in {"d", "x", "s"} -> [print |-> << <<k, c>> >>, takes |-> 1]
    [] c = "%"               -> [print |-> <<Plain("%")>>, takes |-> 0]
    [] OTHER                 -> [print |-> <<Plain("%"), Plain(c)>>, takes |-> 0]

UserDirective(c, k) == IF c = "c" THEN [print |-> << <<k, c>> >>, takes |-> 1] ELSE KernelDirective(c, k)

\* cprintf() looks at the character behind a % at once; k is the next argument.
RECURSIVE cprintf(_, _)
cprintf(f, k) ==
  IF f = <<>> THEN <<>>
  ELSE IF f[1] # "%" THEN <<Plain(f[1])>> \o cprintf(Tail(f), k)
  ELSE IF Len(f) = 1 THEN <<>>
  ELSE LET d == KernelDirective(f[2], k) IN d.print \o cprintf(Tail(Tail(f)), k + d.takes)

\* One character of the format; printf() keeps a state.
Printed(acc, c) ==
  IF acc.state = "text"
  THEN IF c = "%" THEN [acc EXCEPT !.state = "%"] ELSE [acc EXCEPT !.out = Append(@, Plain(c))]
  ELSE LET d == UserDirective(c, acc.k) IN
       [state |-> "text", k |-> acc.k + d.takes, out |-> acc.out \o d.print]

printf(f) == FoldLeft(Printed, [state |-> "text", k |-> 1, out |-> <<>>], f).out

-------------------------------------------------------------------------------
(* gets and wc *)

Ends(c) == c \in {"nl", "cr"}

\* How many characters gets(buf, m) takes of the text t that is left.
Gets(t, m) == CHOOSE n \in 0 .. Len(t) :
  /\ \A i \in 1 .. n - 1 : ~Ends(t[i]) /\ i + 1 < m
  /\ n = Len(t) \/ n + 1 >= m \/ (n > 0 /\ Ends(t[n]))

\* The lines that calls of gets() return; an empty one is the end.
RECURSIVE Lines(_, _)
Lines(t, m) ==
  LET n == Gets(t, m) IN
  IF n = 0 THEN <<>> ELSE <<SubSeq(t, 1, n)>> \o Lines(SubSeq(t, n + 1, Len(t)), m)

Blanks == {"sp", "nl", "cr"}

\* One character; first tells that it is the first one of a buffer, which does not matter.
Counted(acc, c, first) ==
  [c |-> acc.c + 1, l |-> acc.l + (IF c = "nl" THEN 1 ELSE 0),
   w |-> acc.w + (IF c \notin Blanks /\ ~acc.inword THEN 1 ELSE 0), inword |-> c \notin Blanks]

\* wc reads the text in pieces of m characters.
wc(t, m) ==
  FoldLeft(LAMBDA acc, i : Counted(acc, t[i], ((i - 1) % m) = 0),
           [c |-> 0, l |-> 0, w |-> 0, inword |-> FALSE], [i \in 1 .. Len(t) |-> i])

returns ==
  /\ result = <<>>
  /\ result' = CASE fn = "printf" -> <<cprintf(string, 1), printf(string)>>
                 [] fn = "gets"   -> <<Lines(string, max)>>
                 [] fn = "wc"     -> <<wc(string, max)>>
  /\ UNCHANGED <<fn, string, max>>

Next == returns
Spec == Init /\ [][Next]_vars

-------------------------------------------------------------------------------
(* Properties. *)

\* The letters behind the % of a format: every second one of %%, and nothing behind a last one.
Directives(f) ==
  {i \in 2 .. Len(f) : f[i - 1] = "%" /\
     Cardinality({j \in 1 .. i - 1 : \A k \in j .. i - 1 : f[k] = "%"}) % 2 = 1}

\* The kernel and the user programs read a format alike, but for %c, which the kernel does not know;
\* they take the arguments in order, one for each conversion.
PrintsAlike ==
  fn = "printf" /\ result # <<>> =>
    LET conversions == {i \in Directives(string) : string[i] \in {"d", "x", "s", "c"}}
        numbers     == SelectSeq(result[2], LAMBDA x : x[1] # 0)
    IN /\ (\A i \in Directives(string) : string[i] # "c") => result[1] = result[2]
       /\ Len(numbers) = Cardinality(conversions)
       /\ \A k \in DOMAIN numbers : numbers[k][1] = k

\* Calls of gets() read the text to its end, each a piece that ends at a line or fills the buffer
\* and leaves room for the NUL.
GetsLosesNothing ==
  fn = "gets" /\ result # <<>> =>
    LET lines == result[1] IN
    /\ max > 1 => FlattenSeq(lines) = string
    /\ \A k \in DOMAIN lines :
         /\ Len(lines[k]) < max
         /\ \A i \in 1 .. Len(lines[k]) - 1 : ~Ends(lines[k][i])
         /\ k < Len(lines) /\ Len(lines[k]) + 1 < max => Ends(lines[k][Len(lines[k])])

\* wc counts the words of the text, however it is cut by the buffer.
CountsWords ==
  fn = "wc" /\ result # <<>> =>
    result[1].w = Cardinality({i \in DOMAIN string :
                     string[i] \notin Blanks /\ (i = 1 \/ string[i - 1] \in Blanks)})
===============================================================================
