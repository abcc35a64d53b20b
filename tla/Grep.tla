---------------------------------- MODULE Grep --------------------------------
(***************************************************************************)
(* grep (grep.c): the matcher, and the loop that cuts what read() returns  *)
(* into lines in a buffer of BUF bytes.  A read of a file returns as much  *)
(* as there is room for; a read of a pipe or of the console returns any    *)
(* part of it.                                                             *)
(***************************************************************************)
EXTENDS Naturals, Sequences, FiniteSets

CONSTANTS BUF,        \* sizeof(buf)
          Patterns,   \* the patterns whose matches are looked at on ShortTexts
          ShortTexts,
          LinePattern, \* the pattern for whole files
          Texts       \* the contents of the input

VARIABLES
  pattern,
  source,   \* "line": one line for match(); "file" or "pipe": an input for grep()
  text,     \* the line or the input
  rest,     \* what has not been read of it
  buf,      \* buf[0 .. m-1]
  out,      \* the lines that have been written
  dropped   \* a part of a line has been thrown away

vars == <<pattern, source, text, rest, buf, out, dropped>>

NL == "nl"

-------------------------------------------------------------------------------
(* The matcher; re and text as positions in strings that end with NUL. *)

NUL == "0"
Char(str, i) == IF i <= Len(str) THEN str[i] ELSE NUL

RECURSIVE matchhere(_, _, _, _), matchstar(_, _, _, _, _), SearchFrom(_, _, _)

\* c*re at the start of the text.
matchstar(c, re, i, str, j) ==
  \/ matchhere(re, i, str, j)
  \/ Char(str, j) # NUL /\ (Char(str, j) = c \/ c = ".") /\ matchstar(c, re, i, str, j + 1)

\* re at the start of the text.
matchhere(re, i, str, j) ==
  CASE Char(re, i) = NUL -> TRUE
    [] Char(re, i) # NUL /\ Char(re, i + 1) = "*" -> matchstar(re[i], re, i + 2, str, j)
    [] Char(re, i) = "$" /\ Char(re, i + 1) = NUL -> Char(str, j) = NUL
    [] OTHER -> /\ Char(str, j) # NUL /\ re[i] \in {".", Char(str, j)}
                /\ matchhere(re, i + 1, str, j + 1)

\* re anywhere in the text, the empty end included.
SearchFrom(re, str, j) ==
  matchhere(re, 1, str, j) \/ (Char(str, j) # NUL /\ SearchFrom(re, str, j + 1))

match(re, str) ==
  IF Char(re, 1) = "^" THEN matchhere(re, 2, str, 1) ELSE SearchFrom(re, str, 1)

-------------------------------------------------------------------------------
(* grep(). *)

Init ==
  /\ \/ source = "line" /\ pattern \in Patterns /\ text \in ShortTexts
     \/ source \in {"file", "pipe"} /\ pattern = LinePattern /\ text \in Texts
  /\ rest = IF source = "line" THEN <<>> ELSE text
  /\ buf = <<>> /\ out = <<>> /\ dropped = FALSE

\* The places of the newlines of s.
Newlines(s) == {i \in DOMAIN s : s[i] = NL}
LastOf(S)   == CHOOSE i \in S : \A j \in S : j <= i

\* The lines of s that end with a newline.
LinesOf(s) ==
  LET ends == Newlines(s)
      nth[i \in 1 .. Cardinality(ends)] ==
        CHOOSE e \in ends : Cardinality({x \in ends : x <= e}) = i
  IN [i \in 1 .. Cardinality(ends) |->
        SubSeq(s, (IF i = 1 THEN 0 ELSE nth[i - 1]) + 1, nth[i] - 1)]

Matching(lines) == SelectSeq(lines, LAMBDA line : match(pattern, line))

\* The buffer keeps nothing of the line that has begun.
Kept_nothing(full) == <<>>

\* What stays in the buffer: the text behind the last newline, nothing if there is none.
Kept(full) == IF Newlines(full) = {} THEN <<>>
              ELSE SubSeq(full, LastOf(Newlines(full)) + 1, Len(full))

\* One turn of the loop of grep(), with n bytes read.
grep(n) ==
  LET full == buf \o SubSeq(rest, 1, n) IN
  /\ rest # <<>>
  /\ n <= Len(rest) /\ n <= BUF - Len(buf) - 1
  /\ source = "file" => n = Len(rest) \/ n = BUF - Len(buf) - 1
  /\ rest' = SubSeq(rest, n + 1, Len(rest))
  /\ out' = out \o Matching(LinesOf(full))
  /\ buf' = Kept(full)
  /\ dropped' = (dropped \/ Newlines(full) = {})
  /\ UNCHANGED <<pattern, source, text>>

Next == \E n \in 1 .. (BUF - 1) : grep(n)

Spec == Init /\ [][Next]_vars

-------------------------------------------------------------------------------
(* Properties. *)

\* The items of a pattern without its "^": a character and whether a "*" follows.
RECURSIVE Items(_)
Items(re) ==
  CASE re = <<>> -> <<>>
    [] Len(re) > 1 /\ re[2] = "*" -> <<<<re[1], TRUE>>>> \o Items(SubSeq(re, 3, Len(re)))
    [] OTHER -> <<<<re[1], FALSE>>>> \o Items(Tail(re))

\* The ends of the parts of str from start on that the items match, each a number of times.
RECURSIVE EndsOf(_, _, _)
EndsOf(items, str, starts) ==
  IF items = <<>> THEN starts
  ELSE LET c == items[1][1]
           ok(i, j) == \A x \in i .. (j - 1) : c = "." \/ str[x] = c
           next == {j \in 1 .. (Len(str) + 1) :
                      \E i \in starts : /\ i <= j /\ ok(i, j)
                                        /\ items[1][2] \/ j = i + 1}
       IN EndsOf(Tail(items), str, next)

\* "^", "." , "*" and "$" mean what they mean: with "^" a match starts at the first
\* character, with "$" at the end it ends at the last, and otherwise anywhere.
MatchesWhatItMeans ==
  source = "line" =>
    LET anchored == Char(pattern, 1) = "^"
        body  == Items(IF anchored THEN Tail(pattern) ELSE pattern)
        atEnd == body # <<>> /\ body[Len(body)] = <<"$", FALSE>>
        items == IF atEnd THEN SubSeq(body, 1, Len(body) - 1) ELSE body
        ends  == EndsOf(items, text, IF anchored THEN {1} ELSE 1 .. (Len(text) + 1))
    IN match(pattern, text) <=> (IF atEnd THEN Len(text) + 1 \in ends ELSE ends # {})

Longest == LET starts == {i \in 1 .. Len(text) : i = 1 \/ text[i - 1] = NL}
               len(i) == Cardinality({j \in i .. Len(text) : \A x \in i .. j : text[x] # NL})
           IN {len(i) : i \in starts}

\* As long as no part of a line has been thrown away, every complete line is judged once
\* and whole, in order, wherever the reads cut it; and of a file whose lines fit into the
\* buffer with their newline nothing is thrown away but an end without newline.
JudgesEveryLine ==
  source # "line" =>
    /\ ~dropped => out = Matching(LinesOf(SubSeq(text, 1, Len(text) - Len(rest))))
    /\ source = "file" /\ (\A n \in Longest : n + 1 <= BUF - 1) /\ rest # <<>> => ~dropped
===============================================================================
