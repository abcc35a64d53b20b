------------------------------ MODULE ShellParser -----------------------------
(***************************************************************************)
(* How the shell reads a command line (sh.c, from gettoken() on): the      *)
(* recursive descent, and nulterminate(), which cuts the line into strings *)
(* when all of it has been parsed.                                         *)
(*                                                                         *)
(* The line is typed one character at a time; "a" stands for whatever is   *)
(* neither white space nor a symbol.  Positions are the pointers into the  *)
(* line; a word is the pair of its q and eq.  The redirections of a        *)
(* command stand in a list next to it, the outermost last.  How commands   *)
(* are run is in ShellPipeline.                                            *)
(***************************************************************************)
EXTENDS Naturals, Sequences, FiniteSets

CONSTANTS MaxLine, \* characters of a line
          MAXARGS

VARIABLE line

Space   == " "
Letter  == "a"
symbols == {"<", "|", ">", "&", ";", "(", ")"}
NUL     == "0"

Init == line = <<>>
Next == /\ Len(line) < MaxLine
        /\ \E c \in symbols \cup {Space, Letter} : line' = Append(line, c)
Spec == Init /\ [][Next]_line

-------------------------------------------------------------------------------
(* Characters and tokens. *)

Es(l)    == Len(l) + 1
At(l, s) == IF s < Es(l) THEN l[s] ELSE NUL

SkipSpace(l, s) == LET skip[i \in 1 .. Es(l)] == IF At(l, i) = Space THEN skip[i + 1] ELSE i IN skip[s]
SkipWord(l, s)  == LET skip[i \in 1 .. Es(l)] == IF At(l, i) = Letter THEN skip[i + 1] ELSE i IN skip[s]

\* The token at s, where no white space is: what it is and where it ends.
Token(l) ==
  [s \in 1 .. Es(l) |->
     CASE At(l, s) = NUL -> <<NUL, s>>
       [] At(l, s) = ">" /\ At(l, s + 1) = ">" -> <<"+", s + 2>>
       [] At(l, s) \in symbols /\ ~(At(l, s) = ">" /\ At(l, s + 1) = ">") -> <<At(l, s), s + 1>>
       [] OTHER -> <<At(l, s), SkipWord(l, s)>>]

\* The token behind s, its ends, and where the next one starts.
gettoken(l, s) ==
  LET next == [q \in 1 .. Es(l) |->
                 [tok |-> Token(l)[q][1], q |-> q, eq |-> Token(l)[q][2],
                  s |-> SkipSpace(l, Token(l)[q][2])]]
  IN next[SkipSpace(l, s)]

Word(t) == <<t.q, t.eq>>

\* The next character, when it is one of toks.
peek(l, s, toks) == At(l, SkipSpace(l, s)) \in toks

-------------------------------------------------------------------------------
(* Commands. *)

execcmd(words)      == [type |-> "EXEC", argv |-> words]
pipecmd(left, right) == [type |-> "PIPE", left |-> left, right |-> right]
listcmd(left, right) == [type |-> "LIST", left |-> left, right |-> right]
backcmd(cmd)        == [type |-> "BACK", cmd |-> cmd]
redircmd(cmd, r)    == [type |-> "REDIR", cmd |-> cmd, op |-> r.op, file |-> r.file]

RECURSIVE Redirected(_, _)
Redirected(cmd, redirs) ==
  IF redirs = <<>> THEN cmd ELSE Redirected(redircmd(cmd, Head(redirs)), Tail(redirs))

\* What a parse function returns: the command and the place behind it, in a set that is empty
\* when it panics.
Parsed(cmd, s) == {[cmd |-> cmd, s |-> s]}
Panic          == {}

-------------------------------------------------------------------------------
(* The parser. *)

\* The redirections from s on.
RECURSIVE parseredirs(_, _, _)
parseredirs(l, s, redirs) ==
  IF ~peek(l, s, {"<", ">"}) THEN {[redirs |-> redirs, s |-> s]}
  ELSE LET op   == gettoken(l, s)
           file == gettoken(l, op.s)
       IN IF file.tok # Letter THEN Panic
          ELSE parseredirs(l, file.s, Append(redirs, [op |-> op.tok, file |-> Word(file)]))

\* The arguments from s on, with redirections between them.
RECURSIVE Arguments(_, _, _, _)
Arguments(l, s, argv, redirs) ==
  LET t == gettoken(l, s) IN
  CASE peek(l, s, {"|", ")", "&", ";"}) \/ t.tok = NUL ->
         Parsed(Redirected(execcmd(argv), redirs), s)
    [] t.tok \in symbols \/ Len(argv) + 1 >= MAXARGS -> Panic
    [] OTHER -> UNION {Arguments(l, r.s, Append(argv, Word(t)), r.redirs) :
                         r \in parseredirs(l, t.s, redirs)}

\* Any number of "&" behind a command.
RECURSIVE Backs(_, _, _)
Backs(l, s, cmd) ==
  IF peek(l, s, {"&"}) THEN Backs(l, gettoken(l, s).s, backcmd(cmd)) ELSE Parsed(cmd, s)

\* The functions that call one another: parse[f, s] is what f returns for the line from s on.
parseline(parse, l, s) ==
  UNION {IF ~peek(l, b.s, {";"}) THEN {b}
         ELSE {[cmd |-> listcmd(b.cmd, r.cmd), s |-> r.s] : r \in parse["line", gettoken(l, b.s).s]} :
           b \in UNION {Backs(l, p.s, p.cmd) : p \in parse["pipe", s]}}

parsepipe(parse, l, s) ==
  UNION {IF ~peek(l, p.s, {"|"}) THEN {p}
         ELSE {[cmd |-> pipecmd(p.cmd, r.cmd), s |-> r.s] : r \in parse["pipe", gettoken(l, p.s).s]} :
           p \in parse["exec", s]}

parseblock(parse, l, s) ==
  UNION {{[cmd |-> Redirected(p.cmd, r.redirs), s |-> r.s] :
            r \in parseredirs(l, gettoken(l, p.s).s, <<>>)} :
              p \in {p \in parse["line", gettoken(l, s).s] : peek(l, p.s, {")"})}}

parseexec(parse, l, s) ==
  IF peek(l, s, {"("}) THEN parseblock(parse, l, s)
  ELSE UNION {Arguments(l, r.s, <<>>, r.redirs) : r \in parseredirs(l, s, <<>>)}

Parser(l) ==
  LET parse[f \in {"line", "pipe", "exec"}, s \in 1 .. Es(l)] ==
        CASE f = "line" -> parseline(parse, l, s)
          [] f = "pipe" -> parsepipe(parse, l, s)
          [] f = "exec" -> parseexec(parse, l, s)
  IN parse

\* The command of a line, in a set; parsecmd() panics when something is left over.
parsecmd(l) == {p.cmd : p \in {p \in Parser(l)["line", 1] : SkipSpace(l, p.s) = Es(l)}}

\* The places where nulterminate() writes a 0.
RECURSIVE nulterminate(_)
nulterminate(cmd) ==
  CASE cmd.type = "EXEC"  -> {cmd.argv[i][2] : i \in DOMAIN cmd.argv}
    [] cmd.type = "REDIR" -> nulterminate(cmd.cmd) \cup {cmd.file[2]}
    [] cmd.type = "BACK"  -> nulterminate(cmd.cmd)
    [] OTHER              -> nulterminate(cmd.left) \cup nulterminate(cmd.right)

-------------------------------------------------------------------------------
(* Properties. *)

\* The words of a command, in the tree.
RECURSIVE WordsOf(_)
WordsOf(cmd) ==
  CASE cmd.type = "EXEC"  -> {cmd.argv[i] : i \in DOMAIN cmd.argv}
    [] cmd.type = "REDIR" -> WordsOf(cmd.cmd) \cup {cmd.file}
    [] cmd.type = "BACK"  -> WordsOf(cmd.cmd)
    [] OTHER              -> WordsOf(cmd.left) \cup WordsOf(cmd.right)

\* The words of a line, by their ends.
WordsIn(l) ==
  {<<i, j>> \in (1 .. Len(l)) \X (1 .. Es(l)) :
     /\ i < j /\ At(l, j) # Letter /\ (i = 1 \/ l[i - 1] # Letter)
     /\ \A x \in i .. (j - 1) : l[x] = Letter}

\* Every word of an accepted line is in the command, and the zeroes that end the strings
\* fall behind the words, each behind one, and never into another.
WordsStayWhole ==
  \A cmd \in parsecmd(line) : /\ WordsOf(cmd) = WordsIn(line)
                              /\ nulterminate(cmd) = {w[2] : w \in WordsIn(line)}

\* The characters that are inside of no parentheses.
Depth(l, i) == Cardinality({j \in 1 .. i : l[j] = "("}) - Cardinality({j \in 1 .. (i - 1) : l[j] = ")"})
Balanced(l) == /\ \A i \in 1 .. Len(l) : Cardinality({j \in 1 .. i : l[j] = ")"})
                                           <= Cardinality({j \in 1 .. i : l[j] = "("})
               /\ Cardinality({j \in 1 .. Len(l) : l[j] = "("})
                    = Cardinality({j \in 1 .. Len(l) : l[j] = ")"})
Outer(l, c) == {i \in 1 .. Len(l) : l[i] = c /\ Depth(l, i) = 0}

\* The line without what is at the places S.
Blanked(l, S) == [i \in 1 .. Len(l) |-> IF i \in S THEN Space ELSE l[i]]
First(S)      == CHOOSE i \in S : \A j \in S : i <= j
Before(l, i)  == Blanked(l, i .. Len(l))
Behind(l, i)  == Blanked(l, 1 .. i)

\* The line is two lines, joined by node at place i.
Joins(l, i, node(_, _)) ==
  parsecmd(l) = {node(lr[1], lr[2]) : lr \in parsecmd(Before(l, i)) \X parsecmd(Behind(l, i))}

Ends(l, c) == \E i \in 1 .. Len(l) : l[i] = c /\ \A j \in (i + 1) .. Len(l) : l[j] = Space
Last(l, c) == CHOOSE i \in 1 .. Len(l) : l[i] = c /\ \A j \in (i + 1) .. Len(l) : l[j] # c

\* ";" binds least, then a "&" at the end, then "|", and each joins what the shell makes of
\* the two sides alone; parentheses around a line change nothing; "&" anywhere else and
\* parentheses that do not match are refused.
ParsesByParts ==
  LET l == line IN
  IF ~Balanced(l) THEN parsecmd(l) = {}
  ELSE IF Outer(l, ";") # {} THEN Joins(l, First(Outer(l, ";")), listcmd)
  ELSE IF Ends(l, "&") THEN parsecmd(l) = {backcmd(c) : c \in parsecmd(Blanked(l, {Last(l, "&")}))}
  ELSE IF Outer(l, "&") # {} THEN parsecmd(l) = {}
  ELSE IF Outer(l, "|") # {} THEN Joins(l, First(Outer(l, "|")), pipecmd)
  ELSE Len(l) > 0 /\ l[1] = "(" /\ Ends(l, ")") /\ (\A i \in 1 .. (Len(l) - 1) : l[i] # ")")
       => parsecmd(l) = parsecmd(Blanked(l, {1, Last(l, ")")}))
===============================================================================
