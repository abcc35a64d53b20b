----------------------------- MODULE ShellPipeline ----------------------------
(***************************************************************************)
(* cat | cat as the shell runs it: runcmd() of sh.c with its two children, *)
(* the left one reads the console and writes the pipe, the right one reads *)
(* the pipe, or exits at once.  Composes Pipe and Console.  Pipes are      *)
(* allocated or not, fork() works or not, each child may be killed at any  *)
(* moment, and a user types.                                               *)
(***************************************************************************)
EXTENDS Pipe, Console

CONSTANTS Typings,    \* what the user types first; then he types ^D
          ConsoleFDs, \* the descriptors of the console that the shell may start with
          CatBuf,     \* sizeof(buf) of cat.c (512)
          MaxKills    \* calls of kill()

Children == {"left", "right"}
Steps == {"pipe", "fork1", "fork2", "wait1", "wait2", "redirect", "dup", "close0", "close1",
          "read", "write", "written", "show", "end"}

\* The shell and its two children, one pipe; cat asks for at least one byte.
ASSUME ShellAssumption ==
  /\ Procs = {"sh", "left", "right"} /\ Readers = {"left"}
  /\ NOFILE >= 4 /\ \E q \in Pipes : Pipes = {q}
  /\ Chars \subseteq Byte /\ CatBuf \in Nat \ {0}
  /\ ConsoleFDs \subseteq (SUBSET FDs) \ {{}} /\ Typings \subseteq Seq(Keys)

VARIABLES
  step,  \* where each program is
  quits, \* the right program exits without reading
  keys,  \* what will be typed
  taken, \* what the left program has read from the console
  shown  \* what the right program has written to it

progVars == <<step, quits, keys, taken, shown>>
vars == <<pipeVars, consVars, progVars>>

ShellTypeOK ==
  /\ PipeTypeOK /\ ConsoleTypeOK
  /\ step \in [Procs -> Steps]
  /\ quits \in BOOLEAN
  /\ keys \in Seq(Keys) /\ taken \in Seq(Chars) /\ shown \in Seq(Byte)

Init ==
  /\ \E fds \in ConsoleFDs : PipeInit({"sh"}, fds)
  /\ ConsoleInit
  /\ step = [p \in Procs |-> IF p = "sh" THEN "pipe" ELSE "redirect"]
  /\ quits \in BOOLEAN
  /\ keys \in Typings
  /\ taken = <<>> /\ shown = <<>>

\* The process is in its program, not in a call nor dead, and at step s of it.
InProgram(p) == pc[p] = "run" /\ (p \in Readers => cpc[p] = "out")
At(p, s) == InProgram(p) /\ ~killed[p] /\ step[p] = s

Goto(p, s) == step' = [step EXCEPT ![p] = s]
Same == UNCHANGED <<consVars, quits, keys, taken, shown>>

-------------------------------------------------------------------------------
(* runcmd(), case PIPE; the pipe has the descriptors 2 and 3 *)

sh_pipe ==
  /\ At("sh", "pipe") /\ Goto("sh", "fork1") /\ Same
  /\ pipealloc("sh") \/ pipeallocFails("sh")

\* panic() of sh.c: pipe() or fork() has failed.
sh_panic ==
  /\ At("sh", "fork1") \/ At("sh", "fork2")
  /\ Goto("sh", "end") /\ Same
  /\ exit("sh")

sh_fork ==
  /\ Same
  /\ \/ /\ At("sh", "fork1") /\ result["sh"] = 0
        /\ Goto("sh", "fork2") /\ fork("sh", "left")
     \/ At("sh", "fork2") /\ Goto("sh", "close0") /\ fork("sh", "right")

sh_close ==
  /\ Same
  /\ \/ At("sh", "close0") /\ Goto("sh", "close1") /\ sys_close("sh", 2)
     \/ At("sh", "close1") /\ Goto("sh", "wait1") /\ sys_close("sh", 3)

Exited == Cardinality({c \in Children : pc[c] = "dead"})

\* wait(): ProcLifecycle says when it returns.
sh_wait ==
  /\ \/ At("sh", "wait1") /\ Exited >= 1 /\ Goto("sh", "wait2")
     \/ At("sh", "wait2") /\ Exited = 2 /\ Goto("sh", "end")
  /\ UNCHANGED pipeVars /\ Same

sh_exit == At("sh", "end") /\ UNCHANGED step /\ Same /\ exit("sh")

sh == sh_pipe \/ sh_panic \/ sh_fork \/ sh_close \/ sh_wait \/ sh_exit

\* The right child forgets its copy of the write end.
RightCloses_readEnd == <<2, 2>>

\* What the right child closes when it has its end as descriptor 0.
RightCloses == <<2, 3>>

\* The children put their end of the pipe in place of descriptor d.
Redirects(p, d, end, closes) ==
  \/ At(p, "redirect") /\ Goto(p, "dup") /\ sys_close(p, d)
  \/ At(p, "dup") /\ Goto(p, "close0") /\ sys_dup(p, end)
  \/ At(p, "close0") /\ Goto(p, "close1") /\ sys_close(p, closes[1])
  \/ At(p, "close1") /\ Goto(p, "read") /\ sys_close(p, closes[2])

-------------------------------------------------------------------------------
(* cat.c, reading the console and writing the pipe *)

left_redirects == Redirects("left", 1, 3, <<2, 3>>) /\ Same

left_read ==
  /\ At("left", "read") /\ consoleread("left", CatBuf)
  /\ UNCHANGED <<pipeVars, progVars>>

left_got ==
  /\ returns("left")
  /\ taken' = taken \o line["left"]
  /\ Goto("left", IF line["left"] = <<>> THEN "end" ELSE "write")
  /\ UNCHANGED <<pipeVars, quits, keys, shown>>

left_write ==
  /\ At("left", "write") /\ Goto("left", "written") /\ Same
  /\ sys_write("left", 1, line["left"])

left_written ==
  /\ At("left", "written")
  /\ Goto("left", IF result["left"] = Len(line["left"]) THEN "read" ELSE "end")
  /\ UNCHANGED pipeVars /\ Same

\* A killed process exits when it leaves the kernel (trap.c).
left_exit ==
  /\ InProgram("left") /\ (killed["left"] \/ step["left"] = "end")
  /\ exit("left") /\ UNCHANGED step /\ Same

left == left_redirects \/ left_read \/ left_got \/ left_write \/ left_written \/ left_exit

-------------------------------------------------------------------------------
(* cat.c, reading the pipe and writing the console *)

right_redirects == Redirects("right", 0, 2, RightCloses) /\ Same

right_read ==
  /\ At("right", "read") /\ ~quits
  /\ Goto("right", "show") /\ Same
  /\ sys_read("right", 0, CatBuf)

right_show ==
  /\ At("right", "show")
  /\ shown' = shown \o got["right"]
  /\ Goto("right", IF result["right"] > 0 THEN "read" ELSE "end")
  /\ UNCHANGED <<pipeVars, consVars, quits, keys, taken>>

right_exit ==
  /\ InProgram("right")
  /\ killed["right"] \/ step["right"] = "end" \/ (step["right"] = "read" /\ quits)
  /\ exit("right") /\ UNCHANGED step /\ Same

right == right_redirects \/ right_read \/ right_show \/ right_exit

-------------------------------------------------------------------------------
(* The kernel goes on with the calls, the user types, somebody kills. *)

kernel(p) ==
  \/ PipeContinues(p) /\ UNCHANGED <<consVars, progVars>>
  \/ p \in Readers /\ ConsoleContinues(p) /\ UNCHANGED <<pipeVars, progVars>>

user ==
  /\ Live("left") /\ keys # <<>>
  /\ consoleintr(keys[1])
  /\ keys' = IF Len(keys) > 1 THEN Tail(keys) ELSE <<EOF>>
  /\ UNCHANGED <<pipeVars, step, quits, taken, shown>>

kills ==
  /\ Cardinality({p \in Procs : killed[p]}) < MaxKills
  /\ \E c \in Children :
       kill(c) /\ (IF c \in Readers THEN killReader(c) ELSE UNCHANGED consVars)
  /\ UNCHANGED progVars

Next == sh \/ left \/ right \/ (\E p \in Procs : kernel(p)) \/ user \/ kills

Spec == Init /\ [][Next]_vars

\* Every process goes on when it can, and the user goes on typing.
FairSpec ==
  /\ Spec
  /\ WF_vars(sh) /\ WF_vars(left) /\ WF_vars(right) /\ WF_vars(user)
  /\ \A p \in Procs : WF_vars(kernel(p))

-------------------------------------------------------------------------------
(* Properties. *)

Written == CASE step["left"] = "write" -> line["left"]
             [] step["left"] = "written" -> arg["left"].todo
             [] OTHER -> <<>>
Unshown == IF step["right"] = "show" THEN got["right"] ELSE <<>>

\* What the left program has read is, in this order: shown, in the hands of the right program,
\* in the pipe, in the hands of the left program.  Nothing is lost, doubled or overtaken,
\* as long as nobody is killed and no write fails.
InOrder ==
  (\A p \in Procs : ~killed[p]) /\ result["left"] # -1 =>
    \A q \in Pipes : taken = shown \o Unshown \o Queue(q) \o Written

\* Descriptors, files and the ends of pipes agree, and the text is where it should be.
PipesAreConsistent == ShellTypeOK /\ RefIsExact /\ PipeMatchesFiles /\ InOrder

\* Nobody sleeps on a pipe or on the console who could go on, and typing never gets stuck.
NobodySleepsInVain == NobodyOversleeps /\ NoReaderOversleeps /\ FullIsReadable

\* The pipeline ends: the left program sees the end of the input, the right one the end of
\* the pipe when every write end is closed, and a writer without readers gives up.
\* It does so if a child is killed, also when it is killed just before it falls asleep, or if
\* fork() fails.
PipelineEnds == <>[](\A p \in Procs : ~Live(p))

-------------------------------------------------------------------------------
(* The inductive invariant. *)

Early == {"redirect", "dup", "close0", "close1"}

\* Who may be in which call, and what has been read and shown by then.
ProgramsMatchCalls ==
  /\ \A p \in Procs :
       /\ pc[p] \in Writing => p = "left" /\ step[p] = "written"
       /\ pc[p] \in Reading => p = "right" /\ step[p] = "show" /\ got[p] = <<>>
       /\ pc[p] = "descriptors" => p = "sh"
  /\ \A c \in Children : pc[c] = "unborn" => step[c] = "redirect"
  /\ step["sh"] \in {"pipe", "fork1"} => pc["left"] = "unborn"
  /\ step["sh"] \in {"pipe", "fork1", "fork2"} => pc["right"] = "unborn"
  /\ step["left"] \in Early => taken = <<>>
  /\ step["right"] \in Early => shown = <<>>
  /\ cpc["left"] # "out" => step["left"] = "read" /\ pc["left"] = "run"
  /\ step["left"] = "written" => pc["left"] \in Writing \cup {"run"} \/ (killed["left"] /\ exiting["left"])
  /\ step["left"] = "written" /\ pc["left"] = "run" => result["left"] = -1 \/ arg["left"].todo = <<>>

\* The left program's write has failed: what it had in hand may be lost.
WriteFailed ==
  /\ result["left"] = -1
  /\ step["left"] = "end" \/ (step["left"] = "written" /\ pc["left"] = "run")

TextIsKept ==
  (\A p \in Procs : ~killed[p]) /\ ~WriteFailed =>
    \A q \in Pipes : taken = shown \o Unshown \o Queue(q) \o Written

IInv == ShellTypeOK /\ PipeInv /\ ConsoleInv /\ ProgramsMatchCalls /\ TextIsKept
-------------------------------------------------------------------------------
\* Values of Typings for TLC.
MCTypings == {<<"a", "b", "BS", NL>>, <<"b", "^U", "a", "b", "a", "BS">>}
===============================================================================
