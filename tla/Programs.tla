-------------------------------- MODULE Programs ------------------------------
(***************************************************************************)
(* init and the program that it starts, as sequences of calls of           *)
(* UserKernel: a test, or the shell with a line or two.                    *)
(*                                                                         *)
(* The tests are those of the processes of the three kernels: lotterytest, *)
(* prioritytest and timingtests, the process tests of usertests, and       *)
(* forktest, stressfs and zombie.  Each starts fewer processes than in the *)
(* code; a test is run twice, as run_test() and main() do it five times.   *)
(* A test ends at a call "return"; who gives up goes without.              *)
(*                                                                         *)
(* The shell has parsed its lines (ShellParser); what it and its children  *)
(* do with them is runcmd() and main() of sh.c, for every kind of command. *)
(* The bytes of one pipe and the console are the matter of ShellPipeline.  *)
(***************************************************************************)
EXTENDS UserKernel

CONSTANTS Runs,   \* what is run: pairs of a kernel and a program
          Scripts \* what the shell is given: a set of sequences of commands

VARIABLES program, script

vars == <<kernelVars, program, script>>

-------------------------------------------------------------------------------
(* The tests. *)

Return == <<Call("return")>>

\* A child that is given tickets, works and lets others run; one that sleeps; one that only works.
Worker(tickets)  == <<CallOn("settickets", tickets), Call("yield")>> \o Exit
Sleeper(tickets) == <<CallOn("settickets", tickets), Call("sleep")>> \o Exit
Burst(tickets)   == <<CallOn("settickets", tickets)>> \o Exit

-------------------------------------------------------------------------------
(* lotterytest.c *)

\* A group of processes: the bounds of its part of pids[], and the tickets of each.
Group(from, to, tickets) == [from |-> from, to |-> to, tickets |-> tickets]

\* The processes of a group, started one after the other.
StartsGroup(g, child(_)) ==
  Each(g.to - g.from + 1, [i \in 1 .. g.to - g.from + 1 |-> Fork(g.from + i - 1, child(g.tickets))])

\* sleep(50), getpinfo(), and wait() for all.
Measured(groups, n) == <<Call("sleep"), CallOn("getpinfo", groups)>> \o Times(n, Wait) \o Return

lowGroups == <<Group(0, 0, 30), Group(1, 1, 20), Group(2, 2, 10)>>
run_low_process_test ==
  Each(3, [g \in 1 .. 3 |-> StartsGroup(lowGroups[g], Worker)]) \o Measured(lowGroups, 3)

fairGroups == <<Group(0, 1, 30), Group(2, 2, 20), Group(3, 3, 10)>>
run_basic_fairness_test ==
  Each(3, [g \in 1 .. 3 |-> StartsGroup(fairGroups[g], Worker)]) \o Measured(fairGroups, 4)

\* Group A has one process more than the rounds of the loop, and so has B.
switchGroups == <<Group(0, 1, 30), Group(2, 3, 20), Group(4, 4, 10)>>
run_switch_test ==
  Fork(4, Worker(10)) \o Fork(0, Worker(30)) \o Fork(2, Worker(20))
  \o Fork(1, Worker(30)) \o Fork(3, Worker(20)) \o Measured(switchGroups, 5)

starvationGroups == <<Group(0, 0, 50), Group(1, 1, 10), Group(2, 3, 1)>>
run_starvation_test ==
  Each(3, [g \in 1 .. 3 |-> StartsGroup(starvationGroups[g], Worker)]) \o Measured(starvationGroups, 4)

ticketGroups == <<Group(0, 0, 1), Group(1, 2, 5), Group(3, 3, 10)>>
run_grouped_ticket_test ==
  Each(3, [g \in 1 .. 3 |-> StartsGroup(ticketGroups[g], Worker)]) \o Measured(ticketGroups, 4)

\* CPU-heavy, I/O-bound, short-lived and mixed processes.
mixedGroups == <<Group(0, 0, 20), Group(1, 1, 15), Group(2, 2, 10), Group(3, 3, 5)>>
run_mixed_workload_test ==
  StartsGroup(mixedGroups[1], Worker) \o StartsGroup(mixedGroups[2], Sleeper)
  \o StartsGroup(mixedGroups[3], Burst) \o StartsGroup(mixedGroups[4], Sleeper)
  \o Measured(mixedGroups, 4)

\* main() runs a test several times, with a pause in between.
LotteryRuns(test) == test \o <<Call("sleep")>> \o test \o <<Call("sleep")>> \o Exit

-------------------------------------------------------------------------------
(* timingtests.c of the round-robin kernel.  rest is what comes behind the test: run_test() runs   *)
(* it again.  A test that cannot fork returns at once, to rest.                                    *)

Tasks == 2 \* how many processes a loop starts

\* n processes, of which the i-th does calls(i); on a failure rest comes next.
Starts(n, child(_), rest) ==
  Each(n, [i \in 1 .. n |-> ForkElse(i, child(i), rest)])

\* wait() for n processes.
WaitsFor(n) == Times(n, Wait)

Nothing(i) == Exit
Sleeps(i)  == <<Call("sleep")>> \o Exit

timing_cpu_heavy(rest) == Starts(Tasks, Nothing, rest) \o WaitsFor(Tasks) \o Return \o rest

timing_switch_overhead(rest) ==
  Times(Tasks, ForkElse(1, Exit, rest) \o Wait) \o Return \o rest

timing_io_bound(rest) ==
  Times(2, Starts(Tasks, Sleeps, rest) \o WaitsFor(Tasks)) \o Return \o rest

\* The children write to a pipe; the parent reads as often as there are children.
mixedIo  == <<CallOn("closePipe", 1), Call("sleep"), Call("writePipe"), CallOn("closePipe", 2)>> \o Exit
mixedCpu == <<CallOn("closePipe", 1), Call("writePipe"), CallOn("closePipe", 2)>> \o Exit
timing_mixed_load(rest) ==
  Pipe \o ForkElse(1, mixedIo, rest) \o ForkElse(2, mixedCpu, rest)
  \o <<CallOn("closePipe", 2)>> \o Times(2, ReadPipe \o Wait)
  \o <<CallOn("closePipe", 1)>> \o Return \o rest

\* "wait failed" ends the loop.
timing_process_creation(rest) ==
  Starts(Tasks, Nothing, rest) \o Times(Tasks, Waited("child", Return \o rest)) \o Return \o rest

timing_short_tasks(rest) ==
  Times(2, Starts(Tasks, Nothing, rest) \o WaitsFor(Tasks)) \o Return \o rest

timing_starvation_check(rest) ==
  ForkElse(0, Exit, rest) \o Starts(Tasks, Nothing, rest) \o WaitsFor(Tasks + 1) \o Return \o rest

-------------------------------------------------------------------------------
(* prioritytest.c: the same tests, with priorities, and with more care about failures in two *)
(* of them.                                                                                  *)

prio_cpu_heavy(rest)       == timing_cpu_heavy(rest)
prio_switch_overhead(rest) == timing_switch_overhead(rest)
prio_short_tasks(rest)     == timing_short_tasks(rest)

WaitAll == <<Call("waitAll")>>
Lifted(i) == <<Call("setpriority"), Call("sleep")>> \o Exit

prio_io_bound(rest) ==
  Starts(Tasks, Lifted, WaitAll \o rest) \o Times(Tasks, Waited("child", Return \o rest))
  \o Return \o rest

prioIo  == <<CallOn("closePipe", 1), Call("setpriority"), Call("sleep"), Call("writePipe"),
             CallOn("closePipe", 2)>> \o Exit
prioCpu == <<CallOn("closePipe", 1), Call("setpriority"), Call("writePipe"),
             CallOn("closePipe", 2)>> \o Exit
prio_mixed_load(rest) ==
  Pipe \o ForkElse(1, prioIo, rest) \o ForkElse(2, prioCpu, rest)
  \o <<CallOn("closePipe", 2)>> \o Times(2, ReadPipe \o Wait)
  \o <<CallOn("closePipe", 1)>> \o Return \o rest

prio_process_creation(rest) == Starts(Tasks, Nothing, rest) \o WaitAll \o Return \o rest

Heavy(i) == <<Call("setpriority")>> \o Exit
prio_starvation_check(rest) ==
  ForkElse(0, Heavy(0), rest) \o Starts(Tasks, Heavy, rest) \o WaitsFor(Tasks + 1) \o Return \o rest

-------------------------------------------------------------------------------
(* usertests.c, and the programs with a file of their own *)

\* The writer of pipe1() fills the pipe more than once; the reader reads to the end.
pipe1 ==
  Pipe
  \o ForkElse(0, <<CallOn("closePipe", 1)>> \o Times(PIPESIZE + 1, <<Call("writePipe")>>) \o Exit, Exit)
  \o <<CallOn("closePipe", 2), Call("readAll"), CallOn("closePipe", 1)>> \o Wait \o Return \o Exit

\* Children that never end are killed.
Forever == <<Call("spin")>>
Kills(n) == [i \in 1 .. n |-> CallOn("kill", i)]
preempt ==
  Fork(1, Forever) \o Fork(2, Forever) \o Pipe
  \o Fork(3, <<CallOn("closePipe", 1), Call("writePipe"), CallOn("closePipe", 2)>> \o Forever)
  \o <<CallOn("closePipe", 2)>> \o ReadOr(Exit) \o <<CallOn("closePipe", 1)>>
  \o Kills(3) \o Times(3, Wait) \o Return \o Exit

exitwait == Times(3, ForkElse(0, Exit, Exit) \o Waited("last", Exit)) \o Return \o Exit

\* The table gets full, and every child is waited for once.
ForkUntil[n \in 0 .. NPROC] ==
  LET waits == Times(n, Waited("child", Exit)) \o Waited("none", Exit) \o Return \o Exit IN
  IF n = NPROC THEN Exit ELSE ForkUnless(n, Exit, waits) \o ForkUntil[n + 1]
forktest == ForkUntil[0]

\* The children write that they have grown, and sleep until they are killed; only those that
\* have been started are read from and killed.
sbrktestEnds[i \in 1 .. 3, started \in SUBSET (1 .. 2)] ==
  IF i = 3 THEN Each(2, [j \in 1 .. 2 |->
                  IF j \in started THEN <<CallOn("kill", j)>> \o Wait ELSE <<>>]) \o Exit
  ELSE ForkUnless(i, <<Call("writePipe")>> \o Forever, sbrktestEnds[i + 1, started])
       \o ReadPipe \o sbrktestEnds[i + 1, started \cup {i}]
sbrktestEnd == Pipe \o sbrktestEnds[1, {}]

\* kill() comes before, while or after the child makes its call.
validatetest ==
  Times(2, Fork(1, <<Call("sleep")>> \o Exit) \o <<Call("sleep"), CallOn("kill", 1)>> \o Wait)
  \o Return \o Exit

\* A chain of processes, each of which writes and reads a file; who cannot fork tries again
\* as the next one.
stressfsBody ==
  <<CallOn("open", "file"), CallOn("write", 3), CallOn("close", 3),
    CallOn("open", "file"), CallOn("read", 3), CallOn("close", 3)>> \o Wait \o Exit
stressfs[i \in 0 .. 3] ==
  IF i = 3 THEN stressfsBody ELSE ForkElse(i, stressfs[i + 1], stressfs[i + 1]) \o stressfsBody

zombie == ForkElse(0, Exit, Exit) \o <<Call("sleep")>> \o Exit

-------------------------------------------------------------------------------
(* The shell. *)

\* A command is a record with a type: "EXEC" names a program and what that does ("cat" reads its
\* input to the end and writes, "echo" writes, "missing" is not there); "REDIR" has cmd, file and
\* fd, "LIST" and "PIPE" left and right, "BACK" cmd; "EMPTY" and "CD" have nothing else.
NoCmd == [type |-> "NONE"]

\* The calls of a command's program.
Program(cmd) ==
  CASE cmd.does = "cat"     -> <<CallOn("readEnd", 0), CallOn("write", 1)>> \o Exit
    [] cmd.does = "echo"    -> <<CallOn("write", 1), CallOn("write", 1)>> \o Exit
    [] cmd.does = "true"    -> Exit
    [] cmd.does = "missing" -> <<>>

NoFile == "nofile" \* a file that cannot be opened

\* fork1() ends the shell on a failure.
fork1(child) == ForkElse(0, child, Exit)

\* The child of a pipe takes its end for descriptor fd, and closes both.
Joins(fd, end) ==
  <<CallOn("close", fd), CallOn("dup", end), CallOn("closePipe", 1), CallOn("closePipe", 2)>>

Redirect(cmd) == <<CallOn("close", cmd.fd), CallOn("open", cmd.file)>>

\* The shell keeps the end that it could write to.
ParentCloses_readEnd == <<CallOn("closePipe", 1)>>

ParentCloses == <<CallOn("closePipe", 1), CallOn("closePipe", 2)>>

PipeWaits == Wait \o Wait

RECURSIVE runcmd(_)
runcmd(cmd) ==
  CASE cmd.type = "EMPTY" -> Exit
    [] cmd.type = "EXEC"  -> <<CallOn("exec", cmd)>> \o Exit
    [] cmd.type = "REDIR" -> IF cmd.file = NoFile THEN <<CallOn("close", cmd.fd)>> \o Exit
                             ELSE Redirect(cmd) \o runcmd(cmd.cmd)
    [] cmd.type = "LIST"  -> fork1(runcmd(cmd.left)) \o Wait \o runcmd(cmd.right)
    [] cmd.type = "PIPE"  -> <<CallOn("pipe", cmd)>>
                             \o fork1(Joins(1, 2) \o runcmd(cmd.left))
                             \o fork1(Joins(0, 1) \o runcmd(cmd.right))
                             \o ParentCloses \o PipeWaits \o Exit
    [] cmd.type = "BACK"  -> fork1(runcmd(cmd.cmd)) \o Exit

\* The shell opens its descriptors and runs line after line; behind the last one it ends.
Prompt(n) == <<CallOn("prompt", n)>>
RunsLine(n, cmd) ==
  Prompt(n) \o (IF cmd.type = "CD" THEN <<Call("cd")>> ELSE fork1(runcmd(cmd)) \o Wait)
sh(lines) ==
  <<CallOn("open", "console"), CallOn("close", 3)>>
  \o Each(Len(lines), [n \in 1 .. Len(lines) |-> RunsLine(n, lines[n])])
  \o Prompt(Len(lines) + 1) \o Exit

\* exec() in a child of the shell.
sh_exec(s) == At(s, "exec") /\ exec(s, Program(NextCall(s).arg))

-------------------------------------------------------------------------------
(* What a line means. *)

RECURSIVE Commands(_), InFront(_)

\* The commands in a line, and those that the prompt waits for.
Commands(cmd) ==
  CASE cmd.type \in {"EMPTY", "CD"} -> {}
    [] cmd.type = "EXEC" -> {cmd}
    [] cmd.type \in {"REDIR", "BACK"} -> Commands(cmd.cmd)
    [] cmd.type \in {"LIST", "PIPE"} -> Commands(cmd.left) \cup Commands(cmd.right)

InFront(cmd) ==
  CASE cmd.type \in {"EMPTY", "CD", "BACK"} -> {}
    [] cmd.type = "EXEC" -> {cmd}
    [] cmd.type = "REDIR" -> InFront(cmd.cmd)
    [] cmd.type \in {"LIST", "PIPE"} -> InFront(cmd.left) \cup InFront(cmd.right)

\* What c finds at descriptor d, if the line around cmd gives it outer: the innermost redirection
\* and the innermost pipe decide.
RECURSIVE Given(_, _, _, _)
Given(cmd, c, d, outer) ==
  CASE cmd.type = "EXEC" -> outer
    [] cmd.type = "BACK" -> Given(cmd.cmd, c, d, outer)
    [] cmd.type = "REDIR" -> Given(cmd.cmd, c, d, IF d = cmd.fd THEN [kind |-> cmd.file, of |-> NoCmd] ELSE outer)
    [] cmd.type \in {"LIST", "PIPE"} /\ c \in Commands(cmd.left) ->
         Given(cmd.left, c, d, IF cmd.type = "PIPE" /\ d = 1 THEN [kind |-> "write", of |-> cmd] ELSE outer)
    [] cmd.type \in {"LIST", "PIPE"} /\ c \in Commands(cmd.right) ->
         Given(cmd.right, c, d, IF cmd.type = "PIPE" /\ d = 0 THEN [kind |-> "read", of |-> cmd] ELSE outer)

\* The commands of a line that have to be over before c starts: those on the left of a ";".
RECURSIVE Before(_, _)
Before(cmd, c) ==
  CASE c \notin Commands(cmd) \/ cmd.type = "EXEC" -> {}
    [] cmd.type \in {"REDIR", "BACK"} -> Before(cmd.cmd, c)
    [] cmd.type \in {"LIST", "PIPE"} ->
         Before(cmd.left, c) \cup Before(cmd.right, c)
         \cup (IF cmd.type = "LIST" /\ c \in Commands(cmd.right) THEN InFront(cmd.left) ELSE {})

\* What a process will still execute.
RECURSIVE Plans(_)
Plans(code) ==
  UNION {CASE code[i].op = "exec" -> {code[i].arg.name}
           [] code[i].op = "fork" -> Plans(code[i].child)
           [] OTHER -> {} : i \in DOMAIN code}

\* No process runs a command of cmds or has yet to, but for s.
Over(cmds, s) ==
  \A t \in Slots \ {s} : table[t].state = "live" =>
    \A c \in cmds : c.name \notin {table[t].name} \cup Plans(table[t].code)

\* The descriptor d of a process, by the command that has made the pipe.
FileAt(s, d) ==
  LET x == table[s].fds[d]
  IN [kind |-> x.kind, of |-> IF x.kind \in {"read", "write"} THEN pipes[x.of].of ELSE NoCmd]

\* A command starts with the files that its line gives it in 0, 1 and 2, and with no others: an end
\* of a pipe that stays open would keep the reader at the other one from ever seeing the end.
CommandsGetTheirFiles(lines) ==
  \A s \in Slots : At(s, "exec") =>
    \E n \in DOMAIN lines :
      /\ NextCall(s).arg \in Commands(lines[n])
      /\ \A d \in FDs : FileAt(s, d) =
           IF d > 2 THEN [kind |-> "none", of |-> NoCmd]
           ELSE Given(lines[n], NextCall(s).arg, d, [kind |-> "console", of |-> NoCmd])

\* Commands run in the order of the line, and the prompt comes when those without "&" are over.
\* The shell that cannot fork gives the rest up, and what it has started goes on.
CommandsRunInOrder(lines) ==
  "fork" \notin said =>
    \A s \in Slots :
      /\ At(s, "exec") => \A n \in DOMAIN lines : Over(Before(lines[n], NextCall(s).arg), s)
      /\ At(s, "prompt") => \A n \in 1 .. NextCall(s).arg - 1 : Over(InFront(lines[n]), s)

-------------------------------------------------------------------------------
(* init *)

LotteryNames == {"low", "fairness", "switch", "starvation", "grouped", "mixed"}
LotteryTests ==
  [low |-> run_low_process_test, fairness |-> run_basic_fairness_test, switch |-> run_switch_test,
   starvation |-> run_starvation_test, grouped |-> run_grouped_ticket_test,
   mixed |-> run_mixed_workload_test]
TimingTests ==
  [cpu_heavy |-> timing_cpu_heavy(timing_cpu_heavy(Exit)),
   switch_overhead |-> timing_switch_overhead(timing_switch_overhead(Exit)),
   io_bound |-> timing_io_bound(timing_io_bound(Exit)),
   mixed_load |-> timing_mixed_load(timing_mixed_load(Exit)),
   process_creation |-> timing_process_creation(timing_process_creation(Exit)),
   short_tasks |-> timing_short_tasks(timing_short_tasks(Exit)),
   starvation_check |-> timing_starvation_check(timing_starvation_check(Exit))]
PrioTests ==
  [prio_cpu_heavy |-> prio_cpu_heavy(prio_cpu_heavy(Exit)),
   prio_switch_overhead |-> prio_switch_overhead(prio_switch_overhead(Exit)),
   prio_short_tasks |-> prio_short_tasks(prio_short_tasks(Exit)),
   prio_io_bound |-> prio_io_bound(prio_io_bound(Exit)),
   prio_mixed_load |-> prio_mixed_load(prio_mixed_load(Exit)),
   prio_process_creation |-> prio_process_creation(prio_process_creation(Exit)),
   prio_starvation_check |-> prio_starvation_check(prio_starvation_check(Exit))]
OtherTests ==
  [pipe1 |-> pipe1, preempt |-> preempt, exitwait |-> exitwait, forktest |-> forktest,
   sbrktest |-> sbrktestEnd, validatetest |-> validatetest, stressfs |-> stressfs[0],
   zombie |-> zombie]

Code(name, lines) ==
  CASE name = "sh" -> sh(lines)
    [] name \in DOMAIN LotteryTests -> LotteryRuns(LotteryTests[name])
    [] name \in DOMAIN TimingTests  -> TimingTests[name]
    [] name \in DOMAIN PrioTests    -> PrioTests[name]
    [] name \in DOMAIN OtherTests   -> OtherTests[name]

\* wait() until the child that init has started is back; others are zombies of nobody.
init(code) == Fork(0, code) \o <<[op |-> "waitFor", arg |-> 0]>>

Init ==
  \E run \in Runs, lines \in Scripts :
    /\ (run[2] # "sh" => lines = <<>>)
    /\ program = run[2] /\ script = lines
    /\ KernelInit(init(Code(run[2], lines)), run[1])

Next == (\E s \in Slots : Calls(s) \/ sh_exec(s)) /\ UNCHANGED <<program, script>>
Spec == Init /\ [][Next]_vars

-------------------------------------------------------------------------------
(* Properties *)

TypeOK == KernelTypeOK /\ kernel \in {"lottery", "priority", "rr"}

\* Nobody waits for a process or a byte that cannot come: as long as init has not got its child
\* back some process has a step to take.
ProgramsEnd ==
  table[1].code = <<>> \/ \E s \in Slots : table[s].state = "live" /\ ~Stands(s)

main == 2

\* A test that has not complained leaves no process and no descriptor behind: what it leaves is in
\* the way of the next one.
TestsCleanUp ==
  (At(main, "return") /\ said = {}) =>
    /\ Offspring(main) = {}
    /\ \A d \in FDs : table[main].fds[d] = IF d < 3 THEN Console ELSE Nowhere

\* getpinfo() comes while all the processes of the test are in the table, and each counts once and
\* for the group whose tickets it has got.
EveryChildIsCounted ==
  (At(main, "wait") /\ program \in LotteryNames) =>
    \A i \in DOMAIN table[main].kids :
      LET pid == table[main].kids[i]
          counts == {c \in counted : c[2] = pid}
      IN pid # -1 =>
           /\ Cardinality(counts) = 1
           /\ \A c \in counts : (table[c[1]].pid = pid /\ table[c[1]].state = "zombie")
                                  => table[c[1]].tickets = c[3]

\* A command starts with the files that its line gives it, and with no others.
FilesAsWritten == program = "sh" => CommandsGetTheirFiles(script)

\* Commands run in the order of the line, and the prompt comes last.
InOrderOfLine == program = "sh" => CommandsRunInOrder(script)

\* A program with all its processes comes to its end, leaves nothing behind, and counts its
\* children once; a line of the shell runs in its order, every command with its own files.
ProgramsWork ==
  /\ TypeOK /\ ProgramsEnd /\ ChildlessWaitReturns /\ TestsCleanUp /\ EveryChildIsCounted
  /\ FilesAsWritten /\ InOrderOfLine

-------------------------------------------------------------------------------
(* forktest alone, on the round-robin kernel. *)

MCForktest == {<<"rr", "forktest">>}
MCNoScript == {<<>>}
===============================================================================
