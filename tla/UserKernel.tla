------------------------------ MODULE UserKernel ------------------------------
(***************************************************************************)
(* The kernel as a user program sees it: fork, exit, wait, kill, exec,     *)
(* pipe, dup, open, close, read, write and getpinfo, each in one action;   *)
(* what happens inside of them is the matter of the other modules.  A      *)
(* program is the sequence of the calls that it still makes.  What it      *)
(* computes between two calls, its output on the console and the time that *)
(* it sleeps are left out.                                                 *)
(*                                                                         *)
(* The three kernels differ in one point here: the wait() of the           *)
(* round-robin kernel frees a slot but leaves its parent pointer.          *)
(***************************************************************************)
EXTENDS Integers, Sequences, SequencesExt, FiniteSets, FiniteSetsExt

CONSTANTS NPROC,    \* slots of the process table; slot 1 is init
          NOFILE,   \* descriptors of a process
          PIPESIZE, \* writes that fit into a pipe
          MaxFailed \* calls of fork() that find no memory

Slots == 1 .. NPROC
FDs   == 0 .. NOFILE - 1
Nowhere == [kind |-> "none", of |-> 0]
Console == [kind |-> "console", of |-> 0]
Reads(k)  == [kind |-> "read", of |-> k]
Writes(k) == [kind |-> "write", of |-> k]
Opened(name) == [kind |-> name, of |-> 0]

VARIABLES
  kernel,  \* which of the kernels
  table,   \* the process table
  pipes,   \* how much is in each pipe, and by which command it was made
  nextpid,
  nfailed, \* calls of fork() that have failed
  said,    \* complaints that programs have printed
  counted  \* what getpinfo() has told: triples of a slot, a pid, and the tickets of the group it counts for

kernelVars == <<kernel, table, pipes, nextpid, nfailed, said, counted>>

NoProc == [state |-> "unused", pid |-> 0, parent |-> 0, killed |-> FALSE, tickets |-> 0,
           name |-> "none", code |-> <<>>, kids |-> <<>>, p |-> <<0, 0>>,
           fds |-> [d \in FDs |-> Nowhere]]

KernelTypeOK ==
  /\ \A s \in Slots : /\ table[s].state \in {"unused", "live", "zombie"}
                      /\ table[s].parent \in 0 .. NPROC /\ table[s].pid \in 0 .. nextpid - 1
                      /\ table[s].killed \in BOOLEAN /\ table[s].tickets \in Nat
  /\ \A k \in DOMAIN pipes : pipes[k].n \in 0 .. PIPESIZE
  /\ nextpid \in Nat /\ nfailed \in Nat

\* init runs code with the console as its three descriptors.
KernelInit(code, k) ==
  /\ kernel = k
  /\ table = [s \in Slots |-> IF s # 1 THEN NoProc
                              ELSE [NoProc EXCEPT !.state = "live", !.pid = 1, !.tickets = 1,
                                      !.name = "init", !.code = code,
                                      !.fds = [d \in FDs |-> IF d < 3 THEN Console ELSE Nowhere]]]
  /\ pipes = <<>> /\ nextpid = 2 /\ nfailed = 0
  /\ said = {} /\ counted = {}

-------------------------------------------------------------------------------
(* The calls, as a program writes them.  A result that the program does    *)
(* not expect makes it go on with other calls.                             *)

Call(op)       == [op |-> op]
CallOn(op, x)  == [op |-> op, arg |-> x]
Exit  == <<Call("exit")>>
Wait  == <<[op |-> "wait", want |-> "any", fail |-> <<>>]>>
Waited(want, fail) == <<[op |-> "wait", want |-> want, fail |-> fail]>>

\* f[1] \o ... \o f[n]
Each(n, f) == FlattenSeq([i \in 1 .. n |-> f[i]])
Times(n, calls) == Each(n, [i \in 1 .. n |-> calls])

\* pids[i] = fork(), and the calls of the child.  A failure is not looked at, or makes the program
\* complain and go on with fail, or is what it wants to see.
ForkCall(i, child, failure, fail) ==
  <<[op |-> "fork", at |-> i, child |-> child, failure |-> failure, fail |-> fail]>>
Fork(i, child)             == ForkCall(i, child, "ignored", <<>>)
ForkElse(i, child, fail)   == ForkCall(i, child, "reported", fail)
ForkUnless(i, child, fail) == ForkCall(i, child, "wanted", fail)

\* read(p[0]) of one byte, and what comes if there is none.
ReadOr(fail) == <<[op |-> "readPipe", checked |-> TRUE, fail |-> fail]>>
ReadPipe     == <<[op |-> "readPipe", checked |-> FALSE, fail |-> <<>>]>>
Pipe         == <<CallOn("pipe", 0)>>

NextCall(s) == Head(table[s].code)
At(s, op) == /\ table[s].state = "live" /\ ~table[s].killed
             /\ table[s].code # <<>> /\ NextCall(s).op = op

\* p is process s behind its call.
Advanced(p) == [p EXCEPT !.code = Tail(@)]
Goes(s, p) == table' = [table EXCEPT ![s] = p]

-------------------------------------------------------------------------------
(* Processes *)

Unused == {s \in Slots : table[s].state = "unused"}

\* The child is a copy of its parent: memory and descriptors.
Child(s, call) ==
  [table[s] EXCEPT !.pid = nextpid, !.parent = s, !.code = call.child]

ForkFailed(s, call) ==
  [table[s] EXCEPT !.code = IF call.failure = "ignored" THEN Tail(@) ELSE call.fail,
                     !.kids = call.at :> -1 @@ @]

Failed(call) == IF call.failure = "wanted" THEN said ELSE said \cup {"fork"}

\* fork() finds a slot and memory, no slot, or a slot and no memory: then the slot keeps the pid.
fork(s) ==
  /\ At(s, "fork")
  /\ LET call == NextCall(s) IN
     \/ /\ Unused # {}
        /\ table' = [table EXCEPT ![Min(Unused)] = Child(s, call),
                                  ![s] = [Advanced(@) EXCEPT !.kids = call.at :> nextpid @@ @]]
        /\ nextpid' = nextpid + 1
        /\ UNCHANGED <<nfailed, said>>
     \/ /\ Unused = {}
        /\ Goes(s, ForkFailed(s, call))
        /\ said' = Failed(call)
        /\ UNCHANGED <<nextpid, nfailed>>
     \/ /\ Unused # {} /\ nfailed < MaxFailed /\ s # 1
        /\ table' = [table EXCEPT ![Min(Unused)] = [NoProc EXCEPT !.pid = nextpid],
                                  ![s] = ForkFailed(s, call)]
        /\ nextpid' = nextpid + 1
        /\ nfailed' = nfailed + 1
        /\ said' = Failed(call)
  /\ UNCHANGED <<kernel, pipes, counted>>

\* init becomes the parent of the children.
exit(s) ==
  /\ At(s, "exit") \/ (table[s].state = "live" /\ table[s].killed)
  /\ table' = [t \in Slots |->
                 IF t = s THEN [NoProc EXCEPT !.state = "zombie", !.pid = table[s].pid,
                                  !.parent = table[s].parent, !.tickets = table[s].tickets]
                 ELSE IF table[t].parent = s THEN [table[t] EXCEPT !.parent = 1] ELSE table[t]]
  /\ UNCHANGED <<kernel, pipes, nextpid, nfailed, said, counted>>

\* What wait() leaves in the slot.
Reaped(z) == IF kernel = "rr" THEN [NoProc EXCEPT !.pid = table[z].pid, !.parent = table[z].parent]
             ELSE NoProc

\* The slots that wait() takes for children.
Children(s) == {t \in Slots : table[t].parent = s}
Zombies(s)  == {t \in Children(s) : table[t].state = "zombie"}

\* wait() returns pid, or -1; a program goes on if that is what it expects.
Expected(s, call, pid) ==
  CASE call.want = "any" -> TRUE
    [] call.want = "child" -> pid # -1
    [] call.want = "last" -> pid = table[s].kids[0]
    [] call.want = "none" -> pid = -1

Returned(s, call, pid) ==
  [table[s] EXCEPT !.code = IF call.op = "waitAll" THEN (IF pid = -1 THEN Tail(@) ELSE @)
                            ELSE IF call.op = "waitFor"
                            THEN (IF pid = -1 \/ pid = table[s].kids[call.arg] THEN Tail(@) ELSE @)
                            ELSE IF Expected(s, call, pid) THEN Tail(@) ELSE call.fail]

Waits(s) == \E op \in {"wait", "waitAll", "waitFor"} : At(s, op)

\* Once, until there are no children, or until a certain child.
wait(s) ==
  /\ Waits(s)
  /\ LET call == NextCall(s)
         pid  == IF Zombies(s) = {} THEN -1 ELSE table[Min(Zombies(s))].pid
     IN
     /\ Zombies(s) # {} \/ Children(s) = {}
     /\ table' = [t \in Slots |-> CASE t = s -> Returned(s, call, pid)
                                    [] Zombies(s) # {} /\ t = Min(Zombies(s)) -> Reaped(t)
                                    [] OTHER -> table[t]]
     /\ said' = IF call.op = "wait" /\ ~Expected(s, call, pid) THEN said \cup {"wait"} ELSE said
  /\ UNCHANGED <<kernel, pipes, nextpid, nfailed, counted>>

\* kill(pids[i]); the victim exits at its next trap.
kill(s) ==
  /\ At(s, "kill")
  /\ LET pid == table[s].kids[NextCall(s).arg]
         victims == {t \in Slots : table[t].pid = pid}
     IN table' = [t \in Slots |->
                    IF t = s THEN Advanced(table[t])
                    ELSE IF victims # {} /\ t = Min(victims) THEN [table[t] EXCEPT !.killed = TRUE]
                    ELSE table[t]]
  /\ UNCHANGED <<kernel, pipes, nextpid, nfailed, said, counted>>

\* exec() of a command, which makes calls of its own; it fails if there are none.
exec(s, calls) ==
  /\ At(s, "exec")
  /\ Goes(s, IF calls = <<>> THEN Advanced(table[s])
             ELSE [table[s] EXCEPT !.name = NextCall(s).arg.name, !.code = calls])
  /\ UNCHANGED <<kernel, pipes, nextpid, nfailed, said, counted>>

settickets(s) ==
  /\ At(s, "settickets")
  /\ Goes(s, [Advanced(table[s]) EXCEPT !.tickets = NextCall(s).arg])
  /\ UNCHANGED <<kernel, pipes, nextpid, nfailed, said, counted>>

\* A call without an effect that another one could see, and that returns at some time.
passes(s) ==
  /\ \E op \in {"yield", "sleep", "setpriority", "return", "prompt", "cd"} : At(s, op)
  /\ Goes(s, Advanced(table[s]))
  /\ UNCHANGED <<kernel, pipes, nextpid, nfailed, said, counted>>

\* getpinfo() copies the table; the program adds up the processes whose pid is in pids[] between
\* the bounds of a group.
getpinfo(s) ==
  /\ At(s, "getpinfo")
  /\ LET groups == NextCall(s).arg
         kids == table[s].kids
     IN counted' = {<<t, table[t].pid, groups[g].tickets>> :
                      <<t, g>> \in {<<t, g>> \in Slots \X DOMAIN groups :
                         \E i \in groups[g].from .. groups[g].to :
                           i \in DOMAIN kids /\ kids[i] = table[t].pid}}
  /\ Goes(s, Advanced(table[s]))
  /\ UNCHANGED <<kernel, pipes, nextpid, nfailed, said>>

-------------------------------------------------------------------------------
(* Descriptors *)

Free(p) == {d \in FDs : p.fds[d] = Nowhere}
With(p, d, x) == [p EXCEPT !.fds[d] = x]

\* The two lowest free descriptors, in p[0] and p[1].
pipe(s) ==
  /\ At(s, "pipe")
  /\ LET p == Advanced(table[s])
         k == Len(pipes) + 1
         r == Min(Free(p))
         w == Min(Free(p) \ {r})
     IN Goes(s, [With(With(p, r, Reads(k)), w, Writes(k)) EXCEPT !.p = <<r, w>>])
  /\ pipes' = Append(pipes, [n |-> 0, of |-> NextCall(s).arg])
  /\ UNCHANGED <<kernel, nextpid, nfailed, said, counted>>

\* close(fd), and close(p[0]) or close(p[1])
close(s) ==
  /\ At(s, "close") \/ At(s, "closePipe")
  /\ LET call == NextCall(s)
         d == IF call.op = "close" THEN call.arg ELSE table[s].p[call.arg]
     IN Goes(s, With(Advanced(table[s]), d, Nowhere))
  /\ UNCHANGED <<kernel, pipes, nextpid, nfailed, said, counted>>

\* dup(p[0]) or dup(p[1])
dup(s) ==
  /\ At(s, "dup")
  /\ LET p == Advanced(table[s]) IN Goes(s, With(p, Min(Free(p)), p.fds[p.p[NextCall(s).arg]]))
  /\ UNCHANGED <<kernel, pipes, nextpid, nfailed, said, counted>>

open(s) ==
  /\ At(s, "open")
  /\ LET p == Advanced(table[s]) IN Goes(s, With(p, Min(Free(p)), Opened(NextCall(s).arg)))
  /\ UNCHANGED <<kernel, pipes, nextpid, nfailed, said, counted>>

Holds(x) == \E s \in Slots, d \in FDs : table[s].fds[d] = x

\* The descriptor that a call reads or writes: a number, or one of the pipe's.
Subject(s) == IF NextCall(s).op \in {"readPipe", "readAll"} THEN table[s].fds[table[s].p[1]]
              ELSE IF NextCall(s).op = "writePipe" THEN table[s].fds[table[s].p[2]]
              ELSE table[s].fds[NextCall(s).arg]

ReadsNow(s)  == \E op \in {"read", "readEnd", "readPipe", "readAll"} : At(s, op)
WritesNow(s) == \E op \in {"write", "writePipe"} : At(s, op)

\* The end of the file comes when the last writer has closed its descriptor.
ReadWaits(s) ==
  LET x == Subject(s) IN x.kind = "read" /\ pipes[x.of].n = 0 /\ Holds(Writes(x.of))
WriteWaits(s) ==
  LET x == Subject(s) IN x.kind = "write" /\ pipes[x.of].n = PIPESIZE /\ Holds(Reads(x.of))

\* One read(), or as many as there are until the end; files have an end, too.
read(s) ==
  /\ ReadsNow(s)
  /\ ~ReadWaits(s)
  /\ LET x == Subject(s)
         got == x.kind = "read" /\ pipes[x.of].n > 0
         again == got /\ NextCall(s).op \in {"readEnd", "readAll"}
     IN /\ pipes' = IF got THEN [pipes EXCEPT ![x.of].n = @ - 1] ELSE pipes
        /\ Goes(s, IF again THEN table[s]
                   ELSE IF ~got /\ NextCall(s).op = "readPipe" /\ NextCall(s).checked
                   THEN [table[s] EXCEPT !.code = NextCall(s).fail]
                   ELSE Advanced(table[s]))
        /\ said' = IF NextCall(s).op = "readPipe" /\ ~got THEN said \cup {"read"} ELSE said
  /\ UNCHANGED <<kernel, nextpid, nfailed, counted>>

\* write() fails if nobody reads.
write(s) ==
  /\ WritesNow(s)
  /\ ~WriteWaits(s)
  /\ LET x == Subject(s)
         broken == x.kind = "write" /\ ~Holds(Reads(x.of))
     IN /\ pipes' = IF x.kind = "write" /\ ~broken THEN [pipes EXCEPT ![x.of].n = @ + 1] ELSE pipes
        /\ Goes(s, Advanced(table[s]))
        /\ said' = IF broken THEN said \cup {"write"} ELSE said
  /\ UNCHANGED <<kernel, nextpid, nfailed, counted>>

-------------------------------------------------------------------------------
\* exec() is a step of the module that knows the commands.
Calls(s) ==
  \/ fork(s) \/ exit(s) \/ wait(s) \/ kill(s) \/ settickets(s) \/ passes(s) \/ getpinfo(s)
  \/ pipe(s) \/ close(s) \/ dup(s) \/ open(s) \/ read(s) \/ write(s)

\* A process that waits for another one, or that counts for ever.
Stands(s) ==
  /\ table[s].state = "live" /\ ~table[s].killed
  /\ \/ table[s].code = <<>> \/ At(s, "spin")
     \/ Waits(s) /\ Zombies(s) = {} /\ Children(s) # {}
     \/ ReadsNow(s) /\ ReadWaits(s)
     \/ WritesNow(s) /\ WriteWaits(s)

\* The processes whose parent s is.
Offspring(s) == {t \in Slots : table[t].parent = s /\ table[t].state # "unused"}

\* wait() "return[s] -1 if this process has no children" (proc.c): nobody sleeps there who has none.
ChildlessWaitReturns == \A s \in Slots : Stands(s) /\ Waits(s) => Offspring(s) # {}
===============================================================================
