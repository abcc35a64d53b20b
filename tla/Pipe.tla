--------------------------------- MODULE Pipe ---------------------------------
(***************************************************************************)
(* Pipes (pipe.c), the table of open files (file.c) and the descriptors of *)
(* processes (sysfile.c), the same in the three kernels.                   *)
(*                                                                         *)
(* A critical section of ftable.lock or of a pipe's lock is one action,    *)
(* with one exception: kill() takes neither, so a process that tests       *)
(* p->killed and then sleeps does so in two actions, the lock held between *)
(* them.  fork() copies descriptors in one action: its parent's references *)
(* keep the files alive.                                                   *)
(***************************************************************************)
EXTENDS Integers, Sequences, SequencesExt, FiniteSets, FiniteSetsExt

CONSTANTS Procs,
          NFILE,    \* entries of the file table (param.h: 100)
          NOFILE,   \* descriptors of a process (param.h: 16)
          Pipes,    \* pages that kalloc() may return for a pipe
          PIPESIZE, \* bytes in a pipe (512)
          WORD,     \* the counters of a pipe count modulo WORD (2^32)
          Byte, Nobody

ASSUME PipeAssumption ==
  /\ NFILE \in Nat \ {0} /\ NOFILE \in Nat \ {0}
  /\ PIPESIZE \in Nat \ {0} /\ WORD \in Nat /\ WORD % PIPESIZE = 0 /\ WORD > PIPESIZE
  /\ Nobody \notin Procs /\ Byte # {} /\ IsFiniteSet(Procs)

Files  == 1 .. NFILE
FDs    == 0 .. NOFILE - 1
NoFile == 0
NoPipe == [type |-> "none"]
End(q, w) == [type |-> "pipe", pipe |-> q, writable |-> w]
Ends   == {End(q, w) : q \in Pipes, w \in BOOLEAN}
Device == [type |-> "device"]

Points == {"unborn", "run", "write", "writeTested", "writeSleeps", "read", "readTested",
           "readSleeps", "descriptors", "close", "pipeclose", "dead"}

VARIABLES
  pipe,    \* struct pipe: data, nread, nwrite, readopen, writeopen; live until kfree()
  plock,   \* who holds its lock from one action to the next
  ref,     \* f->ref
  file,    \* the rest of struct file
  ofile,   \* p->ofile
  pc,      \* where each process is
  arg,     \* its call: the pipe, the bytes to write or the number to read
  got,     \* the bytes that its last read returned
  result,  \* what its last call returned
  closing, \* files that fileclose() is still to be called for
  exiting, \* in exit()
  killed   \* p->killed

callVars == <<pc, arg, got, result, closing, exiting>>
pipeVars == <<pipe, plock, ref, file, ofile, callVars, killed>>

NoCall == [pipe |-> NoPipe, todo |-> <<>>, n |-> 0, done |-> 0]
Empty  == [live |-> FALSE, data |-> [i \in 0 .. PIPESIZE - 1 |-> CHOOSE b \in Byte : TRUE],
           nread |-> 0, nwrite |-> 0, readopen |-> FALSE, writeopen |-> FALSE]

PipeTypeOK ==
  /\ pipe  \in [Pipes -> [live : BOOLEAN, data : [0 .. PIPESIZE - 1 -> Byte],
                         nread : 0 .. WORD - 1, nwrite : 0 .. WORD - 1,
                         readopen : BOOLEAN, writeopen : BOOLEAN]]
  /\ plock \in [Pipes -> Procs \cup {Nobody}]
  /\ ref   \in [Files -> Nat]
  /\ file  \in [Files -> {NoPipe, Device} \cup Ends]
  /\ ofile \in [Procs -> [FDs -> Files \cup {NoFile}]]
  /\ pc    \in [Procs -> Points]
  /\ arg   \in [Procs -> [pipe : Pipes \cup Ends \cup {NoPipe}, todo : Seq(Byte), n : Nat, done : Nat]]
  /\ got   \in [Procs -> Seq(Byte)] /\ result \in [Procs -> Int]
  /\ closing \in [Procs -> Seq(Files)] /\ \A p \in Procs : Len(closing[p]) <= 2
  /\ killed \in [Procs -> BOOLEAN] /\ exiting \in [Procs -> BOOLEAN]

\* File 1 is the console, open in the processes of first.
PipeInit(first, consoleFDs) ==
  /\ pipe  = [q \in Pipes |-> Empty]
  /\ plock = [q \in Pipes |-> Nobody]
  /\ ref   = [f \in Files |-> IF f = 1 THEN Cardinality(first) * Cardinality(consoleFDs) ELSE 0]
  /\ file  = [f \in Files |-> IF f = 1 THEN Device ELSE NoPipe]
  /\ ofile = [p \in Procs |-> [d \in FDs |-> IF p \in first /\ d \in consoleFDs THEN 1 ELSE NoFile]]
  /\ pc    = [p \in Procs |-> IF p \in first THEN "run" ELSE "unborn"]
  /\ arg   = [p \in Procs |-> NoCall]
  /\ got   = [p \in Procs |-> <<>>]
  /\ result = [p \in Procs |-> 0]
  /\ closing = [p \in Procs |-> <<>>]
  /\ exiting = [p \in Procs |-> FALSE] /\ killed = exiting

Live(p) == pc[p] \notin {"unborn", "dead"}

\* The process leaves its call with r.
Return(p, r) ==
  /\ pc' = [pc EXCEPT ![p] = "run"]
  /\ result' = [result EXCEPT ![p] = r]

\* Makes those who sleep at a point, for pipe q, go on at another.
Woken(next, q, from, to) ==
  [p \in Procs |-> IF pc[p] = from /\ arg[p].pipe = q THEN to ELSE next[p]]

WakeReaders(next, q) == Woken(next, q, "readSleeps", "read")
WakeWriters(next, q) == Woken(next, q, "writeSleeps", "write")

-------------------------------------------------------------------------------
(* Descriptors: sys_pipe(), sys_dup(), sys_close(), and those of fork() and exit() *)

FreeFiles  == {f \in Files : ref[f] = 0}
FreeFDs(p) == {d \in FDs : ofile[p][d] = NoFile}

\* pipealloc() has two files and a page.
pipealloc(p) ==
  /\ pc[p] = "run" /\ Cardinality(FreeFiles) >= 2
  /\ \E q \in Pipes :
       /\ ~pipe[q].live
       /\ LET rf == Min(FreeFiles)
              wf == Min(FreeFiles \ {rf})
          IN /\ ref'  = [ref EXCEPT ![rf] = 1, ![wf] = 1]
             /\ file' = [file EXCEPT ![rf] = End(q, FALSE), ![wf] = End(q, TRUE)]
             /\ closing' = [closing EXCEPT ![p] = <<rf, wf>>]
       /\ pipe' = [pipe EXCEPT ![q] = [Empty EXCEPT !.live = TRUE, !.readopen = TRUE,
                                                   !.writeopen = TRUE]]
  /\ pc' = [pc EXCEPT ![p] = "descriptors"]
  /\ UNCHANGED <<plock, ofile, arg, got, result, exiting, killed>>

\* It has not, or kalloc() fails: what it got it gives back.
pipeallocFails(p) ==
  /\ pc[p] = "run"
  /\ Return(p, -1)
  /\ UNCHANGED <<pipe, plock, ref, file, ofile, arg, got, closing, exiting, killed>>

\* The rest of sys_pipe(): without two descriptors both files are closed again.
pipeDescriptors(p) ==
  /\ pc[p] = "descriptors"
  /\ LET fd0 == Min(FreeFDs(p))
         fd1 == Min(FreeFDs(p) \ {fd0})
     IN IF Cardinality(FreeFDs(p)) >= 2
        THEN /\ ofile' = [ofile EXCEPT ![p][fd0] = closing[p][1], ![p][fd1] = closing[p][2]]
             /\ closing' = [closing EXCEPT ![p] = <<>>]
             /\ Return(p, 0)
        ELSE /\ pc' = [pc EXCEPT ![p] = "close"]
             /\ result' = [result EXCEPT ![p] = -1]
             /\ UNCHANGED <<ofile, closing>>
  /\ UNCHANGED <<pipe, plock, ref, file, arg, got, exiting, killed>>

\* sys_dup()
sys_dup(p, d) ==
  /\ pc[p] = "run"
  /\ IF ofile[p][d] = NoFile \/ FreeFDs(p) = {} THEN Return(p, -1) /\ UNCHANGED <<ref, ofile>>
     ELSE /\ ofile' = [ofile EXCEPT ![p][Min(FreeFDs(p))] = ofile[p][d]]
          /\ ref' = [ref EXCEPT ![ofile[p][d]] = @ + 1]
          /\ Return(p, Min(FreeFDs(p)))
  /\ UNCHANGED <<pipe, plock, file, arg, got, closing, exiting, killed>>

\* sys_close(), up to fileclose()
sys_close(p, d) ==
  /\ pc[p] = "run"
  /\ IF ofile[p][d] = NoFile THEN Return(p, -1) /\ UNCHANGED <<ofile, closing>>
     ELSE /\ ofile' = [ofile EXCEPT ![p][d] = NoFile]
          /\ closing' = [closing EXCEPT ![p] = <<ofile[p][d]>>]
          /\ pc' = [pc EXCEPT ![p] = "close"]
          /\ result' = [result EXCEPT ![p] = 0]
  /\ UNCHANGED <<pipe, plock, ref, file, arg, got, exiting, killed>>

\* filedup() for every open descriptor.
Dup(p) == [f \in Files |-> ref[f] + Cardinality({d \in FDs : ofile[p][d] = f})]

\* The descriptors of a new process.
fork(p, c) ==
  /\ pc[p] = "run" /\ pc[c] = "unborn"
  /\ ofile' = [ofile EXCEPT ![c] = ofile[p]]
  /\ ref' = Dup(p)
  /\ pc' = [pc EXCEPT ![c] = "run"]
  /\ UNCHANGED <<pipe, plock, file, arg, got, result, closing, exiting, killed>>

\* exit(), up to the loop that closes the descriptors.
exit(p) ==
  /\ pc[p] = "run"
  /\ exiting' = [exiting EXCEPT ![p] = TRUE]
  /\ pc' = [pc EXCEPT ![p] = "close"]
  /\ UNCHANGED <<pipe, plock, ref, file, ofile, arg, got, result, closing, killed>>

OpenFDs(p) == FDs \ FreeFDs(p)

\* There is no file left for fileclose(): the call returns, or exit() goes on with the lowest
\* descriptor that is open.
fileclosed(p) ==
  /\ pc[p] = "close" /\ closing[p] = <<>>
  /\ IF exiting[p] /\ OpenFDs(p) # {}
     THEN /\ closing' = [closing EXCEPT ![p] = <<ofile[p][Min(OpenFDs(p))]>>]
          /\ ofile' = [ofile EXCEPT ![p][Min(OpenFDs(p))] = NoFile]
          /\ UNCHANGED pc
     ELSE /\ pc' = [pc EXCEPT ![p] = IF exiting[p] THEN "dead" ELSE "run"]
          /\ UNCHANGED <<ofile, closing>>
  /\ UNCHANGED <<pipe, plock, ref, file, arg, got, result, exiting, killed>>

\* The file goes away with the first of its references.
LastReference_any(f) == TRUE

LastReference(f) == ref[f] = 1

\* fileclose(), its critical section.
fileclose(p) ==
  /\ pc[p] = "close" /\ closing[p] # <<>>
  /\ LET f == closing[p][1] IN
     /\ ref' = [ref EXCEPT ![f] = @ - 1]
     /\ closing' = [closing EXCEPT ![p] = Tail(@)]
     /\ file' = IF LastReference(f) THEN [file EXCEPT ![f] = NoPipe] ELSE file
     /\ IF LastReference(f) /\ file[f].type = "pipe"
        THEN /\ arg' = [arg EXCEPT ![p] = [NoCall EXCEPT !.pipe = file[f]]]
             /\ pc' = [pc EXCEPT ![p] = "pipeclose"]
        ELSE UNCHANGED <<arg, pc>>
  /\ UNCHANGED <<pipe, plock, ofile, got, result, exiting, killed>>

ClosedWakes(q, w) == IF w THEN WakeReaders(pc, q) ELSE WakeWriters(pc, q)

\* pipeclose(); the page is freed with the second end.
pipeclose(p) ==
  LET q == arg[p].pipe.pipe
      w == arg[p].pipe.writable
      closed == IF w THEN [pipe[q] EXCEPT !.writeopen = FALSE]
                     ELSE [pipe[q] EXCEPT !.readopen = FALSE]
  IN /\ pc[p] = "pipeclose" /\ plock[q] = Nobody
     /\ pipe' = [pipe EXCEPT ![q] =
                   [closed EXCEPT !.live = closed.readopen \/ closed.writeopen]]
     /\ pc'  = [ClosedWakes(q, w) EXCEPT ![p] = "close"]
     /\ arg' = [arg EXCEPT ![p] = NoCall]
     /\ UNCHANGED <<plock, ref, file, ofile, got, result, closing, exiting, killed>>

-------------------------------------------------------------------------------
(* Reading and writing a pipe *)

File(p, d) == IF ofile[p][d] = NoFile THEN NoPipe ELSE file[ofile[p][d]]

\* sys_write() of bytes s to a pipe, up to acquire(&p->lock).
sys_write(p, d, s) ==
  /\ pc[p] = "run"
  /\ IF File(p, d).type # "pipe" \/ ~File(p, d).writable THEN Return(p, -1) /\ UNCHANGED arg
     ELSE /\ arg' = [arg EXCEPT ![p] = [pipe |-> File(p, d).pipe, todo |-> s, n |-> Len(s), done |-> 0]]
          /\ pc' = [pc EXCEPT ![p] = "write"]
          /\ UNCHANGED result
  /\ UNCHANGED <<pipe, plock, ref, file, ofile, got, closing, exiting, killed>>

\* sys_read() of n bytes from a pipe, up to acquire(&p->lock).
sys_read(p, d, n) ==
  /\ pc[p] = "run"
  /\ got' = [got EXCEPT ![p] = <<>>]
  /\ IF File(p, d).type # "pipe" \/ File(p, d).writable THEN Return(p, -1) /\ UNCHANGED arg
     ELSE /\ arg' = [arg EXCEPT ![p] = [pipe |-> File(p, d).pipe, todo |-> <<>>, n |-> n, done |-> 0]]
          /\ pc' = [pc EXCEPT ![p] = "read"]
          /\ UNCHANGED result
  /\ UNCHANGED <<pipe, plock, ref, file, ofile, closing, exiting, killed>>

Count(q) == (pipe[q].nwrite - pipe[q].nread + WORD) % WORD
\* The bytes in the pipe, the oldest first.
Queue(q) == [i \in 1 .. Count(q) |-> pipe[q].data[(pipe[q].nread + i - 1) % PIPESIZE]]

Room(q) == PIPESIZE - Count(q)

\* k bytes of s enter the ring.
Filled(q, s, k) ==
  [pipe[q] EXCEPT !.nwrite = (@ + k) % WORD,
     !.data = [j \in 0 .. PIPESIZE - 1 |->
                 LET i == ((j - pipe[q].nwrite + WORD) % PIPESIZE) + 1
                 IN IF i <= k THEN s[i] ELSE @[j]]]

\* The loop of pipewrite() as far as the room goes; then it returns, fails, or is about to sleep.
pipewrite(p) ==
  LET q == arg[p].pipe
      k == Min({Room(q), Len(arg[p].todo)})
  IN /\ pc[p] = "write" /\ plock[q] = Nobody
     /\ pipe' = [pipe EXCEPT ![q] = Filled(q, arg[p].todo, k)]
     /\ arg'  = [arg EXCEPT ![p].todo = SubSeq(@, k + 1, Len(@)), ![p].done = @ + k]
     /\ IF k = Len(arg[p].todo)
        THEN /\ pc' = [WakeReaders(pc, q) EXCEPT ![p] = "run"]
             /\ result' = [result EXCEPT ![p] = arg[p].n]
             /\ UNCHANGED plock
        ELSE IF ~pipe[q].readopen \/ killed[p] THEN Return(p, -1) /\ UNCHANGED plock
        ELSE /\ pc' = [WakeReaders(pc, q) EXCEPT ![p] = "writeTested"]
             /\ plock' = [plock EXCEPT ![q] = p]
             /\ UNCHANGED result
     /\ UNCHANGED <<ref, file, ofile, got, closing, exiting, killed>>

\* The writers are not told that there is room.
ReadWakes_nobody(q) == pc

ReadWakes(q) == WakeWriters(pc, q)

\* piperead(): what there is, or nothing at the end of the stream, or it is about to sleep.
piperead(p) ==
  LET q == arg[p].pipe
      k == Min({Count(q), arg[p].n})
  IN /\ pc[p] = "read" /\ plock[q] = Nobody
     /\ IF Count(q) > 0 \/ ~pipe[q].writeopen
        THEN /\ got'  = [got EXCEPT ![p] = SubSeq(Queue(q), 1, k)]
             /\ pipe' = [pipe EXCEPT ![q].nread = (@ + k) % WORD]
             /\ pc'   = [ReadWakes(q) EXCEPT ![p] = "run"]
             /\ result' = [result EXCEPT ![p] = k]
             /\ UNCHANGED plock
        ELSE IF killed[p] THEN Return(p, -1) /\ UNCHANGED <<pipe, plock, got>>
        ELSE /\ pc' = [pc EXCEPT ![p] = "readTested"]
             /\ plock' = [plock EXCEPT ![q] = p]
             /\ UNCHANGED <<pipe, got, result>>
     /\ UNCHANGED <<ref, file, ofile, arg, closing, exiting, killed>>

\* sleep(&p->nwrite, &p->lock) and sleep(&p->nread, &p->lock)
sleep(p) ==
  /\ pc[p] \in {"writeTested", "readTested"}
  /\ pc' = [pc EXCEPT ![p] = IF @ = "writeTested" THEN "writeSleeps" ELSE "readSleeps"]
  /\ plock' = [plock EXCEPT ![arg[p].pipe] = Nobody]
  /\ UNCHANGED <<pipe, ref, file, ofile, arg, got, result, closing, exiting, killed>>

\* kill(): a sleeper runs again.
kill(p) ==
  /\ Live(p)
  /\ killed' = [killed EXCEPT ![p] = TRUE]
  /\ pc' = [pc EXCEPT ![p] = CASE @ = "writeSleeps" -> "write" [] @ = "readSleeps" -> "read"
                               [] OTHER -> @]
  /\ UNCHANGED <<pipe, plock, ref, file, ofile, arg, got, result, closing, exiting>>

PipeContinues(p) ==
  pipeDescriptors(p) \/ fileclose(p) \/ fileclosed(p) \/ pipeclose(p) \/ pipewrite(p) \/ piperead(p) \/ sleep(p)

-------------------------------------------------------------------------------
(* Properties. *)

Holders(f)    == {x \in Procs \X FDs : ofile[x[1]][x[2]] = f}
Closers(f, i) == {p \in Procs : Len(closing[p]) >= i /\ closing[p][i] = f}
References(f) == Cardinality(Holders(f)) + Cardinality(Closers(f, 1)) + Cardinality(Closers(f, 2))

\* A file counts exactly the descriptors that name it and the calls that are about to close
\* it: neither a failed pipe() nor fork(), dup() and exit() in any order leak or lose one.
RefIsExact == \A f \in Files : ref[f] = References(f)

\* An end of a pipe is open exactly as long as a file refers to it or is being closed, and the
\* page is freed with the second end: no call works on a page that was freed, and no
\* descriptor names a file that was closed.
PipeMatchesFiles ==
  /\ \A q \in Pipes, w \in BOOLEAN :
       (IF w THEN pipe[q].writeopen ELSE pipe[q].readopen) <=>
         \/ \E f \in Files : ref[f] > 0 /\ file[f] = End(q, w)
         \/ \E p \in Procs : pc[p] = "pipeclose" /\ arg[p].pipe = End(q, w)
  /\ \A q \in Pipes : pipe[q].live <=> pipe[q].readopen \/ pipe[q].writeopen
  /\ \A p \in Procs, d \in FDs : ofile[p][d] # NoFile => File(p, d) # NoPipe

\* Nobody sleeps on a pipe who could go on: a reader sleeps only while the pipe is empty and
\* can still be written, a writer while it is full and can still be read.  A writer that is
\* killed when it has filled the pipe returns without waking the readers.
NobodyOversleeps ==
  \A p \in Procs :
    LET q == arg[p].pipe IN
    /\ pc[p] = "readSleeps"  => /\ Count(q) = 0 \/ \E x \in Procs : killed[x]
                                /\ pipe[q].writeopen
    /\ pc[p] = "writeSleeps" => Room(q) = 0 /\ pipe[q].readopen

-------------------------------------------------------------------------------
(* The inductive invariant behind them. *)

Writing == {"write", "writeTested", "writeSleeps"}
Reading == {"read", "readTested", "readSleeps"}

\* Between the test and the sleep a process holds the lock of the pipe.
LockHeldToSleep ==
  \A p \in Procs, q \in Pipes :
    plock[q] = p <=> pc[p] \in {"writeTested", "readTested"} /\ arg[p].pipe = q

\* A call on a pipe has a descriptor for its end.
CallsHaveFiles ==
  \A p \in Procs :
    /\ pc[p] \in Writing => /\ arg[p].pipe \in Pipes
                            /\ \E d \in FDs : File(p, d) = End(arg[p].pipe, TRUE)
    /\ pc[p] \in Reading => /\ arg[p].pipe \in Pipes
                            /\ \E d \in FDs : File(p, d) = End(arg[p].pipe, FALSE)
    /\ pc[p] = "pipeclose" => arg[p].pipe \in Ends

\* Files to close are those of a call that closes, or of pipe() before it has descriptors.
ClosingMatchesCalls ==
  \A p \in Procs :
    /\ pc[p] \notin {"descriptors", "close", "pipeclose"} => closing[p] = <<>>
    /\ pc[p] = "descriptors" => Len(closing[p]) = 2
    /\ pc[p] = "unborn" => OpenFDs(p) = {}

Closes(p, x) == pc[p] = "pipeclose" /\ arg[p].pipe = x
IsOpen(x) == IF x.writable THEN pipe[x.pipe].writeopen ELSE pipe[x.pipe].readopen

\* An end that is open has one file, or one process that is closing it.
EndsHaveOneFile ==
  /\ \A f \in Files : ref[f] = 0 <=> file[f] = NoPipe
  /\ \A x \in Ends : IsOpen(x) <=> (\E f \in Files : file[f] = x) \/ (\E p \in Procs : Closes(p, x))
  /\ \A f, g \in Files : file[f] \in Ends /\ file[f] = file[g] => f = g
  /\ \A x \in Ends, p \in Procs : Closes(p, x) =>
       /\ \A f \in Files : file[f] # x
       /\ \A o \in Procs : Closes(o, x) => o = p
  /\ \A q \in Pipes : pipe[q].live <=> pipe[q].readopen \/ pipe[q].writeopen

\* Who is about to sleep has as much reason to as who sleeps.
SleepersWait ==
  \A p \in Procs :
    LET q == arg[p].pipe IN
    /\ pc[p] \in {"readTested", "readSleeps"} => /\ Count(q) = 0 \/ \E x \in Procs : killed[x]
                                                 /\ pipe[q].writeopen
    /\ pc[p] \in {"writeTested", "writeSleeps"} => Room(q) = 0 /\ pipe[q].readopen

PipeInv ==
  /\ PipeTypeOK /\ LockHeldToSleep /\ CallsHaveFiles /\ ClosingMatchesCalls
  /\ RefIsExact /\ EndsHaveOneFile /\ SleepersWait
  /\ \A q \in Pipes : Count(q) <= PIPESIZE
===============================================================================
