----------------------------- MODULE MC_SmallParts ----------------------------
(***************************************************************************)
(* Parts that share no state, side by side: the start of the CPUs, the     *)
(* image that mkfs makes, the blocks of files, the fetching of system call *)
(* arguments, path names, the string functions, the keyboard, the screen,  *)
(* messages of the kernel and the stack that exec() builds, and of the     *)
(* user programs malloc(), the parser of the shell, grep, functions on     *)
(* text, and the tests and the shell with all their processes.  A          *)
(* behaviour is one of them, by topic; the variables of the others stay as *)
(* they are.                                                               *)
(***************************************************************************)
EXTENDS Integers, Sequences

CONSTANTS NCPU, LOW, HIGH,                                            \* Boot
          Procs, Files, NoFileYet, NBLOCKS, BSIZE, BPB, NDIRECT,         \* FileBlocks
          NINDIRECT, MAXOPBLOCKS, Lengths, MaxImage, MaxCalls,
          parent, child, testfile,
          ARGWORD, KERNBASE, INT, MaxArg,                             \* SyscallArgs
          BYTES, INTWORD, Bases, DIRSIZ, MaxPath,                     \* Strings
          Keys, MaxWire, MaxHeld,                                     \* Keyboard
          TOP, CORE, MaxUnits,                                        \* UserHeap
          MaxLine, MAXARGS,                                           \* ShellParser
          BUF, MaxPattern, MaxShort, MaxText,                         \* Grep
          NPROC, NOFILE, PIPESIZE, MaxFailed, Runs, Scripts,          \* Programs
          ROWS, COLS, Letters, MaxTyped, MaxPut,                      \* ConsoleOutput
          Cpus, NoCpu, LEN, MaxMessages,
          PGSIZE, MAXARG, STACKWORD, ArgLengths,                      \* ExecStack
          DPB, nmeta, NBITS                                           \* MkImage

VARIABLES
  topic,
  bsp, pc, freelist, nextpage, use_lock, locked, r, then, other, stackword, started, stack,
  pages, ready, bootpanic,
  freeblock, inuse, data, entries, addrs, size, owner, desc, fd, off, left, n1, tot, logged,
  calls, panicked, job, blocktest, wrong,
  kind, k, sz, esp, value, bytes, nul, ret,
  path, s, name, walked,
  f, dst, src, n, xx, base, mem, res,
  shift, typed, held, down, caps, wire, wanted,
  next, units, freep, brk, blocks, foreign, nunits,
  line,
  pattern, source, text, rest, buf, out, dropped,
  kernel, table, pipes, nextpid, nfailed, said, counted, program, script,
  crt, pos, overflow, echoed, paper, at, nput,
  conslock, locking, frozen, cpc, mine, dying, charsleft, console, nmessages,
  argv, argc, sp, ustack, stackmem, done,
  fn, string, max, result,
  cmdline, copied, inum, image, bitmap, mkpc

UpTo(most, S) == UNION {[1 .. l -> S] : l \in 0 .. most}

Start  == INSTANCE Boot WITH next <- nextpage, held <- pages, panicked <- bootpanic
Disk   == INSTANCE FileBlocks WITH test <- blocktest, NoFile <- NoFileYet
Args   == INSTANCE SyscallArgs WITH WORD <- ARGWORD, size <- bytes
Str    == INSTANCE Strings WITH WORD <- INTWORD, Paths <- UpTo(MaxPath, {"a", "b", "/"})
Kbd    == INSTANCE Keyboard
Heap   == INSTANCE UserHeap WITH size <- units, held <- blocks
Parser == INSTANCE ShellParser
Search == INSTANCE Grep WITH
            Patterns    <- UpTo(MaxPattern, {"a", ".", "*", "^", "$"}),
            ShortTexts  <- UpTo(MaxShort, {"a", "b"}),
            LinePattern <- <<"a", "$">>,
            Texts       <- UpTo(MaxText, {"a", "b", "nl"})

Progs  == INSTANCE Programs
Tty    == INSTANCE ConsoleOutput WITH
            CPUs <- Cpus, Nobody <- NoCpu, typed <- echoed, panicked <- frozen, pc <- cpc,
            left <- charsleft, out <- console
Exec   == INSTANCE ExecStack WITH WORD <- STACKWORD, Lengths <- ArgLengths, mem <- stackmem
Mk     == INSTANCE MkImage WITH
            args <- cmdline, done <- copied, pc <- mkpc,
            FileLists <- UNION {[1 .. l -> [name : {<<"a">>, <<"_", "a">>, <<"a", "b", "c">>,
                                                    <<"_", "a", "b", "d">>, <<"b">>},
                                            len : {0, 1, 3}]] : l \in 0 .. 3}
Txt    == INSTANCE UserText WITH
            Formats <- UpTo(MaxLine, {"%", "d", "s", "c", "a"}),
            Inputs  <- UpTo(MaxLine, {"a", "sp", "nl"}),
            Sizes   <- 2 .. BUF

ASSUME ScreenAssumption == Tty!ScreenAssumption

bootVars   == <<bsp, pc, freelist, nextpage, use_lock, locked, r, then, other, stackword, started,
                stack, pages, ready, bootpanic>>
diskVars   == <<freeblock, inuse, data, entries, addrs, size, owner, desc, fd, off, left, n1,
                tot, logged, calls, panicked, job, blocktest, wrong>>
argVars    == <<kind, k, sz, esp, value, bytes, nul, ret>>
pathVars   == <<path, s, name, walked>>
strVars    == <<f, dst, src, n, xx, base, mem, res>>
kbdVars    == <<shift, typed, held, down, caps, wire, wanted>>
heapVars   == <<next, units, freep, brk, blocks, foreign, nunits>>
searchVars == <<pattern, source, text, rest, buf, out, dropped>>
progVars   == <<kernel, table, pipes, nextpid, nfailed, said, counted, program, script>>
screenVars == <<crt, pos, overflow, echoed, paper, at, nput>>
msgVars    == <<conslock, locking, frozen, cpc, mine, dying, charsleft, console, nmessages>>
execVars   == <<argv, argc, sp, ustack, stackmem, done>>
textVars   == <<fn, string, max, result>>
imageVars  == <<cmdline, copied, inum, image, bitmap, mkpc>>
kernelVars == <<bootVars, imageVars, diskVars, argVars, pathVars, strVars,
                kbdVars, screenVars, msgVars, execVars>>
userVars   == <<heapVars, line, searchVars, textVars, progVars>>
vars == <<topic, kernelVars, userVars>>

Init ==
  /\ topic \in {"boot", "disk", "args", "paths", "strings", "keyboard", "heap", "parser", "grep",
              "programs", "screen", "messages", "exec", "text", "image"}
  /\ (topic # "disk" => blocktest = "none") /\ Disk!TestInit /\ Kbd!Init /\ Heap!Init /\ Parser!Init
  /\ (topic # "boot" => bsp = 0) /\ Start!Init
  /\ IF topic = "args" THEN Args!Init
     ELSE /\ kind = "int" /\ k = 0 /\ sz = 0 /\ esp = 0 /\ value = 0 /\ bytes = 0 /\ nul = 0 /\ ret = "none"
  /\ IF topic = "paths" THEN Str!PathInit
     ELSE path = <<>> /\ s = 0 /\ name = <<>> /\ walked = <<>>
  /\ IF topic = "strings" THEN Str!Init
     ELSE f = "none" /\ dst = 0 /\ src = 0 /\ n = 0 /\ xx = 0 /\ base = 0 /\ mem = <<>> /\ res = <<>>
  /\ IF topic = "grep" THEN Search!Init
     ELSE /\ pattern = <<>> /\ source = "none" /\ text = <<>> /\ rest = <<>> /\ buf = <<>>
          /\ out = <<>> /\ dropped = FALSE
  /\ IF topic = "programs" THEN Progs!Init
     ELSE /\ kernel = "none" /\ table = <<>> /\ pipes = <<>> /\ nextpid = 0 /\ nfailed = 0
          /\ said = {} /\ counted = {} /\ program = "none" /\ script = <<>>
  /\ (topic # "screen" => pos = 0) /\ Tty!ScreenInit /\ Tty!Init
  /\ (topic # "exec" => argv = <<>>) /\ Exec!Init
  /\ (topic # "image" => cmdline = <<>>) /\ Mk!Init
  /\ IF topic = "text" THEN Txt!Init ELSE fn = "none" /\ string = <<>> /\ max = 0 /\ result = <<>>

KernelNext ==
  /\ UNCHANGED userVars
  /\ \/ topic = "boot" /\ Start!Next
        /\ UNCHANGED <<imageVars, diskVars, argVars, pathVars, strVars, kbdVars, screenVars, msgVars,
                      execVars>>
     \/ topic = "disk" /\ Disk!TestNext
        /\ UNCHANGED <<bootVars, imageVars, argVars, pathVars, strVars, kbdVars, screenVars, msgVars,
                      execVars>>
     \/ topic = "args" /\ Args!Next
        /\ UNCHANGED <<bootVars, imageVars, diskVars, pathVars, strVars, kbdVars, screenVars, msgVars,
                      execVars>>
     \/ topic = "paths" /\ Str!PathNext
        /\ UNCHANGED <<bootVars, imageVars, diskVars, argVars, strVars, kbdVars, screenVars, msgVars,
                      execVars>>
     \/ topic = "strings" /\ Str!Next
        /\ UNCHANGED <<bootVars, imageVars, diskVars, argVars, pathVars, kbdVars, screenVars, msgVars,
                      execVars>>
     \/ topic = "keyboard" /\ Kbd!Next
        /\ UNCHANGED <<bootVars, imageVars, diskVars, argVars, pathVars, strVars, screenVars, msgVars,
                      execVars>>
     \/ topic = "screen" /\ Tty!ScreenNext
        /\ UNCHANGED <<bootVars, imageVars, diskVars, argVars, pathVars, strVars, kbdVars, msgVars,
                      execVars>>
     \/ topic = "messages" /\ Tty!Next
        /\ UNCHANGED <<bootVars, imageVars, diskVars, argVars, pathVars, strVars, kbdVars, screenVars,
                      execVars>>
     \/ topic = "exec" /\ Exec!Next
        /\ UNCHANGED <<bootVars, imageVars, diskVars, argVars, pathVars, strVars, kbdVars, screenVars,
                      msgVars>>
     \/ topic = "image" /\ Mk!Next
        /\ UNCHANGED <<bootVars, diskVars, argVars, pathVars, strVars, kbdVars, screenVars, msgVars,
                      execVars>>

UserNext ==
  /\ UNCHANGED kernelVars
  /\ \/ topic = "heap" /\ Heap!Next
        /\ UNCHANGED <<line, searchVars, textVars, progVars>>
     \/ topic = "parser" /\ Parser!Next
        /\ UNCHANGED <<heapVars, searchVars, textVars, progVars>>
     \/ topic = "grep" /\ Search!Next
        /\ UNCHANGED <<heapVars, line, textVars, progVars>>
     \/ topic = "text" /\ Txt!Next
        /\ UNCHANGED <<heapVars, line, searchVars, progVars>>
     \/ topic = "programs" /\ Progs!Next
        /\ UNCHANGED <<heapVars, line, searchVars, textVars>>

Next == UNCHANGED topic /\ (KernelNext \/ UserNext)

Spec == Init /\ [][Next]_vars

-------------------------------------------------------------------------------
(* The properties of the parts. *)

\* While the CPUs start and afterwards no page is handed out twice, the first stack of a CPU is
\* in the memory that entrypgdir maps, and no CPU releases a lock that it has not acquired.
StartIsSafe ==
  topic = "boot" =>
    Start!TypeOK /\ Start!PagesHandedOutOnce /\ Start!StackIsMapped /\ Start!NoReleasePanic

\* The kernel finds every file of the command line of mkfs in a consistent image; afterwards no
\* block is in two places, a file has the blocks that its size says, and writes fit into the log,
\* and the tests of blocks and of shared descriptors read what they have written.
BlocksAreConsistent ==
  /\ topic = "image" => Mk!FilesAreFound /\ Mk!ImageIsConsistent
  /\ topic = "disk"  => /\ Disk!TypeOK /\ Disk!BlocksArePrivate /\ Disk!SizeIsBacked
                        /\ Disk!ChunkFitsInLog /\ Disk!BlockTestsPass

\* The blocks of a file implement a sequence of bytes.
RefinesByteFiles == Disk!RefinesByteFiles

\* What crosses the border between a program and the kernel stays inside of its memory and arrives
\* as it was: arguments of system calls and of exec(), path names, strings and numbers.
ArgumentsAreIntact ==
  /\ topic = "args"    => Args!TypeOK /\ Args!StaysInMemory /\ Args!NothingIsRefused
  /\ topic = "paths"   => Str!WalksEveryElement /\ Str!FoundAsWritten
  /\ topic = "strings" => Str!MovesWhatWasThere /\ Str!EndsInside /\ Str!ReadsBack
  /\ topic = "exec"    => Exec!ArgumentsIntact /\ Exec!FailsIfTooBig

\* The keyboard driver returns what was typed, the screen shows the end of what was written, and
\* the messages of several CPUs are whole, that of a panic too.
ConsoleIsFaithful ==
  /\ topic = "keyboard" => Kbd!TypeOK /\ Kbd!TypesWhatIsPressed /\ Kbd!ModifiersFollowKeys
  /\ topic = "screen"   => Tty!ScreenShowsText
  /\ topic = "messages" => Tty!MessagesStayWhole /\ Tty!PanicIsHeard /\ Tty!PanicNeverWaits

\* The heap of a program is in one piece of blocks, none in two hands, and the ring of free
\* blocks is sorted and has no neighbours in it.
HeapIsConsistent ==
  topic = "heap" => Heap!TypeOK /\ Heap!HeapIsTiled /\ Heap!RingIsSorted

\* The programs read a text as it is meant, wherever read() and their buffers cut it: the parser
\* of the shell, the matcher and the lines of grep, printf(), gets() and wc.
TextIsUnderstood ==
  /\ topic = "parser" => Parser!WordsStayWhole /\ Parser!ParsesByParts
  /\ topic = "grep"   => Search!MatchesWhatItMeans /\ Search!JudgesEveryLine
  /\ topic = "text"   => Txt!PrintsAlike /\ Txt!GetsLosesNothing /\ Txt!CountsWords

\* A program with all its processes comes to its end, leaves nothing behind, and counts its
\* children once; a line of the shell runs in its order, every command with its own files.
ProgramsWork == topic = "programs" => Progs!ProgramsWork

-------------------------------------------------------------------------------
(* Values of the constants. *)

MCLines ==
  LET Run(c, does) == [type |-> "EXEC", name |-> c, does |-> does]
      List(c, d)    == [type |-> "LIST", left |-> c, right |-> d]
      Piped(c, d)   == [type |-> "PIPE", left |-> c, right |-> d]
      Redir(c, file, to) == [type |-> "REDIR", cmd |-> c, file |-> file, fd |-> to]
      To(c, file)   == Redir(c, file, 1)
      From(c, file) == Redir(c, file, 0)
      Bg(c) == [type |-> "BACK", cmd |-> c]
      c1 == Run("c1", "cat")
      c2 == Run("c2", "cat")
      e1 == Run("e1", "echo")
      e2 == Run("e2", "echo")
      t1 == Run("t1", "true")
      m1 == Run("m1", "missing")
  IN {Piped(e1, c1), Piped(e1, Piped(c1, c2)), Piped(c1, t1), Piped(m1, c1), Piped(e1, Bg(c1)),
      Piped(From(From(c1, "in"), "in2"), To(c2, "out")), To(Piped(e1, From(c1, "in")), "out"),
      Piped(List(e1, t1), c1), List(e1, e2), List(List(e1, c1), t1), List(Bg(Piped(e1, c1)), e2),
      List(Piped(e1, c1), c2), Bg(List(e1, t1)), To(e1, "nofile"), [type |-> "EMPTY"]}

\* A line, and then a change of the directory, or another command behind a short line.
MCScripts ==
  {<<l, [type |-> "CD"]>> : l \in MCLines} \cup {<<>>}
  \cup {<<l, [type |-> "EXEC", name |-> "e3", does |-> "echo"]>> :
         l \in {x \in MCLines : x.type \in {"BACK", "EMPTY", "REDIR"}}}

\* The tests of each kernel; the round-robin kernel has those only in which no process without
\* children waits.
MCRuns ==
  LET Others == DOMAIN Progs!OtherTests IN
  ({"lottery"} \X (DOMAIN Progs!LotteryTests \cup Others \cup {"sh"}))
  \cup ({"priority"} \X DOMAIN Progs!PrioTests)
  \cup ({"rr"} \X (DOMAIN Progs!TimingTests \cup (Others \ {"forktest", "preempt", "stressfs", "validatetest"})))
===============================================================================
