-------------------------------- MODULE Memory --------------------------------
(***************************************************************************)
(* Physical pages and address spaces: kalloc.c, vm.c, exec.c and the parts *)
(* of proc.c that take and give back memory (fork(), wait(), growproc(),   *)
(* exit()), which are the same in the three kernels.                       *)
(*                                                                         *)
(* Processes run on several CPUs and share the list of free pages, which   *)
(* may be empty at any kalloc(): every call must undo what it has done so  *)
(* far.  kalloc() and kfree() are atomic under kmem.lock; a run of kfree() *)
(* calls is one action.  A size is a number of bytes, PGSIZE of them a     *)
(* page, NPTE pages a page table; what the bytes are is left out, and so   *)
(* is the order of the free list.                                          *)
(***************************************************************************)
EXTENDS Integers, Sequences, FiniteSets, FiniteSetsExt

CONSTANTS NPROC,
          NPAGES,  \* pages of physical memory
          PGSIZE,  \* 4096
          NPTE,    \* pages under a page table (1024)
          NPT,     \* page tables for the user part of an address space (512)
          NKPT,    \* and for the kernel part
          WORD,    \* numbers of an unsigned int
          Deltas,  \* arguments of sbrk()
          Images,  \* programs: for each segment, where it ends
          MaxCalls \* bound: system calls in a behaviour

Size == NPT * NPTE * PGSIZE \* KERNBASE

ASSUME MemoryAssumption ==
  /\ NPROC \in Nat \ {0} /\ NPAGES \in Nat /\ NPAGES >= 4 + NKPT
  /\ PGSIZE \in Nat \ {0} /\ NPTE \in Nat \ {0} /\ NPT \in Nat \ {0} /\ NKPT \in Nat \ {0}
  /\ Size > PGSIZE
  /\ WORD \in Nat /\ WORD > 2 * Size /\ MaxCalls \in Nat
  /\ Deltas \subseteq Int /\ Images \subseteq Seq(Nat)

Procs    == 1 .. NPROC
Pages    == 1 .. NPAGES
None     == 0
initproc == 1
VPages   == 0 .. NPT * NPTE - 1

\* The places that may hold a page.  An address space, "vm", or "new" while fork() or exec()
\* builds it, has a page directory, the kernel's page tables, the user's, and the user's pages.
Spaces(a) == ({a} \X {"dir"} \X {0}) \cup ({a} \X {"kpt"} \X (0 .. NKPT - 1))
               \cup ({a} \X {"pt"} \X (0 .. NPT - 1)) \cup ({a} \X {"page"} \X VPages)
Stack     == <<"proc", "kstack", 0>>
Mem       == <<"proc", "mem", 0>>  \* the local variable mem
Slots     == Spaces("vm") \cup Spaces("new") \cup {Stack, Mem}
Places    == Procs \X Slots

VARIABLES
  free,   \* kmem.freelist
  own,    \* own[<<p, s>>]: the page in slot s of process p
  state,
  parent,
  sz,
  pc,
  job,    \* local variables of the call
  ncalls,
  panicked

memory == <<free, own, state, parent, sz, pc, job, panicked>>
vars == <<memory, ncalls>>
control == <<state, parent, sz, panicked>>

NoJob == [op |-> "none", at |-> 0, to |-> 0, from |-> 0, size |-> 0, segs |-> <<>>, stack |-> FALSE, child |-> 1]

Points == {"user", "kstack", "dir", "kpt", "alloc", "table", "map"}

TypeOK ==
  /\ free \subseteq Pages
  /\ own \in [Places -> Pages \cup {None}]
  /\ state \in [Procs -> {"UNUSED", "EMBRYO", "RUNNABLE", "ZOMBIE"}]
  /\ parent \in [Procs -> Procs]
  /\ sz \in [Procs -> 0 .. Size - 1]
  /\ pc \in [Procs -> Points]
  /\ ncalls \in 0 .. MaxCalls
  /\ panicked \in {"none", "copyuvm", "remap", "freevm"}

\* kinit1(), kinit2() and userinit(): init has a page at address 0.
InitialPage(s) ==
  CASE s = Stack -> 1
    [] s = <<"vm", "dir", 0>>  -> 2
    [] s = <<"vm", "pt", 0>>   -> 3
    [] s = <<"vm", "page", 0>> -> 4
    [] s[1] = "vm" /\ s[2] = "kpt" -> 5 + s[3]
    [] OTHER -> None

Init ==
  /\ own = [h \in Places |-> IF h[1] = initproc THEN InitialPage(h[2]) ELSE None]
  /\ free = Pages \ {own[h] : h \in Places}
  /\ state = [p \in Procs |-> IF p = initproc THEN "RUNNABLE" ELSE "UNUSED"]
  /\ parent = [p \in Procs |-> initproc]
  /\ sz = [p \in Procs |-> IF p = initproc THEN PGSIZE ELSE 0]
  /\ pc = [p \in Procs |-> "user"]
  /\ job = [p \in Procs |-> NoJob]
  /\ ncalls = 0 /\ panicked = "none"

-------------------------------------------------------------------------------
(* The three things that happen to pages *)

Has(p, s) == own[<<p, s>>] # None

\* kalloc(): a free page goes to slot s of process p.
Take(p, s) ==
  LET x == CHOOSE x \in free : TRUE IN
  /\ own'  = [own EXCEPT ![<<p, s>>] = x]
  /\ free' = free \ {x}

\* kfree() of the pages in the places H.
Give(H) ==
  /\ own'  = [h \in Places |-> IF h \in H THEN None ELSE own[h]]
  /\ free' = free \cup ({own[h] : h \in H} \ {None})

\* The page of place h goes to place k.
Move(h, k) ==
  /\ own' = [own EXCEPT ![h] = None, ![k] = own[h]]
  /\ UNCHANGED free

PageUp(n) == (n + PGSIZE - 1) \div PGSIZE \* the number of the page at PGROUNDUP(n)
Virtual(n) == n \div PGSIZE
Page(a, v) == <<a, "page", v>>
Table(a, v) == <<a, "pt", v \div NPTE>>
All(p, a)  == {p} \X Spaces(a)

\* deallocuvm(): the user pages from PGROUNDUP(new) to below old.
Above(p, a, old, new) == {<<p, Page(a, v)>> : v \in {u \in VPages : u >= PageUp(new) /\ u * PGSIZE < old}}

-------------------------------------------------------------------------------
(* System calls *)

\* The process runs its program, whose first page is there.
InUser(p) == state[p] = "RUNNABLE" /\ pc[p] = "user" /\ Has(p, Page("vm", 0))

Calls(p) == InUser(p)

Starts(p, point, j) == pc' = [pc EXCEPT ![p] = point] /\ job' = [job EXCEPT ![p] = j]
Returns(p) == Starts(p, "user", NoJob)

Panic(why) == panicked' = why /\ UNCHANGED <<free, own, state, parent, sz, pc, job>>

\* newsz >= KERNBASE
TooBig(n) == n >= Size

\* sys_sbrk() and growproc() that grow the process.
sbrkGrows(p, n) ==
  /\ Calls(p) /\ n > 0
  /\ IF TooBig(sz[p] + n) THEN Returns(p)
     ELSE Starts(p, "alloc", [NoJob EXCEPT !.op = "sbrk", !.at = PageUp(sz[p]) * PGSIZE,
                                           !.from = sz[p], !.to = sz[p] + n])
  /\ UNCHANGED <<free, own, state, parent, sz, panicked>>

\* growproc() that shrinks it: the sum wraps round, and a new size of 0 is taken for a failure.
sbrkShrinks(p, n) ==
  LET new == (sz[p] + n + WORD) % WORD IN
  /\ Calls(p) /\ n < 0
  /\ IF new >= sz[p] THEN UNCHANGED <<own, free, sz>>
     ELSE /\ Give(Above(p, "vm", sz[p], new))
          /\ sz' = IF new = 0 THEN sz ELSE [sz EXCEPT ![p] = new]
  /\ UNCHANGED <<state, parent, pc, job, panicked>>

\* Where copyuvm() stops.
CopyEnd(p) == sz[p]

\* fork(): allocproc() finds a slot.
fork(p, c) ==
  /\ Calls(p) /\ state[c] = "UNUSED"
  /\ state' = [state EXCEPT ![c] = "EMBRYO"]
  /\ Starts(p, "kstack", [NoJob EXCEPT !.op = "fork", !.child = c, !.to = CopyEnd(p)])
  /\ UNCHANGED <<free, own, parent, sz, panicked>>

allocproc(p) ==
  LET c == job[p].child IN
  /\ pc[p] = "kstack"
  /\ IF free = {} THEN /\ state' = [state EXCEPT ![c] = "UNUSED"]
                       /\ Returns(p) /\ UNCHANGED <<own, free>>
     ELSE /\ Take(c, Stack)
          /\ pc' = [pc EXCEPT ![p] = "dir"]
          /\ UNCHANGED <<state, job>>
  /\ UNCHANGED <<parent, sz, panicked>>

\* exec() of a program, up to setupkvm().
exec(p, image) ==
  /\ Calls(p)
  /\ Starts(p, "dir", [NoJob EXCEPT !.op = "exec", !.segs = image])
  /\ UNCHANGED <<free, own, state, parent, sz, panicked>>

\* The new stack of a failed fork() is forgotten.
Undone_stack(p) ==
  CASE job[p].op = "sbrk" -> Above(p, "vm", job[p].to, job[p].from)
    [] job[p].op = "fork" -> All(p, "new")
    [] job[p].op = "exec" -> All(p, "new")

\* What a call that fails gives back: allocuvm() the pages so far, fork() and exec() the new
\* address space, fork() the new stack too.
Undone(p) ==
  CASE job[p].op = "sbrk" -> Above(p, "vm", job[p].to, job[p].from)
    [] job[p].op = "fork" -> All(p, "new") \cup {<<job[p].child, Stack>>}
    [] job[p].op = "exec" -> All(p, "new")

Fails(p) ==
  /\ Give(Undone(p) \cup {<<p, Mem>>})
  /\ state' = IF job[p].op = "fork" THEN [state EXCEPT ![job[p].child] = "UNUSED"] ELSE state
  /\ Returns(p)
  /\ UNCHANGED <<parent, sz, panicked>>

\* A kalloc() for slot s of the process, which may find nothing.
Allocates(p, s, next) ==
  IF free = {} THEN Fails(p)
  ELSE Take(p, s) /\ pc' = [pc EXCEPT ![p] = next] /\ UNCHANGED <<job, control>>

\* setupkvm()
setupkvm(p) == pc[p] = "dir" /\ Allocates(p, <<"new", "dir", 0>>, "kpt")

MissingTables(p) == {i \in 0 .. NKPT - 1 : ~Has(p, <<"new", "kpt", i>>)}

kmap(p) ==
  /\ pc[p] = "kpt"
  /\ IF MissingTables(p) # {} THEN Allocates(p, <<"new", "kpt", Min(MissingTables(p))>>, "kpt")
     ELSE pc' = [pc EXCEPT ![p] = "alloc"] /\ UNCHANGED <<own, free, job, control>>

-------------------------------------------------------------------------------
(* allocuvm() and copyuvm(): the pages from at to to *)

Area(p) == IF job[p].op = "sbrk" THEN "vm" ELSE "new"
Here(p) == Virtual(job[p].at)

\* The next page; for fork(), that the parent has it is checked.
kalloc(p) ==
  /\ pc[p] = "alloc" /\ job[p].at < job[p].to
  /\ IF job[p].op = "fork" /\ ~Has(p, Page("vm", Here(p))) THEN Panic("copyuvm")
     ELSE Allocates(p, Mem, "table")

HasTable(p) == Has(p, Table(Area(p), Here(p)))

\* walkpgdir()
walkpgdir(p) ==
  /\ pc[p] = "table"
  /\ IF HasTable(p) THEN pc' = [pc EXCEPT ![p] = "map"] /\ UNCHANGED <<own, free, job, control>>
     ELSE Allocates(p, Table(Area(p), Here(p)), "map")

mappages(p) ==
  /\ pc[p] = "map"
  /\ IF Has(p, Page(Area(p), Here(p))) THEN Panic("remap")
     ELSE /\ Move(<<p, Mem>>, <<p, Page(Area(p), Here(p))>>)
          /\ Starts(p, "alloc", [job[p] EXCEPT !.at = @ + PGSIZE])
          /\ UNCHANGED control

Allocated(p, op) == pc[p] = "alloc" /\ job[p].op = op /\ job[p].at >= job[p].to

NewBreak(p) == job[p].to

growproc(p) ==
  /\ Allocated(p, "sbrk")
  /\ sz' = [sz EXCEPT ![p] = NewBreak(p)]
  /\ Returns(p)
  /\ UNCHANGED <<free, own, state, parent, panicked>>

\* The new address space of p becomes that of q; the one q had is freed.
Commit(p, q) ==
  /\ own' = [h \in Places |->
               IF h \in All(q, "vm") THEN own[<<p, <<"new", h[2][2], h[2][3]>>>>]
               ELSE IF h \in All(p, "new") THEN None ELSE own[h]]
  /\ free' = free \cup ({own[h] : h \in All(q, "vm")} \ {None})

forked(p) ==
  LET c == job[p].child IN
  /\ Allocated(p, "fork")
  /\ Commit(p, c)
  /\ sz' = [sz EXCEPT ![c] = sz[p]]
  /\ parent' = [parent EXCEPT ![c] = p]
  /\ state' = [state EXCEPT ![c] = "RUNNABLE"]
  /\ Returns(p)
  /\ UNCHANGED panicked

\* exec(): allocuvm() of the next segment, of the stack, or the end.  A smaller end leaves the
\* size as it is; the sizes 0 and KERNBASE are failures.
execSegment(p) ==
  LET end == Head(job[p].segs)
      size == IF end < job[p].size THEN job[p].size ELSE end
  IN
  /\ Allocated(p, "exec") /\ job[p].segs # <<>>
  /\ IF TooBig(end) \/ size = 0 THEN Fails(p)
     ELSE /\ Starts(p, "alloc", [job[p] EXCEPT !.segs = Tail(@), !.to = size, !.size = size,
                                               !.at = PageUp(job[p].size) * PGSIZE])
          /\ UNCHANGED <<free, own, control>>

execStack(p) ==
  LET base == PageUp(job[p].size) * PGSIZE
      end  == base + 2 * PGSIZE
  IN
  /\ Allocated(p, "exec") /\ job[p].segs = <<>> /\ ~job[p].stack
  /\ IF TooBig(end) THEN Fails(p)
     ELSE /\ Starts(p, "alloc", [job[p] EXCEPT !.stack = TRUE, !.at = base, !.to = end, !.size = end])
          /\ UNCHANGED <<free, own, control>>

\* A file that is no program, a segment that cannot be read, arguments that do not fit.
execFails(p) == Allocated(p, "exec") /\ Fails(p)

execCommits(p) ==
  /\ Allocated(p, "exec") /\ job[p].stack
  /\ Commit(p, p)
  /\ sz' = [sz EXCEPT ![p] = job[p].size]
  /\ Returns(p)
  /\ UNCHANGED <<state, parent, panicked>>

-------------------------------------------------------------------------------
\* exit(), also after the fault of a process that has given its program away.
exit(p) ==
  /\ state[p] = "RUNNABLE" /\ pc[p] = "user" /\ p # initproc
  /\ state' = [state EXCEPT ![p] = "ZOMBIE"]
  /\ parent' = [c \in Procs |-> IF parent[c] = p THEN initproc ELSE parent[c]]
  /\ UNCHANGED <<free, own, sz, pc, job, panicked>>

\* wait() of a child that has exited.
wait(p, c) ==
  /\ InUser(p)
  /\ state[c] = "ZOMBIE" /\ parent[c] = p
  /\ Give(All(c, "vm") \cup {<<c, Stack>>})
  /\ state' = [state EXCEPT ![c] = "UNUSED"]
  /\ parent' = [parent EXCEPT ![c] = initproc]
  /\ UNCHANGED <<sz, pc, job, panicked>>

\* sys_sbrk()
sbrk(p, n) == sbrkGrows(p, n) \/ sbrkShrinks(p, n)

User(p) ==
  \/ /\ ncalls < MaxCalls /\ ncalls' = ncalls + 1
     /\ \/ \E n \in Deltas : sbrk(p, n)
        \/ \E c \in Procs : fork(p, c)
        \/ \E image \in Images : exec(p, image)
  \/ /\ (\E c \in Procs : wait(p, c)) \/ exit(p)
     /\ UNCHANGED ncalls

InKernel(p) ==
  \/ allocproc(p) \/ setupkvm(p) \/ kmap(p) \/ kalloc(p) \/ walkpgdir(p) \/ mappages(p)
  \/ growproc(p) \/ forked(p) \/ execSegment(p) \/ execStack(p) \/ execFails(p) \/ execCommits(p)

Kernel(p) == InKernel(p) /\ UNCHANGED ncalls

Next == panicked = "none" /\ \E p \in Procs : User(p) \/ Kernel(p)

Spec == Init /\ [][Next]_vars

\* A process in the kernel goes on.
Fairness == \A p \in Procs : WF_vars(Kernel(p))
FairSpec == Spec /\ Fairness

-------------------------------------------------------------------------------
(* Properties. *)

Held == {h \in Places : own[h] # None}

OneOwner    == \A h, k \in Held : own[h] = own[k] => h = k
FreeOrOwned == free = Pages \ {own[h] : h \in Held}

\* No page is lost, freed while it is used or given to two, whatever calls run at once and
\* wherever they run out of memory: at every moment each page is either free or in one place.
PagesPartitioned == OneOwner /\ FreeOrOwned

\* The user pages of an address space are those below n.
Mapped(p, a, n) == \A v \in VPages : Has(p, Page(a, v)) <=> v * PGSIZE < n

\* The address space of a process that runs its program is what its size says: all pages below
\* sz, no others.  One that has shrunk to nothing has none, although sz is what it was.
SizeMatches(p) ==
  state[p] = "RUNNABLE" /\ pc[p] = "user" => Mapped(p, "vm", sz[p]) \/ Mapped(p, "vm", 0)

SizeMatchesPages == \A p \in Procs : SizeMatches(p)

\* A slot that is not used holds no memory: a failed fork() and wait() give all of it back.
UnusedIsEmpty ==
  \A p \in Procs : state[p] = "UNUSED" => \A s \in Slots : ~Has(p, s)

\* No panic of vm.c is reached.
NoPanic == panicked = "none"

\* Pages, sizes and slots agree, wherever fork(), exec() and sbrk() run out of memory.
MemoryIsConsistent ==
  TypeOK /\ NoPanic /\ PagesPartitioned /\ SizeMatchesPages /\ UnusedIsEmpty

(* The inductive invariant: how far a call has come is how far its address space is built. *)

Ops  == {"none", "sbrk", "fork", "exec"}
Jobs == [op : Ops, at : Nat, to : 0 .. Size - 1, from : 0 .. Size - 1, size : 0 .. Size - 1,
         segs : Seq(Nat), stack : BOOLEAN, child : Procs]

\* Only a RUNNABLE process is in a call.
JobInProgress(p) ==
  /\ pc[p] = "user" <=> job[p].op = "none"
  /\ pc[p] # "user" => state[p] = "RUNNABLE"
  /\ job[p].op = "sbrk" => pc[p] \in {"alloc", "table", "map"}
  /\ pc[p] = "kstack" => job[p].op = "fork"

\* What a call has not taken yet, or a process has no use for, is not there.
Builds(p)   == job[p].op \in {"fork", "exec"} /\ pc[p] \notin {"kstack", "dir"}
Empty(p, a) == \A s \in Spaces(a) : ~Has(p, s)

NothingSpare(p) ==
  /\ ~Builds(p) => Empty(p, "new")
  /\ Has(p, Mem) <=> pc[p] \in {"table", "map"}
  /\ state[p] \in {"UNUSED", "EMBRYO"} => Empty(p, "vm")
  /\ state[p] = "UNUSED" => ~Has(p, Stack)

\* The pages below at are there, and at has not passed the end of what the call wants.
BuiltSoFar(p) ==
  job[p].op # "none" =>
    /\ job[p].at = Here(p) * PGSIZE
    /\ Here(p) <= PageUp(job[p].to)
    /\ pc[p] \in {"table", "map"} => job[p].at < job[p].to
    /\ Mapped(p, Area(p), job[p].at)

\* The size that the process had before, and still has when the call fails.
OldSizeKept(p) ==
  /\ job[p].op \in {"fork", "exec"} => Mapped(p, "vm", sz[p])
  /\ job[p].op = "fork" => job[p].to = sz[p]
  /\ job[p].op = "exec" => job[p].to = job[p].size
  /\ job[p].op = "sbrk" => /\ job[p].from = sz[p] /\ job[p].from <= job[p].to
                           /\ PageUp(job[p].from) <= Here(p)

\* The child that fork() builds is an EMBRYO, and no other fork() builds it too.
ForkOwnsChild ==
  \A p \in Procs : job[p].op = "fork" =>
    /\ state[job[p].child] = "EMBRYO"
    /\ pc[p] = "kstack" => ~Has(job[p].child, Stack)
    /\ \A q \in Procs : job[q].op = "fork" /\ job[q].child = job[p].child => p = q

IInv ==
  /\ TypeOK /\ NoPanic /\ PagesPartitioned /\ job \in [Procs -> Jobs] /\ ForkOwnsChild
  /\ \A p \in Procs : /\ SizeMatches(p) /\ JobInProgress(p) /\ NothingSpare(p)
                      /\ BuiltSoFar(p) /\ OldSizeKept(p)

-------------------------------------------------------------------------------
\* A call that builds an address space ends: for want of memory it fails, it does not wait.
CallsReturn == \A p \in Procs : pc[p] # "user" ~> pc[p] = "user"
===============================================================================
