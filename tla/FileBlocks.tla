------------------------------ MODULE FileBlocks ------------------------------
(***************************************************************************)
(* The blocks behind a file (fs.c: balloc, bfree, bmap, itrunc, readi,     *)
(* writei; file.c: fileread, filewrite), on an image that mkfs.c has       *)
(* built.  filewrite() cuts a call into chunks that fit into the log, and  *)
(* writei() a chunk into the blocks it touches: every block is one step,   *)
(* between which other processes write other files and take other blocks.  *)
(*                                                                         *)
(* Names, links and references are in FileSystem, transactions in Log.     *)
(*                                                                         *)
(* The tests of usertests.c that are about the blocks of files run on it:  *)
(* writetest, writetest1, bigwrite, bigfile and sharedfd, on a disk        *)
(* without other files.  Their numbers are as small as the constants ask   *)
(* for: the relation between the length of a call, a block, a chunk and    *)
(* the largest file is that of the test.                                   *)
(***************************************************************************)
EXTENDS Naturals, FiniteSets, Sequences, SequencesExt

CONSTANTS
  Procs,       \* processes; what process p writes is the byte p
  Files,       \* inodes
  NoFile,
  NBLOCKS,     \* data blocks
  BSIZE,       \* bytes of a block
  BPB,         \* blocks that a bitmap block describes
  NDIRECT, NINDIRECT,
  MAXOPBLOCKS, \* blocks that one transaction may write
  Lengths,     \* lengths of reads and writes
  MaxImage,    \* bytes that mkfs puts into a file
  MaxCalls,    \* forks, reads, writes and removals of a behaviour
  parent, child, testfile \* the processes and the file of a test

MAXFILE == NDIRECT + NINDIRECT
Blocks  == 1 .. NBLOCKS
None    == 0

VARIABLES
  freeblock, \* mkfs: the next free block; None when the image is done
  inuse,     \* the blocks marked in the bitmap
  data,      \* the bytes of a block
  entries,   \* the block numbers of a block that is an indirect block
  addrs,     \* ip->addrs
  size,      \* ip->size
  owner,     \* who has locked the inode, None if nobody
  desc,      \* the open file (struct file) that a process has, its own or that of its parent
  fd, off,   \* of each open file: f->ip, f->off
  left,      \* filewrite(): n - i, the bytes not written yet
  n1, tot,   \* writei(): the bytes of the chunk, and how many are done
  logged,    \* the blocks that the transaction of a process has logged
  calls, panicked

diskVars == <<inuse, data, entries, addrs>>
callVars == <<left, n1, tot, logged>>
vars == <<freeblock, diskVars, size, owner, desc, fd, off, callVars, calls, panicked>>

\* Block numbers in the log: data and indirect blocks are themselves.
InodeBlock     == 0
BitmapBlock(b) == NBLOCKS + 1 + (b \div BPB)

TypeOK ==
  /\ freeblock \in 0 .. NBLOCKS + 1
  /\ inuse \subseteq Blocks
  /\ data \in [Blocks -> [0 .. (BSIZE - 1) -> Procs \cup {0}]]
  /\ entries \in [Blocks -> [0 .. (NINDIRECT - 1) -> Blocks \cup {None}]]
  /\ addrs \in [Files -> [0 .. NDIRECT -> Blocks \cup {None}]]
  /\ size \in [Files -> 0 .. MAXFILE * BSIZE]
  /\ owner \in [Files -> Procs \cup {None}]
  /\ desc \in [Procs -> Procs] /\ off \in [Procs -> 0 .. MAXFILE * BSIZE]
  /\ \A p \in Procs : tot[p] <= n1[p] /\ n1[p] <= left[p]
  /\ calls \in 0 .. MaxCalls
  /\ panicked \in {"none", "balloc", "bfree", "short filewrite"}

Zeroes == [i \in 0 .. (BSIZE - 1) |-> 0]
NoEntries == [i \in 0 .. (NINDIRECT - 1) |-> None]

\* mkfs starts on a disk of zeroes.
Init ==
  /\ freeblock = 1
  /\ inuse = {}
  /\ data = [b \in Blocks |-> Zeroes] /\ entries = [b \in Blocks |-> NoEntries]
  /\ addrs = [f \in Files |-> [i \in 0 .. NDIRECT |-> None]]
  /\ size = [f \in Files |-> 0] /\ owner = [f \in Files |-> None]
  /\ desc = [p \in Procs |-> p]
  /\ fd = [p \in Procs |-> NoFile] /\ off = [p \in Procs |-> 0]
  /\ left = [p \in Procs |-> 0] /\ n1 = left /\ tot = left
  /\ logged = [p \in Procs |-> {}]
  /\ calls = 0 /\ panicked = "none"

-------------------------------------------------------------------------------
\* The block that holds block bn of file f, None if there is none.
Block(f, bn) ==
  IF bn < NDIRECT THEN addrs[f][bn]
  ELSE IF addrs[f][NDIRECT] = None THEN None
       ELSE entries[addrs[f][NDIRECT]][bn - NDIRECT]

\* bmap() of block bn first needs an indirect block.
NeedsTable(f, bn) == bn >= NDIRECT /\ addrs[f][NDIRECT] = None

\* A zeroed block b becomes the indirect block of f.
TableSet(f, b) ==
  /\ addrs' = [addrs EXCEPT ![f][NDIRECT] = b]
  /\ entries' = [entries EXCEPT ![b] = NoEntries]

\* A zeroed block b becomes block bn of f.
BlockSet(f, bn, b) ==
  IF bn < NDIRECT
  THEN addrs' = [addrs EXCEPT ![f][bn] = b] /\ UNCHANGED entries
  ELSE entries' = [entries EXCEPT ![addrs[f][NDIRECT]][bn - NDIRECT] = b] /\ UNCHANGED addrs

-------------------------------------------------------------------------------
(* mkfs. *)

\* The block that iappend() to f is about to write.
LastBlock(f) == size[f] \div BSIZE

TakesFree ==
  /\ freeblock # None /\ freeblock < NBLOCKS
  /\ freeblock' = freeblock + 1
  /\ data' = [data EXCEPT ![freeblock] = Zeroes]
  /\ UNCHANGED <<inuse, size, owner, desc, fd, off, callVars, calls, panicked>>

iappendTable(f) ==
  /\ size[f] < MaxImage /\ NeedsTable(f, LastBlock(f))
  /\ TakesFree /\ TableSet(f, freeblock)

iappendBlock(f) ==
  /\ size[f] < MaxImage /\ ~NeedsTable(f, LastBlock(f)) /\ Block(f, LastBlock(f)) = None
  /\ TakesFree /\ BlockSet(f, LastBlock(f), freeblock)

\* iappend() of one byte; what it is does not matter.
iappend(f) ==
  /\ freeblock # None /\ size[f] < MaxImage /\ Block(f, LastBlock(f)) # None
  /\ data' = [data EXCEPT ![Block(f, LastBlock(f))][size[f] % BSIZE] = CHOOSE p \in Procs : TRUE]
  /\ size' = [size EXCEPT ![f] = @ + 1]
  /\ UNCHANGED <<freeblock, inuse, entries, addrs, owner, desc, fd, off, callVars, calls, panicked>>

\* f has the blocks for its size and no others.
Backed(f) ==
  /\ \A bn \in 0 .. (MAXFILE - 1) : Block(f, bn) # None <=> bn * BSIZE < size[f]
  /\ addrs[f][NDIRECT] # None <=> NDIRECT * BSIZE < size[f]

\* mkfs is through with every file; balloc(freeblock) marks the blocks below it, and the
\* kernel starts.
mkfsEnds ==
  /\ freeblock # None
  /\ \A f \in Files : Backed(f)
  /\ inuse' = 1 .. (freeblock - 1)
  /\ freeblock' = None
  /\ UNCHANGED <<data, entries, addrs, size, owner, desc, fd, off, callVars, calls, panicked>>

-------------------------------------------------------------------------------
(* The kernel. *)

Up      == freeblock = None /\ panicked = "none"
Idle(p) == left[p] = 0
Called  == calls < MaxCalls /\ calls' = calls + 1

File(p)   == fd[desc[p]]
Offset(p) == off[desc[p]]
Shared(p) == \E q \in Procs \ {p} : desc[q] = desc[p]

\* A process opens a file, or closes the one that it has.
open(p, f) ==
  /\ Up /\ Idle(p) /\ ~Shared(p) /\ File(p) # f
  /\ fd' = [fd EXCEPT ![p] = f] /\ off' = [off EXCEPT ![p] = 0]
  /\ UNCHANGED <<freeblock, diskVars, size, owner, desc, callVars, panicked>>

\* q is a new child of p, which has its parent's descriptor.
fork(p, q) ==
  /\ Up /\ Idle(p) /\ ~Shared(p) /\ File(p) # NoFile
  /\ desc[q] = q /\ File(q) = NoFile
  /\ desc' = [desc EXCEPT ![q] = p]
  /\ UNCHANGED <<freeblock, diskVars, size, owner, fd, off, callVars, panicked>>

\* The child exits.
exit(q) ==
  /\ Up /\ Idle(q) /\ desc[q] # q
  /\ desc' = [desc EXCEPT ![q] = q]
  /\ UNCHANGED <<freeblock, diskVars, size, owner, fd, off, callVars, panicked>>

\* readi() reads to the end of the file at most.
ReadEnd(p, n) == IF Offset(p) + n > size[File(p)] THEN size[File(p)] ELSE Offset(p) + n

fileread(p, n) ==
  /\ Up /\ Idle(p) /\ File(p) # NoFile /\ owner[File(p)] = None
  /\ off' = [off EXCEPT ![desc[p]] = ReadEnd(p, n)]
  /\ UNCHANGED <<freeblock, diskVars, size, owner, desc, fd, callVars, panicked>>

filewrite(p, n) ==
  /\ Up /\ Idle(p) /\ File(p) # NoFile
  /\ left' = [left EXCEPT ![p] = n]
  /\ UNCHANGED <<freeblock, diskVars, size, owner, desc, fd, off, n1, tot, logged, panicked>>

\* i-node, indirect block, and two blocks of slop for writes that are not aligned; the
\* rest is halved for the bitmap.
MaxChunk == ((MAXOPBLOCKS - 1 - 1 - 2) \div 2) * BSIZE

\* writei() refuses the chunk.
TooLarge(p, n) == Offset(p) + n > MAXFILE * BSIZE

\* filewrite() begins a chunk; when writei() refuses it, the call returns -1.
chunk(p) ==
  LET n == IF left[p] > MaxChunk THEN MaxChunk ELSE left[p] IN
  /\ Up /\ left[p] > 0 /\ n1[p] = 0 /\ owner[File(p)] = None
  /\ IF TooLarge(p, n)
     THEN left' = [left EXCEPT ![p] = 0] /\ UNCHANGED <<owner, n1>>
     ELSE /\ owner' = [owner EXCEPT ![File(p)] = p]
          /\ n1' = [n1 EXCEPT ![p] = n] /\ UNCHANGED left
  /\ UNCHANGED <<freeblock, diskVars, size, desc, fd, off, tot, logged, calls, panicked>>

\* The block of the next byte of the chunk of p.
Position(p) == Offset(p) + tot[p]
Here(p)     == Position(p) \div BSIZE
Writes(p)   == Up /\ tot[p] < n1[p]

\* balloc() finds no block.
OutOfBlocks ==
  /\ Blocks \subseteq inuse
  /\ panicked' = "balloc"
  /\ UNCHANGED <<freeblock, diskVars, size, owner, desc, fd, off, callVars, calls>>

FirstFree == CHOOSE b \in Blocks \ inuse : \A x \in Blocks \ inuse : b <= x

\* balloc() finds the block FirstFree for the call of p; its caller logs some more.
Allocates(p, more) ==
  /\ ~(Blocks \subseteq inuse)
  /\ inuse' = inuse \cup {FirstFree}
  /\ data' = [data EXCEPT ![FirstFree] = Zeroes]
  /\ logged' = [logged EXCEPT ![p] = @ \cup {BitmapBlock(FirstFree), FirstFree} \cup more]
  /\ UNCHANGED <<freeblock, size, owner, desc, fd, off, left, n1, tot, calls, panicked>>

\* bmap() allocates the indirect block.
bmapTable(p) ==
  /\ Writes(p) /\ NeedsTable(File(p), Here(p))
  /\ \/ OutOfBlocks
     \/ Allocates(p, {}) /\ TableSet(File(p), FirstFree)

\* bmap() allocates the block.
bmapBlock(p) ==
  /\ Writes(p) /\ ~NeedsTable(File(p), Here(p)) /\ Block(File(p), Here(p)) = None
  /\ \/ OutOfBlocks
     \/ /\ Allocates(p, IF Here(p) < NDIRECT THEN {} ELSE {addrs[File(p)][NDIRECT]})
        /\ BlockSet(File(p), Here(p), FirstFree)

\* The bytes of the chunk that go into this block.
Piece(p) ==
  LET room == BSIZE - (Position(p) % BSIZE)
      rest == n1[p] - tot[p]
  IN IF rest < room THEN rest ELSE room

\* Every piece goes to the start of its block.
From_start(p) == 0

From(p) == Position(p) % BSIZE

\* One turn of the loop of writei().
writei(p) ==
  LET b == Block(File(p), Here(p)) IN
  /\ Writes(p) /\ b # None
  /\ data' = [data EXCEPT ![b] = [i \in 0 .. (BSIZE - 1) |->
                 IF i >= From(p) /\ i < From(p) + Piece(p) THEN p ELSE @[i]]]
  /\ tot' = [tot EXCEPT ![p] = @ + Piece(p)]
  /\ logged' = [logged EXCEPT ![p] = @ \cup {b}]
  /\ UNCHANGED <<freeblock, inuse, entries, addrs, size, owner, desc, fd, off, left, n1, calls, panicked>>

\* The size that writei() sets.
NewSize(p) == IF Position(p) > size[File(p)] THEN Position(p) ELSE size[File(p)]

\* writei() sets the size, filewrite() the offset, and the transaction ends.
chunkEnds(p) ==
  LET f == File(p) IN
  /\ Up /\ n1[p] > 0 /\ tot[p] = n1[p]
  /\ size' = [size EXCEPT ![f] = NewSize(p)]
  /\ off' = [off EXCEPT ![desc[p]] = Position(p)]
  /\ owner' = [owner EXCEPT ![f] = None]
  /\ left' = [left EXCEPT ![p] = @ - n1[p]]
  /\ n1' = [n1 EXCEPT ![p] = 0] /\ tot' = [tot EXCEPT ![p] = 0]
  /\ logged' = [logged EXCEPT ![p] = {}]
  /\ UNCHANGED <<freeblock, diskVars, desc, fd, calls, panicked>>

Direct(f)   == {addrs[f][i] : i \in 0 .. (NDIRECT - 1)} \ {None}
Table(f)    == {addrs[f][NDIRECT]} \ {None}
Indirect(f) == UNION {{entries[b][i] : i \in 0 .. (NINDIRECT - 1)} : b \in Table(f)} \ {None}
BlocksOf(f) == Direct(f) \cup Table(f) \cup Indirect(f)

\* itrunc() forgets the blocks that the indirect block names.
Freed_shallow(f) == Direct(f) \cup Table(f)

\* The blocks that itrunc() frees.
Freed(f) == Direct(f) \cup Table(f) \cup Indirect(f)

\* itrunc() of a file that has no name and no descriptor.
itrunc(f) ==
  /\ Up /\ \A p \in Procs : fd[p] # f
  /\ inuse' = inuse \ Freed(f)
  /\ addrs' = [addrs EXCEPT ![f] = [i \in 0 .. NDIRECT |-> None]]
  /\ size' = [size EXCEPT ![f] = 0]
  /\ panicked' = IF Freed(f) \subseteq inuse THEN "none" ELSE "bfree"
  /\ UNCHANGED <<freeblock, data, entries, owner, desc, fd, off, callVars>>

\* Any call of any process, or a step of mkfs.
AnyCall ==
  \/ \E f \in Files : iappendTable(f) \/ iappendBlock(f) \/ iappend(f)
  \/ \E f \in Files : itrunc(f) /\ Called
  \/ \E p \in Procs, n \in Lengths : (fileread(p, n) \/ filewrite(p, n)) /\ Called
  \/ \E p \in Procs, q \in Procs : p # q /\ fork(p, q) /\ Called
  \/ /\ \E p \in Procs : \/ \E f \in Files \cup {NoFile} : open(p, f)
                          \/ exit(p)
     /\ UNCHANGED calls

\* A chunk goes on.
WriteGoesOn(p) == bmapTable(p) \/ bmapBlock(p) \/ writei(p) \/ chunkEnds(p)

Next == AnyCall \/ mkfsEnds \/ \E p \in Procs : chunk(p) \/ WriteGoesOn(p)

Spec == Init /\ [][Next]_vars

-------------------------------------------------------------------------------
(* Properties. *)

\* Every block of every file is a different one, and the bitmap marks exactly those.
BlocksArePrivate ==
  /\ \A f, g \in Files : f # g => BlocksOf(f) \cap BlocksOf(g) = {}
  /\ \A f \in Files, i, j \in 0 .. (MAXFILE - 1) :
       i # j /\ Block(f, i) # None => Block(f, i) # Block(f, j) /\ Block(f, i) # addrs[f][NDIRECT]
  /\ freeblock = None /\ panicked = "none" => inuse = UNION {BlocksOf(f) : f \in Files}

\* A file has blocks exactly up to its size when nobody has it locked: no read has to
\* allocate one, for which it has no transaction, and the inode that was written with the
\* size names all of them.
SizeIsBacked == Up => \A f \in Files : owner[f] = None => Backed(f)

\* A chunk never logs more blocks than begin_op() reserved for it, the inode included.
ChunkFitsInLog == \A p \in Procs : Cardinality(logged[p] \cup {InodeBlock}) <= MAXOPBLOCKS

Text == [f \in Files |->
          [i \in 1 .. size[f] |-> data[Block(f, (i - 1) \div BSIZE)][(i - 1) % BSIZE]]]

Bytes == INSTANCE ByteFiles WITH text <- Text, MaxSize <- MAXFILE * BSIZE

\* The blocks implement files of bytes.
RefinesByteFiles == Bytes!Spec
-------------------------------------------------------------------------------
(* The tests. *)

VARIABLES job,   \* the calls that a process of the test still makes
          test,  \* which test, or "none": any calls
          wrong  \* a call of a test has not returned what the test expects

testVars == <<job, test, wrong>>

\* c[1] o ... o c[1], n times.
Times(n, c) == FlattenSeq([i \in 1 .. n |-> c])

Open      == <<[op |-> "open"]>>
Close     == <<[op |-> "close"]>>
Unlink    == <<[op |-> "unlink"]>>
Write(n)  == <<[op |-> "write", n |-> n]>>
Read(n, want) == <<[op |-> "read", n |-> n, want |-> want]>>
ReadAll(n, total) == Times(total \div n, Read(n, n)) \o Read(n, 0)

Largest == MAXFILE * BSIZE

\* Small pieces, and all of them in one read().
writetest == Open \o Times(BSIZE + 1, Write(1)) \o Close
             \o Open \o Read(BSIZE + 1, BSIZE + 1) \o Close \o Unlink

\* The largest file, by blocks.
writetest1 == Open \o Times(MAXFILE, Write(BSIZE)) \o Close
              \o Open \o ReadAll(BSIZE, Largest) \o Close \o Unlink

\* Two writes of each length, also of more than fits into a transaction.
bigwrite == FlattenSeq([n \in 1 .. Largest \div 2 |->
                          Open \o Write(n) \o Write(n) \o Close \o Unlink])

\* Pieces that are longer than a block, and reads that are shorter.
bigfile == Open \o Times(2, Write(BSIZE + 1)) \o Close
           \o Open \o ReadAll(1, 2 * (BSIZE + 1)) \o Close \o Unlink

\* Parent and child write as much by the same descriptor.
sharedfd == Open \o <<[op |-> "fork"]>> \o Times(Largest \div 2, Write(1)) \o <<[op |-> "wait"]>> \o Close
            \o Open \o Read(Largest, Largest) \o Close \o Unlink
sharedfdChild == Times(Largest \div 2, Write(1)) \o <<[op |-> "exit"]>>

Tests == [writetest |-> writetest, writetest1 |-> writetest1, bigwrite |-> bigwrite,
          bigfile |-> bigfile, sharedfd |-> sharedfd]

TestInit ==
  /\ Init
  /\ test \in DOMAIN Tests \cup {"none"}
  /\ job = [p \in Procs |-> IF p = parent /\ test # "none" THEN Tests[test] ELSE <<>>]
  /\ wrong = FALSE

-------------------------------------------------------------------------------
\* What p does next in its test.
Does(p, op) == Up /\ Idle(p) /\ job[p] # <<>> /\ Head(job[p]).op = op
Done(p)     == job' = [job EXCEPT ![p] = Tail(@)]

testOpen(p)   == Does(p, "open") /\ open(p, testfile) /\ Done(p)
testClose(p)  == Does(p, "close") /\ open(p, NoFile) /\ Done(p)
testFork(p)   == /\ Does(p, "fork") /\ fork(p, child)
                 /\ job' = [job EXCEPT ![p] = Tail(@), ![child] = sharedfdChild]
testWait(p)   == /\ Does(p, "wait") /\ job[child] = <<>>
                 /\ Done(p) /\ UNCHANGED <<freeblock, diskVars, size, owner, desc, fd, off, callVars, panicked>>
testExit(p)   == Does(p, "exit") /\ exit(p) /\ Done(p)

\* unlink() of the last name: the blocks are freed.
testUnlink(p) ==
  /\ Does(p, "unlink") /\ Done(p)
  /\ itrunc(testfile)

testRead(p) ==
  /\ Does(p, "read") /\ Done(p)
  /\ LET call == Head(job[p]) IN
     /\ fileread(p, call.n)
     /\ wrong' = (wrong \/ ReadEnd(p, call.n) - Offset(p) # call.want)

testWrite(p) ==
  /\ Does(p, "write") /\ Done(p)
  /\ filewrite(p, Head(job[p]).n)

\* writei() refuses what a test writes.
testChunk(p) ==
  /\ chunk(p)
  /\ wrong' = (wrong \/ (test # "none" /\ n1'[p] = 0))
  /\ UNCHANGED <<job, test>>

TestNext ==
  \/ test = "none" /\ AnyCall /\ UNCHANGED testVars
  \/ mkfsEnds /\ UNCHANGED testVars
  \/ \E p \in Procs :
       \/ (WriteGoesOn(p) /\ UNCHANGED testVars) \/ testChunk(p)
       \/ /\ testOpen(p) \/ testClose(p) \/ testFork(p) \/ testWait(p) \/ testExit(p)
             \/ testUnlink(p) \/ testWrite(p)
          /\ UNCHANGED <<calls, test, wrong>>
       \/ testRead(p) /\ UNCHANGED <<calls, test>>

TestSpec == TestInit /\ [][TestNext]_<<vars, testVars>>

-------------------------------------------------------------------------------
(* What the tests expect. *)

WillDo(p, op) == Cardinality({i \in DOMAIN job[p] : job[p][i].op = op})
BytesOf(p, f) == Cardinality({i \in 1 .. size[f] : Text[f][i] = p})

\* Every write of a test is complete and every read returns as much as the test expects, up to
\* the largest file; of what two processes write by the same descriptor nothing is lost.
BlockTestsPass ==
  /\ ~wrong
  /\ test # "none" => panicked = "none"
  /\ (test = "sharedfd" /\ WillDo(parent, "unlink") > 0 /\ WillDo(parent, "fork") = 0) =>
       \A p \in Procs : BytesOf(p, testfile) + left[p] + WillDo(p, "write") = Largest \div 2
===============================================================================
