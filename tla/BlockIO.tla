-------------------------------- MODULE BlockIO -------------------------------
(***************************************************************************)
(* Block I/O: the sleep lock of a buffer (sleeplock.c), the buffer cache   *)
(* (bio.c) and the disk driver (ide.c, or memide.c in the build without a  *)
(* disk), composed.  The files are the same in the three kernels.          *)
(*                                                                         *)
(* A critical section of bcache.lock, of a sleep lock's spin lock or of    *)
(* idelock is one action.  A process that sleeps gives up the lock of the  *)
(* section; when it is woken it tests its condition again in an action of  *)
(* its own.  kill() makes a sleeper runnable before its time.              *)
(***************************************************************************)
EXTENDS Integers, Sequences, SequencesExt, FiniteSets, FiniteSetsExt

CONSTANTS Procs,
          Blocks,     \* block numbers; a process asks for them in ascending order (below)
          Values,     \* what callers write
          Writable,   \* the blocks that they write: the others are only read
          Bufs,       \* bcache.buf: NBUF buffers
          NoBlock,    \* the block number of a buffer that was never used
          Nobody,     \* a sleep lock that nobody holds
          Drivers,    \* which driver the kernel may be linked with
          DiskErrors, \* whether the drive may report an error
          MaxHeld,    \* buffers that a process holds at once: 2 in fs.c and log.c
          MaxPinned   \* buffers that log_write() keeps dirty at once: 29 in log.c

ASSUME BlockIOAssumption ==
  /\ Blocks \subseteq Nat /\ 0 \in Values /\ Values \subseteq Nat /\ Writable \subseteq Blocks
  /\ NoBlock \notin Blocks /\ Nobody \notin Procs
  /\ IsFiniteSet(Bufs) /\ IsFiniteSet(Procs)
  /\ Drivers \subseteq {"ide", "memide"} /\ DiskErrors \in BOOLEAN
  /\ MaxHeld \in Nat \ {0} /\ MaxPinned \in Nat

Points == {"run", "lock", "lockSleeps", "locked", "iderw", "ioWoken", "ioSleeps", "brelse"}
Panics == {"none", "bget: no buffers", "bwrite", "brelse", "iderw: buf not locked",
           "iderw: nothing to do", "idestart"}
Idle == [state |-> "idle"]
Contents == Values \cup Blocks \* a block first contains its number: all differ

VARIABLES
  blockno, data, refcnt,  \* struct buf
  valid, dirty,           \* its B_VALID and B_DIRTY
  owner,                  \* its sleep lock: lk.locked and lk.pid
  lru,                    \* bcache.head: the most recently used buffer first
  idequeue,               \* buffers that wait for the drive, the active one first
  drive,                  \* the command that the drive works on
  disk,                   \* the contents of the disk
  driver,                 \* the driver of this kernel
  pc,                     \* where each process is
  hold,                   \* the buffers that it has asked for, the last one last
  panicked

flags   == <<valid, dirty>>
bufVars == <<blockno, refcnt, lru>>
ideVars == <<idequeue, drive, disk>>
procVars == <<pc, hold>>
vars == <<bufVars, data, flags, owner, ideVars, driver, procVars, panicked>>

TypeOK ==
  /\ blockno \in [Bufs -> Blocks \cup {NoBlock}]
  /\ data    \in [Bufs -> Contents]
  /\ refcnt  \in [Bufs -> 0 .. Cardinality(Procs)]
  /\ valid \in [Bufs -> BOOLEAN] /\ dirty \in [Bufs -> BOOLEAN]
  /\ owner   \in [Bufs -> Procs \cup {Nobody}]
  /\ lru \in Seq(Bufs) /\ IsInjective(lru) /\ ToSet(lru) = Bufs
  /\ idequeue \in Seq(Bufs) /\ IsInjective(idequeue)
  /\ drive.state \in {"idle", "busy", "done"}
  /\ disk    \in [Blocks -> Contents]
  /\ driver  \in Drivers
  /\ pc      \in [Procs -> Points]
  /\ hold    \in [Procs -> Seq(Bufs)]
  /\ panicked \in Panics

\* binit() and ideinit(): bcache.head.next is the last buffer of the array.
Init ==
  /\ blockno = [b \in Bufs |-> NoBlock]
  /\ disk = [blk \in Blocks |-> blk]
  /\ data = [b \in Bufs |-> 0]
  /\ refcnt = [b \in Bufs |-> 0]
  /\ valid = [b \in Bufs |-> FALSE] /\ dirty = valid
  /\ owner = [b \in Bufs |-> Nobody]
  /\ lru = SetToSeq(Bufs)
  /\ idequeue = <<>> /\ drive = Idle
  /\ driver \in Drivers
  /\ pc = [p \in Procs |-> "run"]
  /\ hold = [p \in Procs |-> <<>>]
  /\ panicked = "none"

Buf(p) == Last(hold[p])
Pinned == {b \in Bufs : dirty[b] /\ b \notin ToSet(idequeue)}

-------------------------------------------------------------------------------
(* bget() *)

\* The first in s of the buffers B, as a set of at most one.
FirstIn(s, B) == {s[i] : i \in {j \in DOMAIN s : s[j] \in B /\ \A k \in 1 .. j - 1 : s[k] \notin B}}

Cached(blk) == FirstIn(lru, {b \in Bufs : blockno[b] = blk})

\* A buffer that log.c has changed and not committed is given away.
Recyclable_dirty == FirstIn(Reverse(lru), {b \in Bufs : refcnt[b] = 0})

\* The least recently used buffer that nobody has a reference to and that is clean.
Recyclable == FirstIn(Reverse(lru), {b \in Bufs : refcnt[b] = 0 /\ ~dirty[b]})

Uncached(blk) == Cached(blk) = {}

Recycle(b, blk) ==
  /\ blockno' = [blockno EXCEPT ![b] = blk]
  /\ valid'   = [valid EXCEPT ![b] = FALSE]
  /\ dirty'   = [dirty EXCEPT ![b] = FALSE]
  /\ refcnt'  = [refcnt EXCEPT ![b] = 1]

Take(p, b) ==
  /\ pc'   = [pc EXCEPT ![p] = "lock"]
  /\ hold' = [hold EXCEPT ![p] = Append(@, b)]

\* Callers that hold a buffer ask for one further on: inode or log blocks before data blocks,
\* an indirect block before the bitmap.
Asks(p, blk) ==
  /\ pc[p] = "run" /\ Len(hold[p]) < MaxHeld
  /\ \A b \in ToSet(hold[p]) : blockno[b] < blk

bgetCached(p, blk) ==
  /\ Asks(p, blk)
  /\ \E b \in Cached(blk) :
       refcnt' = [refcnt EXCEPT ![b] = @ + 1] /\ Take(p, b)
  /\ UNCHANGED <<blockno, lru, data, flags, owner, ideVars, driver, panicked>>

bgetRecycles(p, blk) ==
  /\ Asks(p, blk) /\ Uncached(blk)
  /\ \E b \in Recyclable : Recycle(b, blk) /\ Take(p, b)
  /\ UNCHANGED <<lru, data, owner, ideVars, driver, panicked>>

bgetPanics(p, blk) ==
  /\ Asks(p, blk) /\ Uncached(blk) /\ Recyclable = {}
  /\ panicked' = "bget: no buffers"
  /\ UNCHANGED <<bufVars, data, flags, owner, ideVars, driver, procVars>>

bget(p, blk) == bgetCached(p, blk) \/ bgetRecycles(p, blk) \/ bgetPanics(p, blk)

-------------------------------------------------------------------------------
(* Sleep locks *)

MayLock(b) == owner[b] = Nobody

\* The loop of acquiresleep(), from acquire(&lk->lk) or the return of sleep().
acquiresleep(p) ==
  /\ pc[p] = "lock"
  /\ IF MayLock(Buf(p))
     THEN /\ owner' = [owner EXCEPT ![Buf(p)] = p]
          /\ pc' = [pc EXCEPT ![p] = "locked"]
     ELSE pc' = [pc EXCEPT ![p] = "lockSleeps"] /\ UNCHANGED owner
  /\ UNCHANGED <<bufVars, data, flags, ideVars, driver, hold, panicked>>

\* wakeup(lk) wakes the sleepers of a lock, wakeup(b) those of a buffer.
Wakeup(point, b, to) ==
  [p \in Procs |-> IF pc[p] = point /\ Buf(p) = b THEN to ELSE pc[p]]

\* wakeup(lk) is forgotten.
Unlocked_silently(p) == [pc EXCEPT ![p] = "brelse"]

Unlocked(p) == [Wakeup("lockSleeps", Buf(p), "lock") EXCEPT ![p] = "brelse"]

holdingsleep(p) == owner[Buf(p)] = p

\* brelse(), as far as releasesleep().
releasesleep(p) ==
  /\ pc[p] = "run" /\ hold[p] # <<>>
  /\ IF ~holdingsleep(p) THEN panicked' = "brelse" /\ UNCHANGED <<owner, pc>>
     ELSE /\ owner' = [owner EXCEPT ![Buf(p)] = Nobody]
          /\ pc' = Unlocked(p)
          /\ UNCHANGED panicked
  /\ UNCHANGED <<bufVars, data, flags, ideVars, driver, hold>>

\* kill() of a process that sleeps for a lock or for the disk.
kill(p) ==
  /\ pc[p] \in {"lockSleeps", "ioSleeps"}
  /\ pc' = [pc EXCEPT ![p] = IF @ = "lockSleeps" THEN "lock" ELSE "ioWoken"]
  /\ UNCHANGED <<bufVars, data, flags, owner, ideVars, driver, hold, panicked>>

-------------------------------------------------------------------------------
(* The buffer cache, once the buffer is locked *)

NeedsRead(b) == ~valid[b]

\* The rest of bread().
bread(p) ==
  /\ pc[p] = "locked"
  /\ pc' = [pc EXCEPT ![p] = IF NeedsRead(Buf(p)) THEN "iderw" ELSE "run"]
  /\ UNCHANGED <<bufVars, data, flags, owner, ideVars, driver, hold, panicked>>

\* A holder changes the data and calls bwrite(), up to iderw().
bwrite(p, v) ==
  /\ pc[p] = "run" /\ hold[p] # <<>> /\ blockno[Buf(p)] \in Writable
  /\ IF ~holdingsleep(p) THEN panicked' = "bwrite" /\ UNCHANGED <<data, dirty, pc>>
     ELSE /\ data'  = [data EXCEPT ![Buf(p)] = v]
          /\ dirty' = [dirty EXCEPT ![Buf(p)] = TRUE]
          /\ pc' = [pc EXCEPT ![p] = "iderw"]
          /\ UNCHANGED panicked
  /\ UNCHANGED <<bufVars, valid, owner, ideVars, driver, hold>>

\* A holder changes the data and calls log_write(), which keeps the buffer in memory.
log_write(p, v) ==
  /\ pc[p] = "run" /\ hold[p] # <<>> /\ blockno[Buf(p)] \in Writable
  /\ Cardinality(Pinned \cup {Buf(p)}) <= MaxPinned
  /\ data'  = [data EXCEPT ![Buf(p)] = v]
  /\ dirty' = [dirty EXCEPT ![Buf(p)] = TRUE]
  /\ UNCHANGED <<bufVars, valid, owner, ideVars, driver, procVars, panicked>>

\* The reference is kept.
Dereference_never(b) == UNCHANGED <<refcnt, lru>>

\* Buffer b moves to the head of the list.
ToHead(b) ==
  LET n == CHOOSE i \in DOMAIN lru : lru[i] = b IN
  [i \in DOMAIN lru |-> IF i = 1 THEN b ELSE IF i <= n THEN lru[i - 1] ELSE lru[i]]

Dereference(b) ==
  /\ refcnt' = [refcnt EXCEPT ![b] = @ - 1]
  /\ lru' = IF refcnt[b] = 1 THEN ToHead(b) ELSE lru

\* The rest of brelse().
brelse(p) ==
  /\ pc[p] = "brelse"
  /\ Dereference(Buf(p))
  /\ pc'   = [pc EXCEPT ![p] = "run"]
  /\ hold' = [hold EXCEPT ![p] = Front(@)]
  /\ UNCHANGED <<blockno, data, flags, owner, ideVars, driver, panicked>>

-------------------------------------------------------------------------------
(* The disk driver *)

\* idestart() gives the drive a command; a write takes the data along.
Command(b) ==
  [state |-> "busy", op |-> IF dirty[b] THEN "write" ELSE "read", block |-> blockno[b],
   data |-> data[b]]

\* What the drive does next when the queue becomes q.
Started(q) == IF q = <<>> THEN Idle ELSE Command(q[1])

Queued(b) == Append(idequeue, b)

Synced(b) == valid[b] /\ ~dirty[b]

\* iderw() of ide.c, up to its first sleep().
iderw(p) ==
  /\ pc[p] = "iderw" /\ driver = "ide"
  /\ IF ~holdingsleep(p) THEN panicked' = "iderw: buf not locked" /\ UNCHANGED <<ideVars, pc>>
     ELSE IF Synced(Buf(p))
     THEN panicked' = "iderw: nothing to do" /\ UNCHANGED <<ideVars, pc>>
     ELSE /\ idequeue' = Queued(Buf(p))
          /\ drive' = IF idequeue = <<>> THEN Command(Buf(p)) ELSE drive
          /\ pc' = [pc EXCEPT ![p] = "ioSleeps"]
          /\ UNCHANGED <<disk, panicked>>
  /\ UNCHANGED <<bufVars, data, flags, owner, driver, hold>>

IoDone(b) == Synced(b)

\* Another round of the loop of iderw(), when sleep() has returned.
iderwAgain(p) ==
  /\ pc[p] = "ioWoken"
  /\ pc' = [pc EXCEPT ![p] = IF IoDone(Buf(p)) THEN "run" ELSE "ioSleeps"]
  /\ UNCHANGED <<bufVars, data, flags, owner, ideVars, driver, hold, panicked>>

\* The drive carries out the command and raises its interrupt; a read may fail.
driveAnswers ==
  /\ drive.state = "busy"
  /\ IF drive.op = "write"
     THEN /\ disk' = [disk EXCEPT ![drive.block] = drive.data]
          /\ drive' = [drive EXCEPT !.state = "done"]
     ELSE /\ UNCHANGED disk
          /\ \/ drive' = [drive EXCEPT !.state = "done", !.data = disk[drive.block]]
             \/ DiskErrors /\ drive' = [drive EXCEPT !.state = "done", !.op = "error"]
  /\ UNCHANGED <<bufVars, data, flags, owner, idequeue, driver, procVars, panicked>>

NextCommand == Started(Tail(idequeue))

\* The interrupt: the first of the queue is done.  A read that failed leaves its data, and
\* the buffer becomes valid all the same.
ideintr ==
  /\ drive.state = "done" /\ idequeue # <<>>
  /\ LET b == idequeue[1] IN
     /\ data'  = IF ~dirty[b] /\ drive.op # "error" THEN [data EXCEPT ![b] = drive.data]
                 ELSE data
     /\ valid' = [valid EXCEPT ![b] = TRUE]
     /\ dirty' = [dirty EXCEPT ![b] = FALSE]
     /\ pc'    = Wakeup("ioSleeps", b, "ioWoken")
  /\ idequeue' = Tail(idequeue)
  /\ drive' = NextCommand
  /\ UNCHANGED <<bufVars, owner, disk, driver, hold, panicked>>

\* iderw() of memide.c: the disk is memory, nobody waits.
iderwMem(p) ==
  /\ pc[p] = "iderw" /\ driver = "memide"
  /\ LET b == Buf(p) IN
     IF ~holdingsleep(p) THEN panicked' = "iderw: buf not locked" /\ UNCHANGED <<disk, data, flags, pc>>
     ELSE IF Synced(b) THEN panicked' = "iderw: nothing to do" /\ UNCHANGED <<disk, data, flags, pc>>
     ELSE /\ disk'  = IF dirty[b] THEN [disk EXCEPT ![blockno[b]] = data[b]] ELSE disk
          /\ data'  = IF dirty[b] THEN data ELSE [data EXCEPT ![b] = disk[blockno[b]]]
          /\ dirty' = [dirty EXCEPT ![b] = FALSE]
          /\ valid' = [valid EXCEPT ![b] = TRUE]
          /\ pc'    = [pc EXCEPT ![p] = "run"]
          /\ UNCHANGED panicked
  /\ UNCHANGED <<bufVars, owner, idequeue, drive, driver, hold>>

-------------------------------------------------------------------------------
\* What a process in the middle of a call does next, whoever it is.
Continues(p) ==
  acquiresleep(p) \/ bread(p) \/ iderw(p) \/ iderwMem(p) \/ iderwAgain(p) \/ brelse(p)

Next ==
  /\ panicked = "none"
  /\ \/ \E p \in Procs : \/ Continues(p) \/ releasesleep(p) \/ kill(p)
                         \/ \E blk \in Blocks : bget(p, blk)
                         \/ \E v \in Values : bwrite(p, v) \/ log_write(p, v)
     \/ driveAnswers \/ ideintr

Spec == Init /\ [][Next]_vars

\* Processes go on, a holder releases its buffer and at last all of them, the drive answers.  A
\* process that asks for a sleep lock gets it if the lock is free again and again when it tests it.
Fairness ==
  /\ \A p \in Procs : /\ WF_vars(Continues(p))
                      /\ SF_vars(acquiresleep(p) /\ owner[Buf(p)] = Nobody)
                      /\ SF_vars(releasesleep(p))
                      /\ SF_vars(releasesleep(p) /\ Len(hold[p]) = 1)
  /\ WF_vars(driveAnswers) /\ WF_vars(ideintr)
FairSpec == Spec /\ Fairness

-------------------------------------------------------------------------------
(* Properties. *)

\* A block is in at most one buffer: two bget() of one block never recycle two buffers for it.
OneBufferPerBlock ==
  \A b, c \in Bufs : blockno[b] = blockno[c] /\ b # c => blockno[b] = NoBlock

\* refcnt counts the processes between bget() and the end of brelse(), so that a buffer that
\* somebody is about to lock is not recycled under him.
RefcntIsExact ==
  \A b \in Bufs : refcnt[b] = Cardinality({p \in Procs : b \in ToSet(hold[p])})

\* The drive works on the head of the queue and is idle only when the queue is empty;
\* whoever sleeps for the disk is in the queue, or has been answered.
DriveWorksOnHead ==
  /\ (drive = Idle) = (idequeue = <<>>)
  /\ idequeue # <<>> => drive.block = blockno[idequeue[1]]
  /\ \A p \in Procs : pc[p] = "ioSleeps" => Contains(idequeue, Buf(p))

\* No panic of bio.c or ide.c is reached but "bget: no buffers", and that one only when every
\* single buffer is in somebody's hands or pinned by the log: no reference is ever leaked.
NoPanic ==
  \/ panicked = "none"
  \/ /\ panicked = "bget: no buffers"
     /\ \A b \in Bufs : dirty[b] \/ \E p \in Procs : b \in ToSet(hold[p])

\* The buffers that have block blk read, which are at most one: who has it locked, what is in it.
In(blk) == {b \in Bufs : blockno[b] = blk /\ valid[b]}
Holder  == [blk \in Blocks |-> IF In(blk) = {} THEN Nobody ELSE owner[CHOOSE b \in In(blk) : TRUE]]
View    == [blk \in Blocks |-> IF In(blk) = {} THEN disk[blk] ELSE data[CHOOSE b \in In(blk) : TRUE]]

Store == INSTANCE BlockStore WITH
  Values <- Contents, holder <- Holder, view <- View, stable <- disk

\* A buffer that is valid and not dirty is its block as it is on disk; when a read may fail
\* (DiskErrors) it is not.
CleanIsDisk == \A b \in Bufs : Synced(b) => data[b] = disk[blockno[b]]

\* The cache and the driver implement BlockStore: a block is exclusive, bread() returns what
\* was last written to it, wherever that is, and recycling a buffer loses nothing.
RefinesBlockStore == Store!Spec

\* A process that runs has every buffer it asked for locked and read, and one that returns
\* from bwrite() has its data on disk: nobody goes on before the disk has answered.
RunsWithItsBuffers ==
  \A p \in Procs : pc[p] = "run" =>
    \A b \in ToSet(hold[p]) : owner[b] = p /\ valid[b]

\* Sleep locks, cache and driver agree on who has which buffer and where its block is.
CacheIsConsistent ==
  /\ TypeOK /\ NoPanic
  /\ OneBufferPerBlock /\ RefcntIsExact /\ CleanIsDisk
  /\ DriveWorksOnHead /\ RunsWithItsBuffers

-------------------------------------------------------------------------------
(* The inductive invariant.  Who holds a buffer, and what is in it, is known from where the      *)
(* processes are.                                                                                *)

\* The buffers that p has locked: the last that it asked for is not locked yet, or no more.
Outside   == {"lock", "lockSleeps", "brelse"}
Locked(p) == IF pc[p] \in Outside THEN ToSet(hold[p]) \ {Buf(p)} ELSE ToSet(hold[p])

OwnersHold == \A p \in Procs, b \in Bufs : owner[b] = p <=> b \in Locked(p)

\* A process holds no buffer twice, only buffers of blocks, and some buffer while it is in a call.
HeldOnce ==
  \A p \in Procs :
    /\ IsInjective(hold[p])
    /\ \A b \in ToSet(hold[p]) : blockno[b] \in Blocks
    /\ pc[p] # "run" => hold[p] # <<>>

\* What a process has asked for before its last request, or has been given, has been read.
ReadBeforeUse ==
  \A p \in Procs : \A b \in ToSet(hold[p]) : valid[b] \/ (b = Buf(p) /\ pc[p] # "run")

OnlyReadIsWritten == \A b \in Bufs : /\ dirty[b] => valid[b]
                                     /\ valid[b] => blockno[b] \in Blocks

\* A process that waits for the disk has its buffer in the queue until it is in sync with its
\* block, and the queue has nothing else.
Waits(p) == pc[p] \in {"ioSleeps", "ioWoken"}

QueueIsWaitedFor ==
  /\ \A p \in Procs : Waits(p) => (Buf(p) \in ToSet(idequeue) <=> ~Synced(Buf(p)))
  /\ \A p \in Procs : pc[p] = "ioSleeps" => Buf(p) \in ToSet(idequeue)
  /\ \A p \in Procs : pc[p] = "iderw" => ~Synced(Buf(p))
  /\ \A b \in ToSet(idequeue) : \E p \in Procs : Waits(p) /\ Buf(p) = b

Commands == [state : {"busy", "done"}, op : {"read", "write", "error"},
             block : Blocks \cup {NoBlock}, data : Contents]

\* The command of the drive is about the first buffer of the queue, as it is.
DriveKnowsHead ==
  /\ drive = Idle \/ drive \in Commands
  /\ drive = Idle <=> idequeue = <<>>
  /\ idequeue # <<>> =>
       LET b == idequeue[1]
           done == drive.state = "done"
       IN /\ drive.block = blockno[b]
          /\ drive.op = "write" <=> dirty[b]
          /\ drive.op = "write" => drive.data = data[b] /\ (done => disk[blockno[b]] = data[b])
          /\ drive.op = "read" /\ done => drive.data = disk[blockno[b]]
          /\ drive.op = "error" => DiskErrors

IInv ==
  /\ TypeOK /\ NoPanic
  /\ OneBufferPerBlock /\ RefcntIsExact
  /\ OwnersHold /\ HeldOnce /\ ReadBeforeUse /\ OnlyReadIsWritten
  /\ QueueIsWaitedFor /\ DriveKnowsHead
  /\ DiskErrors \/ CleanIsDisk

-------------------------------------------------------------------------------
\* Whoever asks for a block gets it: no wakeup of a sleep lock or of the disk is lost, also
\* when kill() wakes the sleeper first, and two processes never wait for each other.
BreadReturns == \A p \in Procs : pc[p] = "lock" ~> pc[p] = "run" \/ panicked # "none"
===============================================================================
