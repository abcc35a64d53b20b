---------------------------------- MODULE Log ---------------------------------
(***************************************************************************)
(* The redo log of the file system, log.c (the same file in the three      *)
(* kernels), with crashes between any two disk writes and the recovery     *)
(* that initlog() runs.                                                    *)
(*                                                                         *)
(* A disk write replaces one block, or does not happen.  The buffer cache  *)
(* is what bread() returns: a dirty block is never evicted, so it is one   *)
(* value per block.  The critical sections of log.lock are one action      *)
(* each; the commit runs without it.  log_write() tests log.lh.n before it *)
(* acquires the lock, so the test and the entry are two steps; the buffer  *)
(* is locked from the change of its data to the end of log_write().        *)
(***************************************************************************)
EXTENDS Integers, Sequences, SequencesExt, FiniteSets

CONSTANTS Procs,        \* processes in file system calls
          Blocks,       \* home blocks of the disk
          Values,       \* contents of a block
          InitialValue, \* its content after mkfs
          NoBlock,      \* no buffer is held
          MAXOPBLOCKS,  \* log slots that begin_op() reserves for a call (param.h: 10)
          OpBlocks,     \* distinct blocks that a call writes at most
          LOGSIZE,      \* entries of the log header (param.h: 30)
          LogBlocks     \* log.size: blocks of the log, its header included (mkfs: 30)

LogAssumption ==
  /\ IsFiniteSet(Procs) /\ IsFiniteSet(Blocks)
  /\ InitialValue \in Values /\ NoBlock \notin Blocks
  /\ MAXOPBLOCKS \in Nat \ {0} /\ LOGSIZE \in Nat \ {0} /\ LogBlocks \in Nat \ {0}
  /\ OpBlocks \in 1 .. MAXOPBLOCKS

ASSUME LogAssumption

OpPoints    == {"idle", "begin", "asleep", "op", "append", "commit"}
CommitSteps == {"none", "start", "write_log", "install", "done"}
BootSteps   == {"up", "read_head", "install"}
Panics      == {"none", "too big a transaction", "log_write outside of trans", "log.committing"}

VARIABLES
  disk,         \* home blocks on disk
  logd,         \* log blocks on disk, the header not counted
  head,         \* the header on disk: block numbers
  cache,        \* the contents that bread() returns
  lh,           \* log.lh
  outstanding,  \* log.outstanding
  committing,   \* log.committing
  pc,           \* where each process is
  used,         \* blocks that the running call of each process has written
  buf,          \* the buffer it holds locked in log_write()
  cpc,          \* commit(): its next step
  tail,         \* blocks copied by the loop that is running
  boot,         \* recover_from_log(): its next step, or "up"
  panicked

diskVars == <<disk, logd, head>>
opVars   == <<pc, used, buf>>
vars == <<diskVars, cache, lh, outstanding, committing, opVars, cpc, tail, boot, panicked>>

TypeOK ==
  /\ disk  \in [Blocks -> Values]
  /\ logd  \in [1 .. LOGSIZE -> Values]
  /\ cache \in [Blocks -> Values]
  /\ \A s \in {head, lh} : s \in Seq(Blocks) /\ Len(s) <= LOGSIZE /\ IsInjective(s)
  /\ outstanding \in Nat
  /\ committing \in BOOLEAN
  /\ pc    \in [Procs -> OpPoints]
  /\ used  \in [Procs -> SUBSET Blocks]
  /\ buf   \in [Procs -> Blocks \cup {NoBlock}]
  /\ cpc   \in CommitSteps
  /\ tail  \in 0 .. LOGSIZE
  /\ boot  \in BootSteps
  /\ panicked \in Panics

\* A fresh file system, mounted.
Init ==
  /\ disk  = [b \in Blocks |-> InitialValue]
  /\ logd  = [i \in 1 .. LOGSIZE |-> InitialValue]
  /\ head  = <<>>
  /\ cache = disk
  /\ lh    = <<>>
  /\ outstanding = 0 /\ committing = FALSE
  /\ pc    = [p \in Procs |-> "idle"]
  /\ used  = [p \in Procs |-> {}]
  /\ buf   = [p \in Procs |-> NoBlock]
  /\ cpc   = "none" /\ tail = 0
  /\ boot  = "up"
  /\ panicked = "none"

-------------------------------------------------------------------------------
(* begin_op(), log_write(), end_op() *)

\* The slots of running calls are not set aside.
Room_noReserve == Len(lh) + MAXOPBLOCKS <= LOGSIZE

\* Every running call, and the new one, may still write MAXOPBLOCKS blocks.
Room == Len(lh) + (outstanding + 1) * MAXOPBLOCKS <= LOGSIZE

begin_op(p) ==
  /\ boot = "up" /\ pc[p] \in {"idle", "begin"}
  /\ IF committing \/ ~Room
     THEN pc' = [pc EXCEPT ![p] = "asleep"] /\ UNCHANGED <<outstanding, used>>
     ELSE /\ pc' = [pc EXCEPT ![p] = "op"]
          /\ used' = [used EXCEPT ![p] = {}]
          /\ outstanding' = outstanding + 1
  /\ UNCHANGED <<diskVars, cache, lh, committing, buf, cpc, tail, boot, panicked>>

\* A call changes a locked buffer and enters log_write(), up to the tests.
modify(p, b, v) ==
  /\ pc[p] = "op"
  /\ \A r \in Procs : buf[r] # b
  /\ Cardinality(used[p] \cup {b}) <= OpBlocks
  /\ cache' = [cache EXCEPT ![b] = v]
  /\ used'  = [used EXCEPT ![p] = @ \cup {b}]
  /\ IF Len(lh) >= LOGSIZE \/ Len(lh) >= LogBlocks - 1
     THEN panicked' = "too big a transaction" /\ UNCHANGED <<pc, buf>>
     ELSE IF outstanding < 1
     THEN panicked' = "log_write outside of trans" /\ UNCHANGED <<pc, buf>>
     ELSE /\ pc'  = [pc EXCEPT ![p] = "append"]
          /\ buf' = [buf EXCEPT ![p] = b]
          /\ UNCHANGED panicked
  /\ UNCHANGED <<diskVars, lh, outstanding, committing, cpc, tail, boot>>

\* Log absorption.
Logged(s, b) == IF Contains(s, b) THEN s ELSE Append(s, b)

\* The rest of log_write(), and brelse().
log_write(p) ==
  /\ pc[p] = "append"
  /\ lh'  = Logged(lh, buf[p])
  /\ pc'  = [pc EXCEPT ![p] = "op"]
  /\ buf' = [buf EXCEPT ![p] = NoBlock]
  /\ UNCHANGED <<diskVars, cache, outstanding, committing, used, cpc, tail, boot, panicked>>

\* wakeup(&log) is forgotten.
Woken_never == pc

\* wakeup(&log)
Woken == [p \in Procs |-> IF pc[p] = "asleep" THEN "begin" ELSE pc[p]]

\* The last call commits; any other tells those who wait for room.
end_op(p) ==
  /\ pc[p] = "op"
  /\ outstanding' = outstanding - 1
  /\ IF committing THEN panicked' = "log.committing" /\ UNCHANGED <<pc, committing, cpc>>
     ELSE IF outstanding = 1
     THEN /\ committing' = TRUE /\ cpc' = "start"
          /\ pc' = [pc EXCEPT ![p] = "commit"]
          /\ UNCHANGED panicked
     ELSE /\ pc' = [Woken EXCEPT ![p] = "idle"]
          /\ UNCHANGED <<committing, cpc, panicked>>
  /\ UNCHANGED <<diskVars, cache, lh, used, buf, tail, boot>>

-------------------------------------------------------------------------------
(* commit(), run by the process that ended the last call *)

commitStarts ==
  /\ cpc = "start"
  /\ cpc' = IF lh = <<>> THEN "done" ELSE "write_log"
  /\ tail' = 0
  /\ UNCHANGED <<diskVars, cache, lh, outstanding, committing, opVars, boot, panicked>>

\* One round of the loop of write_log(): cache block to log block.
write_log ==
  /\ cpc = "write_log" /\ tail < Len(lh)
  /\ logd' = [logd EXCEPT ![tail + 1] = cache[lh[tail + 1]]]
  /\ tail' = tail + 1
  /\ UNCHANGED <<disk, head, cache, lh, outstanding, committing, opVars, cpc, boot, panicked>>

\* The header is written while the log blocks are still on their way.
logComplete_early == cpc = "write_log"

logComplete == cpc = "write_log" /\ tail = Len(lh)

\* write_head(): the transaction commits here.
write_head ==
  /\ logComplete
  /\ head' = lh
  /\ cpc'  = "install" /\ tail' = 0
  /\ UNCHANGED <<disk, logd, cache, lh, outstanding, committing, opVars, boot, panicked>>

\* One round of the loop of install_trans(): log block to home block.
InstallBlock ==
  LET b == lh[tail + 1] IN
  /\ tail < Len(lh)
  /\ disk'  = [disk EXCEPT ![b] = logd[tail + 1]]
  /\ cache' = [cache EXCEPT ![b] = logd[tail + 1]]
  /\ tail'  = tail + 1
  /\ UNCHANGED <<logd, head, lh, outstanding, committing, opVars, cpc, boot, panicked>>

install_trans == cpc = "install" /\ InstallBlock

\* log.lh.n = 0 and write_head().
ClearLog == tail = Len(lh) /\ lh' = <<>> /\ head' = <<>> /\ tail' = 0

clear ==
  /\ cpc = "install" /\ ClearLog
  /\ cpc' = "done"
  /\ UNCHANGED <<disk, logd, cache, outstanding, committing, opVars, boot, panicked>>

committed ==
  /\ cpc = "done"
  /\ cpc' = "none" /\ committing' = FALSE
  /\ pc' = [p \in Procs |-> IF pc[p] = "commit" THEN "idle" ELSE Woken[p]]
  /\ UNCHANGED <<diskVars, cache, lh, outstanding, used, buf, tail, boot, panicked>>

commit == commitStarts \/ write_log \/ write_head \/ install_trans \/ clear \/ committed

-------------------------------------------------------------------------------
(* The machine stops, and recover_from_log() runs: it may be stopped as well. *)

crash ==
  /\ cache' = disk
  /\ lh'    = <<>>
  /\ outstanding' = 0 /\ committing' = FALSE
  /\ pc'    = [p \in Procs |-> "idle"]
  /\ used'  = [p \in Procs |-> {}]
  /\ buf'   = [p \in Procs |-> NoBlock]
  /\ cpc'   = "none" /\ tail' = 0
  /\ boot'  = "read_head"
  /\ UNCHANGED <<diskVars, panicked>>

read_head ==
  /\ boot = "read_head"
  /\ lh'   = head
  /\ boot' = "install" /\ tail' = 0
  /\ UNCHANGED <<diskVars, cache, outstanding, committing, opVars, cpc, panicked>>

recoverInstalls == boot = "install" /\ InstallBlock

recoverClears ==
  /\ boot = "install" /\ ClearLog
  /\ boot' = "up"
  /\ UNCHANGED <<disk, logd, cache, outstanding, committing, opVars, cpc, panicked>>

recover_from_log == read_head \/ recoverInstalls \/ recoverClears

-------------------------------------------------------------------------------
OpStep(p) ==
  \/ begin_op(p) \/ log_write(p) \/ end_op(p)
  \/ \E b \in Blocks, v \in Values : modify(p, b, v)

Next ==
  /\ panicked = "none"
  /\ (\E p \in Procs : OpStep(p)) \/ commit \/ crash \/ recover_from_log

Spec == Init /\ [][Next]_vars

\* A system call writes finitely often and ends; the commit and the recovery go on: the
\* disk answers.
Fairness ==
  /\ \A p \in Procs : /\ WF_vars(panicked = "none" /\ log_write(p))
                       /\ SF_vars(panicked = "none" /\ end_op(p))
  /\ WF_vars(panicked = "none" /\ (commit \/ recover_from_log))
FairSpec == Spec /\ Fairness

-------------------------------------------------------------------------------
(* Properties. *)

\* The disk as the next recovery will leave it.
Recovered ==
  [b \in Blocks |->
     IF Contains(head, b) THEN logd[CHOOSE i \in DOMAIN head : head[i] = b] ELSE disk[b]]

Disk == INSTANCE AtomicDisk WITH
          stable <- Recovered,
          view   <- IF boot = "up" THEN cache ELSE Recovered,
          open   <- {p \in Procs : pc[p] \in {"op", "append"}}

\* The log implements AtomicDisk: wherever the machine stops, in a commit, in an
\* installation or in the recovery from an earlier crash, the calls of the last
\* committed transaction are on disk as a whole and no other write is.
RefinesAtomicDisk == Disk!Spec

\* When nobody is in a call and nothing is being committed, everything written is on
\* its home block and the log is empty: end_op() of the last call does not return before.
QuietIsDurable ==
  boot = "up" /\ outstanding = 0 /\ ~committing =>
    disk = cache /\ lh = <<>> /\ head = <<>>

\* Calls that write fewer blocks than begin_op() reserves never make log_write() panic nor
\* overflow the log, though it tests log.lh.n before it takes log.lock.  For calls that write
\* all of MAXOPBLOCKS it is false: mkfs gives the log LOGSIZE blocks, header included.
NoLogPanic == panicked = "none" /\ Len(lh) <= LOGSIZE /\ Len(lh) <= LogBlocks - 1

\* The log has room for every call that was admitted, and is empty when all have returned.
LogIsConsistent == TypeOK /\ QuietIsDurable /\ NoLogPanic

\* A process asleep in begin_op() is woken again: it never waits for a call that has ended or
\* a commit that is over.
SleeperIsWoken ==
  \A p \in Procs : pc[p] = "asleep" ~> (pc[p] # "asleep" \/ panicked # "none")

-------------------------------------------------------------------------------
(* The inductive invariant behind LogIsConsistent and RefinesAtomicDisk. *)

\* Between begin_op() and end_op().
Open == {p \in Procs : pc[p] \in {"op", "append"}}

\* Each running call is counted once, and what it writes is what it has modified.
CallsCounted ==
  /\ outstanding = Cardinality(Open)
  /\ \A p \in Procs : /\ Cardinality(used[p]) <= OpBlocks
                      /\ buf[p] # NoBlock => pc[p] = "append"
                      /\ pc[p] = "append" => buf[p] \in used[p]

\* The blocks that running calls have in the log, by call.
Charged == {pb \in Open \X Blocks : pb[2] \in used[pb[1]] /\ Contains(lh, pb[2])}

\* n slots of room are set aside for each running call, less those it has already filled.
Reserved(n, room) ==
  /\ Len(head) <= room
  /\ Len(lh) + outstanding * n <= room + Cardinality(Charged)

\* A commit or a recovery is alone, and the log is empty when no call is running.
CommitsAlone ==
  /\ committing <=> cpc # "none"
  /\ committing \/ boot # "up" => outstanding = 0
  /\ committing => boot = "up"
  /\ ~committing /\ boot = "up" /\ outstanding = 0 => lh = <<>>

\* Until the header is written the disk lacks what is in the log or about to be.
WritesAreLogged ==
  /\ boot = "up" /\ cpc \in {"none", "start", "write_log"} => head = <<>>
  /\ panicked = "none" /\ boot = "up" /\ cpc # "install" =>
       \A b \in Blocks : ~Contains(lh, b) /\ (\A p \in Procs : buf[p] # b) => cache[b] = disk[b]

\* The log on disk holds what the loops have copied; then the home blocks do.
LoopsCopy ==
  /\ cpc \in {"write_log", "install"} \/ boot = "install" => tail <= Len(lh)
  /\ cpc = "write_log" => \A i \in 1 .. tail : logd[i] = cache[lh[i]]
  /\ cpc = "install" =>
       /\ \A i \in 1 .. Len(lh) : logd[i] = cache[lh[i]]
       /\ \A b \in Blocks : ~Contains(lh, b) => cache[b] = disk[b]
  /\ cpc = "install" \/ boot = "install" =>
       head = lh /\ \A i \in 1 .. tail : disk[lh[i]] = logd[i]
  /\ cpc = "done" => lh = <<>> /\ head = <<>>
  /\ boot # "up" => cache = disk

\* The only panic that a call can meet, and it is still running then.
OnlyTooBig ==
  /\ panicked \in {"none", "too big a transaction"}
  /\ panicked # "none" => outstanding # 0

\* The conjunction is inductive.
IInv ==
  /\ TypeOK
  /\ CallsCounted
  /\ Reserved(MAXOPBLOCKS, LOGSIZE)
  /\ CommitsAlone
  /\ WritesAreLogged
  /\ LoopsCopy
  /\ OnlyTooBig

\* Calls that write fewer blocks than begin_op() reserves, and a log as long as its header
\* says, with two slots more than one call needs.
CallsFit == OpBlocks < MAXOPBLOCKS /\ OpBlocks + 2 <= LOGSIZE /\ LOGSIZE <= LogBlocks

\* Together with IInv inductive when CallsFit.
FitInv == panicked = "none" /\ Reserved(OpBlocks, LOGSIZE - 2)
===============================================================================
