------------------------------- MODULE LogProofs -------------------------------
(***************************************************************************)
(* The redo log, for every number of processes, blocks and log slots: IInv *)
(* is inductive, the type invariant and QuietIsDurable follow from it, the *)
(* log implements AtomicDisk, and when the calls fit their reservation     *)
(* log_write() never panics.                                               *)
(***************************************************************************)
EXTENDS Log, FiniteSetTheorems, TLAPS

-------------------------------------------------------------------------------
(* Facts about the log header, a sequence without duplicates. *)

\* log_write() enters a block once.
LEMMA LoggedOnce ==
  ASSUME NEW s \in Seq(Blocks), IsInjective(s), NEW b \in Blocks
  PROVE  /\ Logged(s, b) \in Seq(Blocks)
         /\ IsInjective(Logged(s, b))
         /\ Len(Logged(s, b)) = IF Contains(s, b) THEN Len(s) ELSE Len(s) + 1
         /\ \A c : Contains(Logged(s, b), c) <=> Contains(s, c) \/ c = b
<1>1. CASE Contains(s, b)
  BY <1>1 DEF Logged, Contains
<1>2. CASE ~Contains(s, b)
  <2> DEFINE t == Append(s, b)
  <2>1. /\ Logged(s, b) = t
        /\ t \in Seq(Blocks) /\ Len(t) = Len(s) + 1
        /\ \A i \in 1 .. Len(s) : t[i] = s[i]
        /\ t[Len(s) + 1] = b
        /\ DOMAIN t = 1 .. Len(s) + 1 /\ DOMAIN s = 1 .. Len(s)
        /\ Len(s) \in Nat
    BY <1>2 DEF Logged
  <2>2. \A i \in 1 .. Len(s) : s[i] # b
    BY <1>2 DEF Contains
  <2> HIDE DEF t
  <2>3. IsInjective(t)
    BY <2>1, <2>2 DEF IsInjective
  <2>4. \A c : Contains(t, c) <=> Contains(s, c) \/ c = b
    BY <2>1 DEF Contains
  <2> QED BY <1>2, <2>1, <2>3, <2>4
<1> QED BY <1>1, <1>2

\* The slot of a block in the log.
LEMMA SlotOf ==
  ASSUME NEW s, IsInjective(s), NEW i \in DOMAIN s
  PROVE  (CHOOSE j \in DOMAIN s : s[j] = s[i]) = i
BY DEF IsInjective

LEMMA EmptyHeader ==
  /\ <<>> \in Seq(Blocks) /\ Len(<<>>) = 0 /\ IsInjective(<<>>)
  /\ \A b : ~Contains(<<>>, b)
BY DEF IsInjective, Contains

-------------------------------------------------------------------------------
(* Counting the slots that running calls have filled. *)

\* A set of pairs with at most n second components for each first one.
LEMMA FewPairs ==
  ASSUME NEW S, IsFiniteSet(S), NEW T, IsFiniteSet(T), NEW n \in Nat,
         NEW u \in [S -> SUBSET T], \A x \in S : Cardinality(u[x]) <= n
  PROVE  LET R == {xy \in S \X T : xy[2] \in u[xy[1]]}
         IN  IsFiniteSet(R) /\ Cardinality(R) <= Cardinality(S) * n
<1> DEFINE R == {xy \in S \X T : xy[2] \in u[xy[1]]}
           N == 1 .. n
           F(x) == CHOOSE f \in [u[x] -> N] : \A y, z \in u[x] : f[y] = f[z] => y = z
           g == [xy \in R |-> <<xy[1], F(xy[1])[xy[2]]>>]
<1>1. ASSUME NEW x \in S
      PROVE  F(x) \in [u[x] -> N] /\ \A y, z \in u[x] : F(x)[y] = F(x)[z] => y = z
  <2>1. IsFiniteSet(u[x]) /\ Cardinality(u[x]) \in Nat
    BY FS_Subset, FS_CardinalityType
  <2>2. PICK h : h \in Bijection(1 .. Cardinality(u[x]), u[x])
    BY <2>1, FS_CardinalityType DEF ExistsBijection
  <2> DEFINE f == [y \in u[x] |-> CHOOSE i \in 1 .. Cardinality(u[x]) : h[i] = y]
  <2>3. \A y \in u[x] : \E i \in 1 .. Cardinality(u[x]) : h[i] = y
    BY <2>2 DEF Bijection, Surjection
  <2>4. \A y \in u[x] : f[y] \in 1 .. Cardinality(u[x]) /\ h[f[y]] = y
    BY <2>3
  <2>5. 1 .. Cardinality(u[x]) \subseteq N
    BY <2>1
  <2> HIDE DEF N
  <2>6. f \in [u[x] -> N]
    BY <2>4, <2>5
  <2>7. \A y, z \in u[x] : f[y] = f[z] => y = z
    BY <2>4
  <2>8. \E ff \in [u[x] -> N] : \A y, z \in u[x] : ff[y] = ff[z] => y = z
    BY <2>6, <2>7, Zenon
  <2> QED BY <2>8, Zenon
<1>2. IsFiniteSet(N) /\ Cardinality(N) = n
  BY FS_Interval
<1>3. IsFiniteSet(S \X N) /\ Cardinality(S \X N) = Cardinality(S) * n
  BY <1>2, FS_Product
<1>4. g \in Injection(R, S \X N)
  <2> HIDE DEF F, N
  <2>1. ASSUME NEW r \in R
        PROVE  /\ g[r] = <<r[1], F(r[1])[r[2]]>>
               /\ r[1] \in S /\ r[2] \in u[r[1]] /\ r = <<r[1], r[2]>>
               /\ F(r[1])[r[2]] \in N
    BY <1>1
  <2>2. g \in [R -> S \X N]
    BY <2>1
  <2>3. ASSUME NEW q \in R, NEW r \in R, g[q] = g[r] PROVE q = r
    <3>1. q[1] = r[1] /\ F(q[1])[q[2]] = F(r[1])[r[2]]
      BY <2>1, <2>3
    <3>2. q[2] = r[2]
      BY <2>1, <3>1, <1>1
    <3> QED BY <2>1, <3>1, <3>2
  <2> HIDE DEF g
  <2> QED BY <2>2, <2>3 DEF Injection, IsInjective
<1>5. IsFiniteSet(R) /\ Cardinality(R) <= Cardinality(S \X N)
  <2> HIDE DEF R, N, g
  <2> QED BY <1>3, <1>4, FS_Injection
<1> QED BY <1>3, <1>5

LEMMA ProductMonotone ==
  ASSUME NEW o \in Nat, NEW a \in Nat, NEW b \in Nat, a <= b
  PROVE  o * a \in Nat /\ o * a <= o * b
<1>1. PICK d \in Nat : b = a + d
  <2>1. b = a + (b - a) /\ b - a \in Nat
    OBVIOUS
  <2> QED BY <2>1
<1>2. o * (a + d) = o * a + o * d
  OBVIOUS
<1>3. o * a \in Nat /\ o * d \in Nat
  OBVIOUS
<1> QED BY <1>1, <1>2, <1>3

\* The calls of O fill at most OpBlocks slots each.
LEMMA ChargedBound ==
  ASSUME LogAssumption, NEW O \in SUBSET Procs, NEW u \in [Procs -> SUBSET Blocks],
         \A p \in Procs : Cardinality(u[p]) <= OpBlocks,
         NEW R, R \subseteq {xy \in O \X Blocks : xy[2] \in u[xy[1]]}
  PROVE  /\ IsFiniteSet(O) /\ Cardinality(O) \in Nat
         /\ IsFiniteSet(R) /\ Cardinality(R) \in Nat
         /\ Cardinality(R) <= Cardinality(O) * OpBlocks
<1> DEFINE v == [p \in O |-> u[p]]
           W == {xy \in O \X Blocks : xy[2] \in v[xy[1]]}
<1>1. IsFiniteSet(O) /\ Cardinality(O) \in Nat /\ IsFiniteSet(Blocks) /\ OpBlocks \in Nat
  BY FS_Subset, FS_CardinalityType DEF LogAssumption
<1>2. v \in [O -> SUBSET Blocks] /\ \A p \in O : Cardinality(v[p]) <= OpBlocks
  OBVIOUS
<1>3. R \subseteq W
  <2>1. \A xy \in O \X Blocks : v[xy[1]] = u[xy[1]]
    OBVIOUS
  <2> QED BY <2>1
<1>4. IsFiniteSet(W) /\ Cardinality(W) <= Cardinality(O) * OpBlocks
  <2> HIDE DEF v
  <2> QED BY <1>1, <1>2, FewPairs
<1>5. IsFiniteSet(R) /\ Cardinality(R) <= Cardinality(W)
  <2> HIDE DEF W
  <2> QED BY <1>3, <1>4, FS_Subset
<1>6. Cardinality(R) \in Nat /\ Cardinality(W) \in Nat /\ Cardinality(O) * OpBlocks \in Int
  <2> HIDE DEF W
  <2>1. Cardinality(R) \in Nat /\ Cardinality(W) \in Nat
    BY <1>4, <1>5, FS_CardinalityType
  <2> QED BY <2>1, <1>1
<1> HIDE DEF W
<1> QED BY <1>1, <1>4, <1>5, <1>6

LEMMA ChargedNow ==
  ASSUME LogAssumption, IInv
  PROVE  /\ Open \in SUBSET Procs /\ IsFiniteSet(Open)
         /\ IsFiniteSet(Charged) /\ Cardinality(Charged) \in Nat
         /\ Cardinality(Charged) <= outstanding * OpBlocks
<1>1. Open \in SUBSET Procs
  BY DEF Open
<1>2. Charged \subseteq {xy \in Open \X Blocks : xy[2] \in used[xy[1]]}
  BY DEF Charged
<1>3. /\ used \in [Procs -> SUBSET Blocks]
      /\ \A p \in Procs : Cardinality(used[p]) <= OpBlocks
      /\ outstanding = Cardinality(Open)
  BY DEF IInv, TypeOK, CallsCounted
<1> QED BY <1>1, <1>2, <1>3, ChargedBound

\* Room for what running calls may still write is room for what is in the log.
LEMMA LogFits ==
  ASSUME LogAssumption, NEW n \in Nat, OpBlocks <= n, NEW room \in Int,
         NEW o \in Nat, NEW c \in Nat, NEW k \in Nat,
         c <= o * OpBlocks, k + o * n <= room + c
  PROVE  k <= room
<1>1. o * OpBlocks \in Nat /\ o * OpBlocks <= o * n /\ o * n \in Nat
  <2>1. OpBlocks \in Nat
    BY DEF LogAssumption
  <2> QED BY <2>1, ProductMonotone
<1> QED BY <1>1

\* Without a running call nothing is charged and no buffer is held.
LEMMA NobodyOpen ==
  ASSUME LogAssumption, IInv, outstanding = 0
  PROVE  /\ Open = {} /\ Charged = {} /\ Cardinality(Charged) = 0
         /\ \A p \in Procs : pc[p] \notin {"op", "append"} /\ buf[p] = NoBlock
<1>1. Open = {}
  BY ChargedNow, FS_EmptySet DEF IInv, CallsCounted
<1>2. Charged = {}
  BY <1>1 DEF Charged
<1>3. \A p \in Procs : pc[p] \notin {"op", "append"}
  BY <1>1 DEF Open
<1> QED BY <1>1, <1>2, <1>3, FS_EmptySet DEF IInv, CallsCounted

\* A process in a call has the log to itself and to other calls.
LEMMA CallIsOpen ==
  ASSUME LogAssumption, IInv, NEW p \in Procs, pc[p] \in {"op", "append"}
  PROVE  /\ p \in Open /\ outstanding >= 1 /\ outstanding \in Nat
         /\ ~committing /\ cpc = "none" /\ boot = "up" /\ head = <<>>
<1>1. p \in Open
  BY DEF Open
<1>2. outstanding # 0
  BY <1>1, NobodyOpen
<1>3. outstanding \in Nat
  BY DEF IInv, TypeOK
<1>4. ~committing /\ cpc = "none" /\ boot = "up"
  BY <1>2 DEF IInv, CommitsAlone
<1> QED BY <1>1, <1>2, <1>3, <1>4 DEF IInv, WritesAreLogged

-------------------------------------------------------------------------------
(* The commit and the recovery: no call is running. *)

LEMMA QuietStep ==
  ASSUME LogAssumption, IInv, commit \/ recover_from_log
  PROVE  /\ outstanding = 0 /\ UNCHANGED <<outstanding, used, buf, panicked>>
         /\ Open = {} /\ Open' = {}
         /\ Charged = {} /\ Charged' = {}
         /\ \A p \in Procs : buf[p] = NoBlock
         /\ pc' \in [Procs -> OpPoints]
         /\ lh' \in {lh, head, <<>>} /\ head' \in {lh, head, <<>>}
<1>1. outstanding = 0
  BY DEF commit, recover_from_log, commitStarts, write_log, write_head, logComplete,
         install_trans, clear, committed, read_head, recoverInstalls, recoverClears,
         IInv, CommitsAlone
<1>2. UNCHANGED <<outstanding, used, buf, panicked>>
  BY DEF commit, recover_from_log, commitStarts, write_log, write_head, install_trans, clear,
         committed, read_head, recoverInstalls, recoverClears, InstallBlock, ClearLog, opVars
<1>3. /\ lh' \in {lh, head, <<>>} /\ head' \in {lh, head, <<>>}
  BY DEF commit, recover_from_log, commitStarts, write_log, write_head, install_trans, clear,
         committed, read_head, recoverInstalls, recoverClears, InstallBlock, ClearLog, diskVars
<1>4. \/ pc' = pc
      \/ pc' = [p \in Procs |-> IF pc[p] = "commit" THEN "idle" ELSE Woken[p]]
  BY DEF commit, recover_from_log, commitStarts, write_log, write_head, install_trans, clear,
         committed, read_head, recoverInstalls, recoverClears, InstallBlock, ClearLog, opVars
<1>5. pc' \in [Procs -> OpPoints] /\ \A p \in Procs : pc'[p] \in {"op", "append"} =>
                                                      pc[p] \in {"op", "append"}
  BY <1>4 DEF Woken, IInv, TypeOK, OpPoints
<1>6. Open = {} /\ Charged = {} /\ \A p \in Procs : buf[p] = NoBlock
  BY <1>1, NobodyOpen
<1>7. Open' = {}
  BY <1>5, <1>6 DEF Open
<1>8. Charged' = {}
  BY <1>7 DEF Charged
<1> QED BY <1>1, <1>2, <1>3, <1>5, <1>6, <1>7, <1>8

LEMMA QuietCounts ==
  ASSUME LogAssumption, IInv, commit \/ recover_from_log
  PROVE  CallsCounted'
<1>1. /\ outstanding' = 0 /\ Open' = {} /\ used' = used
      /\ \A p \in Procs : buf'[p] = NoBlock
  BY QuietStep
<1>2. \A p \in Procs : pc'[p] # "append"
  BY <1>1 DEF Open
<1>3. \A p \in Procs : Cardinality(used[p]) <= OpBlocks
  BY DEF IInv, CallsCounted
<1> QED BY <1>1, <1>2, <1>3, FS_EmptySet DEF CallsCounted

LEMMA QuietReserved ==
  ASSUME LogAssumption, IInv, commit \/ recover_from_log,
         NEW n \in Nat, NEW room \in Int, Reserved(n, room)
  PROVE  Reserved(n, room)'
<1>1. /\ outstanding = 0 /\ outstanding' = 0 /\ Charged = {} /\ Charged' = {}
      /\ lh' \in {lh, head, <<>>} /\ head' \in {lh, head, <<>>}
  BY QuietStep
<1>2. Cardinality(Charged) = 0 /\ Cardinality(Charged') = 0
  BY <1>1, FS_EmptySet
<1>3. Len(lh) \in Nat /\ Len(head) \in Nat /\ Len(<<>>) = 0
  BY DEF IInv, TypeOK
<1>4. Len(head) <= room /\ Len(lh) <= room
  BY <1>1, <1>2, <1>3 DEF Reserved
<1>5. Len(head') <= room /\ Len(lh') <= room /\ Len(lh') \in Nat
  BY <1>1, <1>3, <1>4
<1> QED BY <1>1, <1>2, <1>5 DEF Reserved

\* What one round of install_trans() copies.
LEMMA InstallFacts ==
  ASSUME LogAssumption, IInv, InstallBlock
  PROVE  /\ tail + 1 \in 1 .. Len(lh) /\ tail + 1 \in 1 .. LOGSIZE
         /\ lh[tail + 1] \in Blocks /\ logd[tail + 1] \in Values
         /\ disk' \in [Blocks -> Values] /\ cache' \in [Blocks -> Values]
         /\ \A b \in Blocks :
              /\ disk'[b]  = IF b = lh[tail + 1] THEN logd[tail + 1] ELSE disk[b]
              /\ cache'[b] = IF b = lh[tail + 1] THEN logd[tail + 1] ELSE cache[b]
         /\ tail' = tail + 1
         /\ UNCHANGED <<logd, head, lh, outstanding, committing, opVars, cpc, boot, panicked>>
<1>1. /\ tail \in 0 .. LOGSIZE /\ lh \in Seq(Blocks) /\ Len(lh) <= LOGSIZE /\ tail < Len(lh)
      /\ LOGSIZE \in Nat
      /\ logd \in [1 .. LOGSIZE -> Values]
      /\ disk \in [Blocks -> Values] /\ cache \in [Blocks -> Values]
  BY DEF InstallBlock, IInv, TypeOK, LogAssumption
<1>2. tail + 1 \in 1 .. Len(lh) /\ tail + 1 \in 1 .. LOGSIZE
  BY <1>1
<1>3. lh[tail + 1] \in Blocks /\ logd[tail + 1] \in Values
  BY <1>1, <1>2
<1> QED BY <1>1, <1>2, <1>3 DEF InstallBlock

LEMMA QuietTypes ==
  ASSUME LogAssumption, IInv, commit \/ recover_from_log
  PROVE  TypeOK'
<1>1. \A s \in {head', lh'} : s \in Seq(Blocks) /\ Len(s) <= LOGSIZE /\ IsInjective(s)
  <2>1. lh' \in {lh, head, <<>>} /\ head' \in {lh, head, <<>>}
    BY QuietStep
  <2>2. \A s \in {head, lh, <<>>} : s \in Seq(Blocks) /\ Len(s) <= LOGSIZE /\ IsInjective(s)
    <3>1. \A s \in {head, lh} : s \in Seq(Blocks) /\ Len(s) <= LOGSIZE /\ IsInjective(s)
      BY DEF IInv, TypeOK
    <3>2. 0 <= LOGSIZE
      BY DEF LogAssumption
    <3> QED BY <3>1, <3>2, EmptyHeader
  <2> QED BY <2>1, <2>2
<1>2. /\ outstanding' \in Nat
      /\ pc' \in [Procs -> OpPoints]
      /\ used' \in [Procs -> SUBSET Blocks]
      /\ buf' \in [Procs -> Blocks \cup {NoBlock}]
      /\ panicked' \in Panics
  BY QuietStep DEF IInv, TypeOK
<1>3. /\ disk' \in [Blocks -> Values] /\ cache' \in [Blocks -> Values]
      /\ logd' \in [1 .. LOGSIZE -> Values]
  <2>1. CASE InstallBlock
    BY <2>1, InstallFacts DEF IInv, TypeOK
  <2>2. CASE write_log
    <3>1. /\ tail \in 0 .. LOGSIZE /\ lh \in Seq(Blocks) /\ Len(lh) <= LOGSIZE /\ tail < Len(lh)
          /\ LOGSIZE \in Nat
      BY <2>2 DEF write_log, IInv, TypeOK, LogAssumption
    <3>2. lh[tail + 1] \in Blocks
      BY <3>1
    <3> QED BY <2>2, <3>2 DEF write_log, IInv, TypeOK
  <2>3. CASE UNCHANGED <<disk, logd, cache>>
    BY <2>3 DEF IInv, TypeOK
  <2> QED BY <2>1, <2>2, <2>3
          DEF commit, recover_from_log, commitStarts, write_head, install_trans, clear,
              committed, read_head, recoverInstalls, recoverClears, diskVars
<1>4. /\ committing' \in BOOLEAN /\ cpc' \in CommitSteps /\ boot' \in BootSteps
  BY DEF IInv, TypeOK, CommitSteps, BootSteps,
         commit, recover_from_log, commitStarts, write_log, write_head, install_trans, clear,
         committed, read_head, recoverInstalls, recoverClears, InstallBlock, ClearLog
<1>5. tail' \in 0 .. LOGSIZE
  <2>1. tail \in 0 .. LOGSIZE /\ Len(lh) <= LOGSIZE /\ LOGSIZE \in Nat /\ Len(lh) \in Nat
    BY DEF IInv, TypeOK, LogAssumption
  <2>2. ASSUME write_log \/ InstallBlock PROVE tail' = tail + 1 /\ tail < Len(lh)
    BY <2>2 DEF write_log, InstallBlock
  <2>3. ASSUME commitStarts \/ write_head \/ ClearLog \/ read_head PROVE tail' = 0
    BY <2>3 DEF commitStarts, write_head, ClearLog, read_head
  <2>4. ASSUME committed PROVE tail' = tail
    BY <2>4 DEF committed
  <2> QED BY <2>1, <2>2, <2>3, <2>4
          DEF commit, recover_from_log, install_trans, clear, recoverInstalls, recoverClears
<1> QED BY <1>1, <1>2, <1>3, <1>4, <1>5 DEF TypeOK

LEMMA QuietAlone ==
  ASSUME LogAssumption, IInv, commit \/ recover_from_log
  PROVE  CommitsAlone' /\ OnlyTooBig'
<1>1. outstanding' = 0 /\ panicked' = panicked /\ outstanding = 0
  BY QuietStep
<1>2. OnlyTooBig'
  BY <1>1 DEF IInv, OnlyTooBig
<1>3. CommitsAlone'
  <2>1. CASE commit /\ ~committed
    <3>1. cpc # "none" /\ cpc' # "none" /\ committing' = committing /\ boot' = boot
      BY <2>1 DEF commit, commitStarts, write_log, write_head, logComplete, install_trans, clear,
                  InstallBlock
    <3> QED BY <1>1, <3>1 DEF IInv, CommitsAlone
  <2>2. CASE committed
    BY <1>1, <2>2 DEF committed, IInv, CommitsAlone, LoopsCopy
  <2>3. CASE recover_from_log
    <3>1. /\ boot # "up" /\ cpc' = cpc /\ committing' = committing
          /\ boot' = "up" => lh' = <<>>
      BY <2>3 DEF recover_from_log, read_head, recoverInstalls, recoverClears, InstallBlock,
                  ClearLog
    <3> QED BY <1>1, <3>1 DEF IInv, CommitsAlone
  <2> QED BY <2>1, <2>2, <2>3
<1> QED BY <1>2, <1>3

\* A commit whose log is complete has copied every block that differs from its home.
LEMMA NothingElseDiffers ==
  ASSUME LogAssumption, IInv, outstanding = 0, boot = "up", cpc # "install",
         NEW b \in Blocks, ~Contains(lh, b)
  PROVE  cache[b] = disk[b]
<1>1. \A p \in Procs : buf[p] # b
  BY NobodyOpen DEF LogAssumption
<1>2. panicked = "none"
  BY DEF IInv, OnlyTooBig
<1> QED BY <1>1, <1>2 DEF IInv, WritesAreLogged

\* When install_trans() is through, the home blocks agree with the cache.
LEMMA InstalledAll ==
  ASSUME LogAssumption, IInv, cpc = "install" \/ boot = "install", tail = Len(lh),
         NEW b \in Blocks
  PROVE  cache[b] = disk[b]
<1>1. CASE boot = "install"
  BY <1>1 DEF IInv, LoopsCopy
<1>2. CASE cpc = "install" /\ ~Contains(lh, b)
  BY <1>2 DEF IInv, LoopsCopy
<1>3. CASE cpc = "install" /\ Contains(lh, b)
  <2>1. PICK i \in 1 .. Len(lh) : lh[i] = b
    BY <1>3 DEF Contains
  <2>2. disk[b] = logd[i] /\ logd[i] = cache[b]
    BY <1>3, <2>1 DEF IInv, LoopsCopy
  <2> QED BY <2>2
<1> QED BY <1>1, <1>2, <1>3

LEMMA CommitStartsKeeps ==
  ASSUME LogAssumption, IInv, commitStarts
  PROVE  WritesAreLogged' /\ LoopsCopy'
<1>1. /\ cpc = "start" /\ tail' = 0 /\ UNCHANGED <<disk, logd, head, cache, lh, buf, boot, panicked>>
      /\ cpc' = IF lh = <<>> THEN "done" ELSE "write_log"
  BY DEF commitStarts, diskVars, opVars
<1>2. boot = "up" /\ Len(lh) \in Nat
  BY <1>1 DEF IInv, TypeOK, CommitsAlone
<1>3. WritesAreLogged'
  BY <1>1, <1>2 DEF IInv, WritesAreLogged, Contains
<1>4. LoopsCopy'
  <2>1. head = <<>>
    BY <1>1, <1>2 DEF IInv, WritesAreLogged
  <2> QED BY <1>1, <1>2, <2>1 DEF LoopsCopy
<1> QED BY <1>3, <1>4

LEMMA WriteLogKeeps ==
  ASSUME LogAssumption, IInv, write_log
  PROVE  WritesAreLogged' /\ LoopsCopy'
<1>1. /\ cpc = "write_log" /\ tail < Len(lh) /\ tail' = tail + 1
      /\ UNCHANGED <<disk, head, cache, lh, buf, cpc, boot, panicked>>
      /\ logd' = [logd EXCEPT ![tail + 1] = cache[lh[tail + 1]]]
  BY DEF write_log, opVars
<1>2. /\ boot = "up" /\ Len(lh) \in Nat /\ tail \in Nat /\ Len(lh) <= LOGSIZE /\ LOGSIZE \in Nat
      /\ logd \in [1 .. LOGSIZE -> Values]
  BY <1>1 DEF IInv, TypeOK, CommitsAlone, LogAssumption
<1>3. WritesAreLogged'
  BY <1>1 DEF IInv, WritesAreLogged, Contains
<1>4. \A i \in 1 .. tail + 1 : logd'[i] = cache[lh[i]]
  <2>1. \A i \in 1 .. tail : logd[i] = cache[lh[i]]
    BY <1>1 DEF IInv, LoopsCopy
  <2>2. \A i \in 1 .. LOGSIZE : logd'[i] = IF i = tail + 1 THEN cache[lh[tail + 1]] ELSE logd[i]
    BY <1>1, <1>2
  <2>3. \A i \in 1 .. tail + 1 : i \in 1 .. LOGSIZE /\ (i = tail + 1 \/ i \in 1 .. tail)
    BY <1>1, <1>2
  <2> QED BY <2>1, <2>2, <2>3
<1>5. LoopsCopy'
  BY <1>1, <1>2, <1>4 DEF LoopsCopy
<1> QED BY <1>3, <1>5

LEMMA WriteHeadKeeps ==
  ASSUME LogAssumption, IInv, write_head
  PROVE  WritesAreLogged' /\ LoopsCopy'
<1>1. /\ cpc = "write_log" /\ tail = Len(lh) /\ tail' = 0 /\ head' = lh /\ cpc' = "install"
      /\ UNCHANGED <<disk, logd, cache, lh, buf, boot, panicked>>
  BY DEF write_head, logComplete, opVars
<1>2. boot = "up" /\ outstanding = 0 /\ Len(lh) \in Nat
  BY <1>1 DEF IInv, TypeOK, CommitsAlone
<1>3. \A i \in 1 .. Len(lh) : logd[i] = cache[lh[i]]
  BY <1>1 DEF IInv, LoopsCopy
<1>4. \A b \in Blocks : ~Contains(lh, b) => cache[b] = disk[b]
  BY <1>1, <1>2, NothingElseDiffers
<1>5. WritesAreLogged'
  BY <1>1 DEF WritesAreLogged
<1>6. LoopsCopy'
  BY <1>1, <1>2, <1>3, <1>4 DEF LoopsCopy, Contains
<1> QED BY <1>5, <1>6

\* A home block is written once, and then holds what its log block does.
LEMMA InstalledSoFar ==
  ASSUME LogAssumption, IInv, InstallBlock, cpc = "install" \/ boot = "install"
  PROVE  /\ head = lh /\ tail' <= Len(lh)
         /\ \A i \in 1 .. tail' : disk'[lh[i]] = logd[i]
<1>1. /\ tail + 1 \in 1 .. Len(lh) /\ tail' = tail + 1 /\ tail \in Nat
      /\ lh \in Seq(Blocks) /\ IsInjective(lh)
      /\ \A b \in Blocks : disk'[b] = IF b = lh[tail + 1] THEN logd[tail + 1] ELSE disk[b]
  BY InstallFacts DEF IInv, TypeOK
<1>2. head = lh /\ \A i \in 1 .. tail : disk[lh[i]] = logd[i]
  BY DEF IInv, LoopsCopy
<1>3. \A i \in 1 .. tail + 1 : i \in 1 .. Len(lh) /\ (i = tail + 1 \/ i \in 1 .. tail)
  BY <1>1
<1>4. \A i \in 1 .. Len(lh) : lh[i] \in Blocks /\ (lh[i] = lh[tail + 1] => i = tail + 1)
  BY <1>1 DEF IsInjective
<1>5. ASSUME NEW i \in 1 .. tail + 1 PROVE disk'[lh[i]] = logd[i]
  BY <1>1, <1>2, <1>3, <1>4
<1> QED BY <1>1, <1>2, <1>5

LEMMA InstallTransKeeps ==
  ASSUME LogAssumption, IInv, install_trans
  PROVE  cache' = cache /\ WritesAreLogged' /\ LoopsCopy'
<1>1. cpc = "install" /\ boot = "up" /\ InstallBlock
  BY DEF install_trans, IInv, CommitsAlone
<1>2. /\ UNCHANGED <<logd, head, lh, cpc, boot>>
      /\ tail + 1 \in 1 .. Len(lh) /\ lh[tail + 1] \in Blocks
      /\ \A b \in Blocks :
              /\ disk'[b]  = IF b = lh[tail + 1] THEN logd[tail + 1] ELSE disk[b]
              /\ cache'[b] = IF b = lh[tail + 1] THEN logd[tail + 1] ELSE cache[b]
      /\ cache' \in [Blocks -> Values] /\ cache \in [Blocks -> Values]
  BY <1>1, InstallFacts DEF IInv, TypeOK
<1>3. /\ \A i \in 1 .. Len(lh) : logd[i] = cache[lh[i]]
      /\ \A b \in Blocks : ~Contains(lh, b) => cache[b] = disk[b]
  BY <1>1 DEF IInv, LoopsCopy
<1>4. cache' = cache
  <2>1. \A b \in Blocks : cache'[b] = cache[b]
    BY <1>2, <1>3
  <2> QED BY <1>2, <2>1
<1>5. \A b \in Blocks : ~Contains(lh, b) => cache[b] = disk'[b]
  <2>1. Contains(lh, lh[tail + 1])
    BY <1>2 DEF Contains
  <2> QED BY <1>2, <1>3, <2>1
<1>6. WritesAreLogged'
  BY <1>1, <1>2 DEF WritesAreLogged
<1>7. LoopsCopy'
  BY <1>1, <1>2, <1>3, <1>4, <1>5, InstalledSoFar DEF LoopsCopy, Contains
<1> QED BY <1>4, <1>6, <1>7

LEMMA ClearKeeps ==
  ASSUME LogAssumption, IInv, clear \/ recoverClears
  PROVE  WritesAreLogged' /\ LoopsCopy'
<1>1. /\ cpc = "install" \/ boot = "install"
      /\ tail = Len(lh) /\ tail' = 0 /\ lh' = <<>> /\ head' = <<>>
      /\ UNCHANGED <<disk, logd, cache, buf, panicked>>
      /\ cpc' # "install" /\ boot' = "up" /\ cpc' # "write_log"
  BY DEF clear, recoverClears, ClearLog, opVars, IInv, CommitsAlone
<1>2. \A b \in Blocks : cache[b] = disk[b]
  BY <1>1, InstalledAll
<1>3. WritesAreLogged'
  BY <1>1, <1>2 DEF WritesAreLogged
<1>4. LoopsCopy'
  BY <1>1 DEF LoopsCopy
<1> QED BY <1>3, <1>4

LEMMA CommittedKeeps ==
  ASSUME LogAssumption, IInv, committed
  PROVE  WritesAreLogged' /\ LoopsCopy'
<1>1. /\ cpc = "done" /\ cpc' = "none"
      /\ UNCHANGED <<disk, logd, head, cache, lh, buf, tail, boot, panicked>>
  BY DEF committed, diskVars
<1>2. boot = "up" /\ head = <<>>
  BY <1>1 DEF IInv, CommitsAlone, LoopsCopy
<1>3. WritesAreLogged'
  BY <1>1, <1>2 DEF IInv, WritesAreLogged, Contains
<1>4. LoopsCopy'
  BY <1>1, <1>2 DEF LoopsCopy
<1> QED BY <1>3, <1>4

LEMMA ReadHeadKeeps ==
  ASSUME LogAssumption, IInv, read_head
  PROVE  WritesAreLogged' /\ LoopsCopy'
<1>1. /\ boot = "read_head" /\ boot' = "install" /\ tail' = 0 /\ lh' = head
      /\ UNCHANGED <<disk, logd, head, cache, cpc>>
  BY DEF read_head, diskVars
<1>2. cpc = "none" /\ cache = disk /\ Len(head) \in Nat
  BY <1>1 DEF IInv, TypeOK, CommitsAlone, LoopsCopy
<1>3. WritesAreLogged'
  BY <1>1 DEF WritesAreLogged
<1>4. LoopsCopy'
  BY <1>1, <1>2 DEF LoopsCopy
<1> QED BY <1>3, <1>4

LEMMA RecoverInstallsKeeps ==
  ASSUME LogAssumption, IInv, recoverInstalls
  PROVE  WritesAreLogged' /\ LoopsCopy'
<1>1. boot = "install" /\ InstallBlock
  BY DEF recoverInstalls
<1>2. /\ UNCHANGED <<logd, head, lh, cpc, boot>>
      /\ \A b \in Blocks :
              /\ disk'[b]  = IF b = lh[tail + 1] THEN logd[tail + 1] ELSE disk[b]
              /\ cache'[b] = IF b = lh[tail + 1] THEN logd[tail + 1] ELSE cache[b]
      /\ cache' \in [Blocks -> Values] /\ disk' \in [Blocks -> Values]
  BY <1>1, InstallFacts
<1>3. cpc = "none" /\ cache = disk
  BY <1>1 DEF IInv, CommitsAlone, LoopsCopy
<1>4. cache' = disk'
  BY <1>2, <1>3
<1>5. WritesAreLogged'
  BY <1>1, <1>2 DEF WritesAreLogged
<1>6. LoopsCopy'
  BY <1>1, <1>2, <1>3, <1>4, InstalledSoFar DEF LoopsCopy
<1> QED BY <1>5, <1>6

LEMMA QuietInv ==
  ASSUME LogAssumption, IInv, commit \/ recover_from_log
  PROVE  IInv'
<1>1. WritesAreLogged' /\ LoopsCopy'
  BY CommitStartsKeeps, WriteLogKeeps, WriteHeadKeeps, InstallTransKeeps, ClearKeeps,
     CommittedKeeps, ReadHeadKeeps, RecoverInstallsKeeps DEF commit, recover_from_log
<1>2. Reserved(MAXOPBLOCKS, LOGSIZE)'
  BY QuietReserved DEF IInv, LogAssumption
<1> QED BY <1>1, <1>2, QuietTypes, QuietCounts, QuietAlone DEF IInv

-------------------------------------------------------------------------------
(* A crash, and the calls. *)

LEMMA CrashReserved ==
  ASSUME LogAssumption, IInv, crash, NEW n \in Nat, NEW room \in Int, Reserved(n, room)
  PROVE  Open' = {} /\ Reserved(n, room)'
<1>1. lh' = <<>> /\ head' = head /\ outstanding' = 0 /\ pc' = [p \in Procs |-> "idle"]
  BY DEF crash, diskVars
<1>2. Open' = {}
  BY <1>1 DEF Open
<1>3. Charged' = {}
  BY <1>2 DEF Charged
<1>4. Len(head) \in Nat /\ Len(head) <= room
  BY DEF IInv, TypeOK, Reserved
<1> QED BY <1>1, <1>2, <1>3, <1>4, FS_EmptySet DEF Reserved

LEMMA CrashInv ==
  ASSUME LogAssumption, IInv, panicked = "none", crash
  PROVE  IInv'
<1>1. /\ cache' = disk /\ lh' = <<>> /\ outstanding' = 0 /\ committing' = FALSE
      /\ pc' = [p \in Procs |-> "idle"] /\ used' = [p \in Procs |-> {}]
      /\ buf' = [p \in Procs |-> NoBlock]
      /\ cpc' = "none" /\ tail' = 0 /\ boot' = "read_head"
      /\ UNCHANGED <<disk, logd, head, panicked>>
  BY DEF crash, diskVars
<1>2. TypeOK'
  <2>1. \A s \in {head', lh'} : s \in Seq(Blocks) /\ Len(s) <= LOGSIZE /\ IsInjective(s)
    <3>1. 0 <= LOGSIZE
      BY DEF LogAssumption
    <3> QED BY <1>1, <3>1, EmptyHeader DEF IInv, TypeOK
  <2>2. 0 \in 0 .. LOGSIZE
    BY DEF LogAssumption
  <2>3. /\ pc' \in [Procs -> OpPoints] /\ used' \in [Procs -> SUBSET Blocks]
        /\ buf' \in [Procs -> Blocks \cup {NoBlock}]
        /\ cpc' \in CommitSteps /\ boot' \in BootSteps /\ committing' \in BOOLEAN
        /\ outstanding' \in Nat
    BY <1>1 DEF OpPoints, CommitSteps, BootSteps
  <2> QED BY <1>1, <2>1, <2>2, <2>3 DEF IInv, TypeOK
<1>3. CallsCounted'
  <2>1. Open' = {}
    BY <1>1 DEF Open
  <2>2. OpBlocks \in Nat
    BY DEF LogAssumption
  <2>3. \A p \in Procs : used'[p] = {} /\ pc'[p] = "idle" /\ buf'[p] = NoBlock
    BY <1>1
  <2> QED BY <1>1, <2>1, <2>2, <2>3, FS_EmptySet DEF CallsCounted
<1>4. Reserved(MAXOPBLOCKS, LOGSIZE)'
  BY CrashReserved DEF IInv, LogAssumption
<1>5. CommitsAlone' /\ WritesAreLogged' /\ LoopsCopy'
  <2>1. CommitsAlone'
    BY <1>1 DEF CommitsAlone
  <2>2. WritesAreLogged'
    BY <1>1 DEF WritesAreLogged
  <2>3. LoopsCopy'
    BY <1>1 DEF LoopsCopy
  <2> QED BY <2>1, <2>2, <2>3
<1>6. OnlyTooBig'
  BY <1>1 DEF IInv, OnlyTooBig
<1> QED BY <1>2, <1>3, <1>4, <1>5, <1>6 DEF IInv

\* What begin_op() does when it admits the call.
LEMMA Admitted ==
  ASSUME LogAssumption, IInv, NEW p \in Procs, begin_op(p), outstanding' # outstanding
  PROVE  /\ ~committing /\ Room /\ boot = "up" /\ cpc = "none"
         /\ pc' = [pc EXCEPT ![p] = "op"] /\ used' = [used EXCEPT ![p] = {}]
         /\ outstanding' = outstanding + 1
         /\ p \notin Open /\ Open' = Open \cup {p}
         /\ Charged' = Charged
<1>1. /\ ~committing /\ Room /\ boot = "up"
      /\ pc[p] \in {"idle", "begin"}
      /\ pc' = [pc EXCEPT ![p] = "op"] /\ used' = [used EXCEPT ![p] = {}]
      /\ outstanding' = outstanding + 1 /\ lh' = lh
  BY DEF begin_op
<1>2. cpc = "none"
  BY <1>1 DEF IInv, CommitsAlone
<1>3. \A q \in Procs : /\ pc'[q] = IF q = p THEN "op" ELSE pc[q]
                       /\ used'[q] = IF q = p THEN {} ELSE used[q]
  BY <1>1 DEF IInv, TypeOK
<1>4. p \notin Open /\ Open' = Open \cup {p}
  BY <1>1, <1>3 DEF Open
<1>5. Charged' = Charged
  <2>1. \A q \in Open' : q \in Procs
    BY DEF Open
  <2>2. \A q \in Open', b \in Blocks :
          b \in used'[q] /\ Contains(lh', b) <=> q \in Open /\ b \in used[q] /\ Contains(lh, b)
    BY <1>1, <1>3, <1>4, <2>1
  <2>3. Open \subseteq Open'
    BY <1>4
  <2> QED BY <2>2, <2>3 DEF Charged
<1> QED BY <1>1, <1>2, <1>4, <1>5

LEMMA BeginOpInv ==
  ASSUME LogAssumption, IInv, NEW p \in Procs, begin_op(p)
  PROVE  IInv'
<1>1. /\ boot = "up" /\ pc[p] \in {"idle", "begin"}
      /\ UNCHANGED <<disk, logd, head, cache, lh, committing, buf, cpc, tail, boot, panicked>>
  BY DEF begin_op, diskVars
<1>2. CASE outstanding' = outstanding
  <2>1. pc' = [pc EXCEPT ![p] = "asleep"] /\ used' = used
    <3>1. outstanding \in Nat
      BY DEF IInv, TypeOK
    <3> QED BY <1>2, <3>1 DEF begin_op
  <2>2. \A q \in Procs : pc'[q] = IF q = p THEN "asleep" ELSE pc[q]
    BY <2>1 DEF IInv, TypeOK
  <2>3. Open' = Open
    BY <1>1, <2>2 DEF Open
  <2>4. Charged' = Charged
    BY <1>1, <2>1, <2>3 DEF Charged
  <2>5. TypeOK'
    <3>1. pc' \in [Procs -> OpPoints]
      BY <2>1 DEF IInv, TypeOK, OpPoints
    <3> QED BY <1>1, <1>2, <2>1, <3>1 DEF IInv, TypeOK
  <2>6. CallsCounted'
    BY <1>1, <1>2, <2>1, <2>2, <2>3 DEF IInv, CallsCounted
  <2>7. Reserved(MAXOPBLOCKS, LOGSIZE)'
    BY <1>1, <1>2, <2>4 DEF IInv, Reserved
  <2>8. CommitsAlone' /\ OnlyTooBig'
    BY <1>1, <1>2 DEF IInv, CommitsAlone, OnlyTooBig
  <2>9. WritesAreLogged' /\ LoopsCopy'
    BY <1>1 DEF IInv, WritesAreLogged, LoopsCopy, Contains
  <2> QED BY <2>5, <2>6, <2>7, <2>8, <2>9 DEF IInv
<1>3. CASE outstanding' # outstanding
  <2>1. /\ ~committing /\ Room /\ cpc = "none"
        /\ pc' = [pc EXCEPT ![p] = "op"] /\ used' = [used EXCEPT ![p] = {}]
        /\ outstanding' = outstanding + 1 /\ outstanding \in Nat
        /\ p \notin Open /\ Open' = Open \cup {p} /\ Charged' = Charged
    BY <1>3, Admitted DEF IInv, TypeOK
  <2>2. \A q \in Procs : /\ pc'[q] = IF q = p THEN "op" ELSE pc[q]
                         /\ used'[q] = IF q = p THEN {} ELSE used[q]
    BY <2>1 DEF IInv, TypeOK
  <2>3. TypeOK'
    <3>1. /\ pc' \in [Procs -> OpPoints] /\ used' \in [Procs -> SUBSET Blocks]
          /\ outstanding' \in Nat
      BY <2>1 DEF IInv, TypeOK, OpPoints
    <3> QED BY <1>1, <3>1 DEF IInv, TypeOK
  <2>4. CallsCounted'
    <3>1. Cardinality(Open') = Cardinality(Open) + 1
      BY <2>1, ChargedNow, FS_AddElement
    <3>2. Cardinality({}) <= OpBlocks
      BY FS_EmptySet DEF LogAssumption
    <3> QED BY <1>1, <2>1, <2>2, <3>1, <3>2 DEF IInv, CallsCounted
  <2>5. Reserved(MAXOPBLOCKS, LOGSIZE)'
    <3>1. Len(lh) + (outstanding + 1) * MAXOPBLOCKS <= LOGSIZE
      BY <2>1 DEF Room
    <3>2. Len(lh') + outstanding' * MAXOPBLOCKS <= LOGSIZE
      BY <1>1, <2>1, <3>1
    <3>3. Cardinality(Charged') \in Nat /\ LOGSIZE \in Nat
      BY <2>1, ChargedNow DEF LogAssumption
    <3>4. Len(lh') \in Nat /\ outstanding' * MAXOPBLOCKS \in Nat
      BY <1>1, <2>1 DEF IInv, TypeOK, LogAssumption
    <3>5. Len(head') <= LOGSIZE
      BY <1>1 DEF IInv, Reserved
    <3> HIDE DEF Charged
    <3> QED BY <3>2, <3>3, <3>4, <3>5 DEF Reserved
  <2>6. CommitsAlone' /\ OnlyTooBig'
    <3>1. outstanding' # 0
      BY <2>1
    <3> QED BY <1>1, <2>1, <3>1 DEF IInv, CommitsAlone, OnlyTooBig
  <2>7. WritesAreLogged' /\ LoopsCopy'
    BY <1>1 DEF IInv, WritesAreLogged, LoopsCopy, Contains
  <2> QED BY <2>3, <2>4, <2>5, <2>6, <2>7 DEF IInv
<1> QED BY <1>2, <1>3

\* A call modifies a block: what it charges to the log can only grow.
LEMMA Modifies ==
  ASSUME LogAssumption, IInv,
         NEW p \in Procs, NEW b \in Blocks, NEW v \in Values, modify(p, b, v)
  PROVE  /\ Open' = Open /\ Charged \subseteq Charged'
         /\ IsFiniteSet(Charged')
         /\ used' \in [Procs -> SUBSET Blocks]
         /\ \A q \in Procs : /\ Cardinality(used'[q]) <= OpBlocks
                             /\ used'[q] = IF q = p THEN used[p] \cup {b} ELSE used[q]
<1>1. /\ pc[p] = "op" /\ used' = [used EXCEPT ![p] = @ \cup {b}] /\ lh' = lh
      /\ pc' = pc \/ pc' = [pc EXCEPT ![p] = "append"]
      /\ Cardinality(used[p] \cup {b}) <= OpBlocks
  BY DEF modify
<1>2. /\ used' \in [Procs -> SUBSET Blocks]
      /\ \A q \in Procs : used'[q] = IF q = p THEN used[p] \cup {b} ELSE used[q]
  BY <1>1 DEF IInv, TypeOK
<1>3. \A q \in Procs : Cardinality(used'[q]) <= OpBlocks
  BY <1>1, <1>2 DEF IInv, CallsCounted
<1>4. Open' = Open
  BY <1>1 DEF Open, IInv, TypeOK
<1>5. Charged \subseteq Charged'
  <2>1. \A q \in Open : used[q] \subseteq used'[q]
    BY <1>2 DEF Open
  <2> QED BY <1>1, <1>4, <2>1 DEF Charged
<1>6. IsFiniteSet(Charged')
  <2>1. Open' \in SUBSET Procs
    BY DEF Open
  <2>2. Charged' \subseteq {xy \in Open' \X Blocks : xy[2] \in used'[xy[1]]}
    BY DEF Charged
  <2> HIDE DEF Open, Charged
  <2> QED BY <1>2, <1>3, <2>1, <2>2, ChargedBound
<1> QED BY <1>2, <1>3, <1>4, <1>5, <1>6

LEMMA ModifyReserved ==
  ASSUME LogAssumption, IInv, NEW n \in Nat, NEW room \in Int, Reserved(n, room),
         NEW p \in Procs, NEW b \in Blocks, NEW v \in Values, modify(p, b, v)
  PROVE  Reserved(n, room)'
<1>1. lh' = lh /\ head' = head /\ outstanding' = outstanding
  BY DEF modify, diskVars
<1>2. Cardinality(Charged) <= Cardinality(Charged') /\ Cardinality(Charged') \in Int
  <2>1. Charged \subseteq Charged' /\ IsFiniteSet(Charged')
    BY Modifies
  <2> HIDE DEF Charged
  <2> QED BY <2>1, FS_Subset, FS_CardinalityType
<1>3. Cardinality(Charged) \in Int /\ Len(lh) \in Int /\ outstanding * n \in Int
  BY ChargedNow DEF IInv, TypeOK
<1>4. Len(head) <= room /\ Len(lh) + outstanding * n <= room + Cardinality(Charged)
  BY DEF Reserved
<1>5. Len(lh) + outstanding * n <= room + Cardinality(Charged')
  BY <1>2, <1>3, <1>4
<1> QED BY <1>1, <1>4, <1>5 DEF Reserved

LEMMA ModifyInv ==
  ASSUME LogAssumption, IInv, panicked = "none",
         NEW p \in Procs, NEW b \in Blocks, NEW v \in Values, modify(p, b, v)
  PROVE  IInv'
<1>1. /\ pc[p] = "op" /\ cache' = [cache EXCEPT ![b] = v]
      /\ UNCHANGED <<disk, logd, head, lh, outstanding, committing, cpc, tail, boot>>
  BY DEF modify, diskVars
<1>2. outstanding >= 1 /\ outstanding \in Nat /\ ~committing /\ cpc = "none" /\ boot = "up" /\ head = <<>>
  BY <1>1, CallIsOpen
<1>3. \/ panicked' = "too big a transaction" /\ UNCHANGED <<pc, buf>>
      \/ /\ panicked' = "none" /\ pc' = [pc EXCEPT ![p] = "append"]
         /\ buf' = [buf EXCEPT ![p] = b]
  <2>1. ~(outstanding < 1)
    BY <1>2
  <2> QED BY <2>1 DEF modify
<1>4. \/ \A q \in Procs : pc'[q] = pc[q] /\ buf'[q] = buf[q]
      \/ \A q \in Procs : /\ pc'[q] = IF q = p THEN "append" ELSE pc[q]
                          /\ buf'[q] = IF q = p THEN b ELSE buf[q]
  BY <1>3 DEF IInv, TypeOK
<1>5. TypeOK'
  <2>1. cache' \in [Blocks -> Values]
    BY <1>1 DEF IInv, TypeOK
  <2>2. pc' \in [Procs -> OpPoints] /\ buf' \in [Procs -> Blocks \cup {NoBlock}]
    BY <1>3 DEF IInv, TypeOK, OpPoints
  <2>3. panicked' \in Panics
    BY <1>3 DEF Panics
  <2>4. used' \in [Procs -> SUBSET Blocks]
    BY Modifies
  <2> QED BY <1>1, <2>1, <2>2, <2>3, <2>4 DEF IInv, TypeOK
<1>6. CallsCounted'
  <2>1. /\ Open' = Open
        /\ \A q \in Procs : /\ Cardinality(used'[q]) <= OpBlocks
                            /\ used'[q] = IF q = p THEN used[p] \cup {b} ELSE used[q]
    BY Modifies
  <2>2. \A q \in Procs : /\ buf'[q] # NoBlock => pc'[q] = "append"
                         /\ pc'[q] = "append" => buf'[q] \in used'[q]
    BY <1>4, <2>1 DEF IInv, CallsCounted
  <2> QED BY <1>1, <2>1, <2>2 DEF IInv, CallsCounted
<1>7. Reserved(MAXOPBLOCKS, LOGSIZE)'
  BY ModifyReserved DEF IInv, LogAssumption
<1>8. CommitsAlone' /\ LoopsCopy' /\ OnlyTooBig'
  <2>1. outstanding # 0
    BY <1>2
  <2>2. OnlyTooBig'
    BY <1>1, <1>3, <2>1 DEF OnlyTooBig
  <2>3. CommitsAlone'
    BY <1>1, <1>2, <2>1 DEF CommitsAlone
  <2>4. LoopsCopy'
    BY <1>1, <1>2 DEF LoopsCopy
  <2> QED BY <2>2, <2>3, <2>4
<1>9. WritesAreLogged'
  <2> SUFFICES ASSUME panicked' = "none", NEW c \in Blocks, ~Contains(lh, c),
                      \A q \in Procs : buf'[q] # c
               PROVE  cache'[c] = disk[c]
    BY <1>1, <1>2 DEF WritesAreLogged
  <2>1. \A q \in Procs : buf'[q] = IF q = p THEN b ELSE buf[q]
    BY <1>3 DEF IInv, TypeOK
  <2>2. c # b
    BY <2>1
  <2>3. \A q \in Procs : buf[q] # c
    <3>1. buf[p] = NoBlock
      BY <1>1 DEF IInv, CallsCounted
    <3> QED BY <2>1, <3>1 DEF LogAssumption
  <2>4. cache[c] = disk[c]
    BY <1>2, <2>3 DEF IInv, WritesAreLogged
  <2> QED BY <1>1, <2>2, <2>4 DEF IInv, TypeOK
<1> QED BY <1>5, <1>6, <1>7, <1>8, <1>9 DEF IInv

\* log_write() fills at most one slot, and charges it to the call.
LEMMA LogWrites ==
  ASSUME LogAssumption, IInv, NEW p \in Procs, log_write(p)
  PROVE  /\ buf[p] \in Blocks /\ buf[p] \in used[p] /\ p \in Open
         /\ Open' = Open
         /\ lh' \in Seq(Blocks) /\ IsInjective(lh')
         /\ Len(lh') = IF Contains(lh, buf[p]) THEN Len(lh) ELSE Len(lh) + 1
         /\ \A c : Contains(lh', c) <=> Contains(lh, c) \/ c = buf[p]
         /\ Charged \cup {<<p, buf[p]>>} \subseteq Charged' /\ IsFiniteSet(Charged')
         /\ ~Contains(lh, buf[p]) => <<p, buf[p]>> \notin Charged
<1>1. /\ pc[p] = "append" /\ lh' = Logged(lh, buf[p]) /\ pc' = [pc EXCEPT ![p] = "op"]
      /\ used' = used
  BY DEF log_write
<1>2. buf[p] \in used[p] /\ buf[p] \in Blocks /\ lh \in Seq(Blocks) /\ IsInjective(lh)
  BY <1>1 DEF IInv, CallsCounted, TypeOK
<1>3. p \in Open
  BY <1>1 DEF Open
<1>4. Open' = Open
  BY <1>1 DEF Open, IInv, TypeOK
<1>5. /\ lh' \in Seq(Blocks) /\ IsInjective(lh')
      /\ Len(lh') = IF Contains(lh, buf[p]) THEN Len(lh) ELSE Len(lh) + 1
      /\ \A c : Contains(lh', c) <=> Contains(lh, c) \/ c = buf[p]
  BY <1>1, <1>2, LoggedOnce
<1>6. /\ Charged \cup {<<p, buf[p]>>} \subseteq Charged'
      /\ ~Contains(lh, buf[p]) => <<p, buf[p]>> \notin Charged
  BY <1>1, <1>2, <1>3, <1>4, <1>5 DEF Charged
<1>7. IsFiniteSet(Charged')
  <2>1. Charged' \subseteq {xy \in Open \X Blocks : xy[2] \in used[xy[1]]}
    BY <1>1, <1>4 DEF Charged
  <2>2. /\ Open \in SUBSET Procs /\ used \in [Procs -> SUBSET Blocks]
        /\ \A q \in Procs : Cardinality(used[q]) <= OpBlocks
    BY ChargedNow DEF IInv, TypeOK, CallsCounted
  <2> HIDE DEF Open, Charged
  <2> QED BY <2>1, <2>2, ChargedBound
<1> QED BY <1>2, <1>3, <1>4, <1>5, <1>6, <1>7

LEMMA LogWriteReserved ==
  ASSUME LogAssumption, IInv, NEW n \in Nat, NEW room \in Int, Reserved(n, room),
         NEW p \in Procs, log_write(p)
  PROVE  Reserved(n, room)'
<1>1. head' = head /\ outstanding' = outstanding
  BY DEF log_write, diskVars
<1>2. /\ Charged \cup {<<p, buf[p]>>} \subseteq Charged' /\ IsFiniteSet(Charged')
      /\ ~Contains(lh, buf[p]) => <<p, buf[p]>> \notin Charged
      /\ Len(lh') = IF Contains(lh, buf[p]) THEN Len(lh) ELSE Len(lh) + 1
  BY LogWrites
<1>3. /\ IsFiniteSet(Charged) /\ Cardinality(Charged) \in Nat
      /\ Len(lh) \in Nat /\ outstanding * n \in Int
  BY ChargedNow DEF IInv, TypeOK
<1>4. Len(head) <= room /\ Len(lh) + outstanding * n <= room + Cardinality(Charged)
  BY DEF Reserved
<1>5. Len(lh') - Len(lh) <= Cardinality(Charged') - Cardinality(Charged)
      /\ Cardinality(Charged') \in Nat
  <2> DEFINE pb == <<p, buf[p]>>
  <2>1. /\ IsFiniteSet(Charged \cup {pb})
        /\ Cardinality(Charged \cup {pb})
             = IF pb \in Charged THEN Cardinality(Charged) ELSE Cardinality(Charged) + 1
    BY <1>3, FS_AddElement
  <2> HIDE DEF Charged
  <2>2. /\ Cardinality(Charged \cup {pb}) <= Cardinality(Charged')
        /\ Cardinality(Charged') \in Nat
    BY <1>2, FS_Subset, FS_CardinalityType
  <2> HIDE DEF pb
  <2>3. ~Contains(lh, buf[p]) => pb \notin Charged
    BY <1>2 DEF pb
  <2>4. CASE Contains(lh, buf[p])
    BY <1>2, <1>3, <2>1, <2>2, <2>4
  <2>5. CASE ~Contains(lh, buf[p])
    BY <1>2, <1>3, <2>1, <2>2, <2>3, <2>5
  <2> QED BY <2>4, <2>5
<1>6. Len(lh') \in Nat
  BY <1>2, <1>3
<1>7. Len(lh') + outstanding * n <= room + Cardinality(Charged')
  <2> HIDE DEF Charged
  <2> QED BY <1>3, <1>4, <1>5, <1>6, SMTT(30)
<1> QED BY <1>1, <1>4, <1>7 DEF Reserved

LEMMA LogWriteInv ==
  ASSUME LogAssumption, IInv, panicked = "none", NEW p \in Procs, log_write(p)
  PROVE  IInv'
<1>1. /\ pc[p] = "append" /\ pc' = [pc EXCEPT ![p] = "op"] /\ buf' = [buf EXCEPT ![p] = NoBlock]
      /\ UNCHANGED <<disk, logd, head, cache, outstanding, committing, used, cpc, tail, boot,
                     panicked>>
  BY DEF log_write, diskVars
<1>2. /\ outstanding >= 1 /\ outstanding \in Nat
      /\ ~committing /\ cpc = "none" /\ boot = "up" /\ head = <<>>
  BY <1>1, CallIsOpen
<1>3. \A q \in Procs : /\ pc'[q] = IF q = p THEN "op" ELSE pc[q]
                       /\ buf'[q] = IF q = p THEN NoBlock ELSE buf[q]
  BY <1>1 DEF IInv, TypeOK
<1>4. /\ Open' = Open /\ lh' \in Seq(Blocks) /\ IsInjective(lh')
      /\ \A c : Contains(lh', c) <=> Contains(lh, c) \/ c = buf[p]
  BY LogWrites
<1>5. Reserved(MAXOPBLOCKS, LOGSIZE)'
  BY LogWriteReserved DEF IInv, LogAssumption
<1>6. CallsCounted'
  BY <1>1, <1>3, <1>4 DEF IInv, CallsCounted
<1>7. Len(lh') <= LOGSIZE
  <2>1. /\ used \in [Procs -> SUBSET Blocks] /\ Open \in SUBSET Procs
        /\ \A q \in Procs : Cardinality(used[q]) <= OpBlocks
        /\ outstanding = Cardinality(Open)
    BY ChargedNow DEF IInv, TypeOK, CallsCounted
  <2>2. Charged' \subseteq {xy \in Open \X Blocks : xy[2] \in used[xy[1]]}
    BY <1>1, <1>4 DEF Charged
  <2>3. Cardinality(Charged') \in Nat /\ Cardinality(Charged') <= outstanding * OpBlocks
    <3> HIDE DEF Open, Charged
    <3> QED BY <2>1, <2>2, ChargedBound
  <2>4. Len(lh') + outstanding * MAXOPBLOCKS <= LOGSIZE + Cardinality(Charged')
    BY <1>1, <1>5 DEF Reserved
  <2>5. /\ MAXOPBLOCKS \in Nat /\ OpBlocks <= MAXOPBLOCKS /\ LOGSIZE \in Int
        /\ Len(lh') \in Nat
    BY <1>4 DEF LogAssumption
  <2> HIDE DEF Charged
  <2> QED BY <1>2, <2>3, <2>4, <2>5, LogFits
<1>8. TypeOK'
  <2>1. pc' \in [Procs -> OpPoints] /\ buf' \in [Procs -> Blocks \cup {NoBlock}]
    BY <1>1 DEF IInv, TypeOK, OpPoints
  <2> QED BY <1>1, <1>4, <1>7, <2>1 DEF IInv, TypeOK
<1>9. CommitsAlone' /\ LoopsCopy' /\ OnlyTooBig'
  <2>1. outstanding # 0
    BY <1>2
  <2>2. OnlyTooBig'
    BY <1>1, <2>1 DEF IInv, OnlyTooBig
  <2>3. CommitsAlone'
    BY <1>1, <1>2, <2>1 DEF CommitsAlone
  <2>4. LoopsCopy'
    BY <1>1, <1>2 DEF LoopsCopy
  <2> QED BY <2>2, <2>3, <2>4
<1>10. WritesAreLogged'
  <2> SUFFICES ASSUME NEW c \in Blocks, ~Contains(lh', c), \A q \in Procs : buf'[q] # c
               PROVE  cache[c] = disk[c]
    BY <1>1, <1>2 DEF WritesAreLogged
  <2>1. ~Contains(lh, c) /\ \A q \in Procs : buf[q] # c
    BY <1>3, <1>4
  <2> QED BY <1>2, <2>1 DEF IInv, WritesAreLogged
<1> QED BY <1>5, <1>6, <1>8, <1>9, <1>10 DEF IInv

\* end_op() of a call: the slots it filled are no longer charged, nor reserved.
LEMMA Ends ==
  ASSUME LogAssumption, IInv, NEW p \in Procs, end_op(p)
  PROVE  /\ pc[p] = "op" /\ p \in Open /\ Open' = Open \ {p}
         /\ outstanding' = outstanding - 1 /\ outstanding' \in Nat
         /\ ~committing /\ boot = "up" /\ cpc = "none" /\ head = <<>>
         /\ panicked' = panicked
         /\ \/ /\ outstanding = 1 /\ committing' = TRUE /\ cpc' = "start"
            \/ outstanding # 1 /\ UNCHANGED <<committing, cpc>>
         /\ pc' \in [Procs -> OpPoints]
         /\ \A q \in Procs : /\ pc'[q] = "append" <=> pc[q] = "append"
                             /\ pc'[q] = "op" <=> pc[q] = "op" /\ q # p
         /\ UNCHANGED <<disk, logd, head, cache, lh, used, buf, tail, boot>>
<1>1. /\ pc[p] = "op" /\ outstanding' = outstanding - 1
      /\ UNCHANGED <<disk, logd, head, cache, lh, used, buf, tail, boot>>
  BY DEF end_op, diskVars
<1>2. /\ p \in Open /\ outstanding >= 1 /\ outstanding \in Nat
      /\ ~committing /\ boot = "up" /\ cpc = "none" /\ head = <<>>
  BY <1>1, CallIsOpen
<1>3. \/ /\ outstanding = 1 /\ committing' = TRUE /\ cpc' = "start" /\ panicked' = panicked
         /\ pc' = [pc EXCEPT ![p] = "commit"]
      \/ /\ outstanding # 1 /\ UNCHANGED <<committing, cpc, panicked>>
         /\ pc' = [Woken EXCEPT ![p] = "idle"]
  BY <1>2 DEF end_op
<1>4. \/ \A q \in Procs : pc'[q] = IF q = p THEN "commit" ELSE pc[q]
      \/ \A q \in Procs : pc'[q] = IF q = p THEN "idle"
                                   ELSE IF pc[q] = "asleep" THEN "begin" ELSE pc[q]
  BY <1>3 DEF Woken, IInv, TypeOK
<1>5. \A q \in Procs : /\ pc'[q] = "append" <=> pc[q] = "append"
                       /\ pc'[q] = "op" <=> pc[q] = "op" /\ q # p
  BY <1>1, <1>4
<1>6. pc' \in [Procs -> OpPoints]
  BY <1>3 DEF Woken, OpPoints, IInv, TypeOK
<1>7. Open' = Open \ {p}
  BY <1>1, <1>5 DEF Open
<1>8. outstanding' \in Nat
  BY <1>1, <1>2
<1> QED BY <1>1, <1>2, <1>3, <1>5, <1>6, <1>7, <1>8

LEMMA EndReserved ==
  ASSUME LogAssumption, IInv, NEW n \in Nat, OpBlocks <= n, NEW room \in Int, Reserved(n, room),
         NEW p \in Procs, end_op(p)
  PROVE  Reserved(n, room)'
<1> DEFINE Mine == {p} \X used[p]
<1>1. /\ head' = head /\ lh' = lh /\ outstanding' = outstanding - 1 /\ outstanding \in Nat
      /\ Open' = Open \ {p} /\ used' = used
  BY Ends DEF IInv, TypeOK
<1>2. /\ IsFiniteSet(Charged) /\ Cardinality(Charged) \in Nat /\ Len(lh) \in Nat
  BY ChargedNow DEF IInv, TypeOK
<1>3. Charged \ Mine \subseteq Charged' /\ Charged' \subseteq Charged
  BY <1>1 DEF Charged
<1>4. IsFiniteSet(Mine) /\ Cardinality(Mine) \in Nat /\ Cardinality(Mine) <= OpBlocks
  <2>1. used[p] \subseteq Blocks /\ Cardinality(used[p]) <= OpBlocks
    BY DEF IInv, TypeOK, CallsCounted
  <2>2. IsFiniteSet(used[p]) /\ Cardinality(used[p]) \in Nat
    BY <2>1, FS_Subset, FS_CardinalityType DEF LogAssumption
  <2>3. IsFiniteSet({p}) /\ Cardinality({p}) = 1
    BY FS_Singleton
  <2>4. IsFiniteSet(Mine) /\ Cardinality(Mine) = Cardinality({p}) * Cardinality(used[p])
    BY <2>2, <2>3, FS_Product
  <2> HIDE DEF Mine
  <2> QED BY <2>1, <2>2, <2>3, <2>4
<1>5. Cardinality(Charged) <= Cardinality(Charged') + OpBlocks /\ Cardinality(Charged') \in Nat
  <2> HIDE DEF Charged, Mine
  <2>1. IsFiniteSet(Charged') /\ Cardinality(Charged') \in Nat
    BY <1>2, <1>3, FS_Subset, FS_CardinalityType
  <2>2. /\ IsFiniteSet(Charged' \cup Mine)
        /\ Cardinality(Charged' \cup Mine) <= Cardinality(Charged') + Cardinality(Mine)
    <3>1. /\ IsFiniteSet(Charged' \cup Mine) /\ IsFiniteSet(Charged' \cap Mine)
          /\ Cardinality(Charged' \cup Mine)
               = Cardinality(Charged') + Cardinality(Mine) - Cardinality(Charged' \cap Mine)
      BY <1>4, <2>1, FS_Union, FS_Intersection
    <3>2. Cardinality(Charged' \cap Mine) \in Nat
      BY <3>1, FS_CardinalityType
    <3> QED BY <1>4, <2>1, <3>1, <3>2
  <2>3. Charged \subseteq Charged' \cup Mine
    BY <1>3
  <2>4. /\ Cardinality(Charged) <= Cardinality(Charged' \cup Mine)
        /\ Cardinality(Charged' \cup Mine) \in Nat
    BY <2>2, <2>3, FS_Subset, FS_CardinalityType
  <2>5. OpBlocks \in Nat
    BY DEF LogAssumption
  <2> QED BY <1>2, <1>4, <2>1, <2>2, <2>4, <2>5
<1>6. Len(head) <= room /\ Len(lh) + outstanding * n <= room + Cardinality(Charged)
  BY DEF Reserved
<1>7. (outstanding - 1) * n = outstanding * n - n /\ outstanding * n \in Nat
  BY <1>1
<1>8. Len(lh) + (outstanding - 1) * n <= room + Cardinality(Charged')
  <2>1. OpBlocks \in Nat
    BY DEF LogAssumption
  <2> HIDE DEF Charged
  <2> QED BY <1>2, <1>5, <1>6, <1>7, <2>1, SMTT(30)
<1> QED BY <1>1, <1>6, <1>8 DEF Reserved

LEMMA EndInv ==
  ASSUME LogAssumption, IInv, panicked = "none", NEW p \in Procs, end_op(p)
  PROVE  IInv'
<1>1. TypeOK'
  <2>1. committing' \in BOOLEAN /\ cpc' \in CommitSteps
    BY Ends DEF IInv, TypeOK, CommitSteps
  <2> QED BY <2>1, Ends DEF IInv, TypeOK
<1>2. CallsCounted'
  <2>1. /\ Open' = Open \ {p} /\ p \in Open /\ outstanding' = outstanding - 1
        /\ used' = used /\ buf' = buf
        /\ \A q \in Procs : pc'[q] = "append" <=> pc[q] = "append"
    BY Ends
  <2>2. Cardinality(Open') = Cardinality(Open) - 1
    BY <2>1, ChargedNow, FS_RemoveElement
  <2> QED BY <2>1, <2>2 DEF IInv, CallsCounted
<1>3. Reserved(MAXOPBLOCKS, LOGSIZE)'
  BY EndReserved DEF IInv, LogAssumption
<1>4. CommitsAlone' /\ OnlyTooBig'
  <2>1. /\ ~committing /\ boot = "up" /\ boot' = boot /\ cpc = "none" /\ panicked' = panicked
        /\ outstanding' = outstanding - 1 /\ outstanding \in Nat
        /\ \/ /\ outstanding = 1 /\ committing' = TRUE /\ cpc' = "start"
           \/ outstanding # 1 /\ UNCHANGED <<committing, cpc>>
    BY Ends DEF IInv, TypeOK
  <2>2. outstanding = 1 => outstanding' = 0
    BY <2>1
  <2>3. outstanding # 1 => outstanding' # 0
    BY <2>1
  <2> QED BY <2>1, <2>2, <2>3 DEF CommitsAlone, OnlyTooBig
<1>5. WritesAreLogged' /\ LoopsCopy'
  <2>1. /\ boot = "up" /\ cpc = "none" /\ cpc' \in {"none", "start"} /\ head = <<>>
        /\ UNCHANGED <<disk, logd, head, cache, lh, buf, tail, boot, panicked>>
    BY Ends
  <2>2. WritesAreLogged'
    BY <2>1 DEF IInv, WritesAreLogged, Contains
  <2>3. LoopsCopy'
    BY <2>1 DEF LoopsCopy
  <2> QED BY <2>2, <2>3
<1> QED BY <1>1, <1>2, <1>3, <1>4, <1>5 DEF IInv

-------------------------------------------------------------------------------
(* The invariant. *)

LEMMA InitInv ==
  ASSUME LogAssumption, Init
  PROVE  IInv /\ Open = {} /\ Charged = {}
<1>1. Open = {}
  BY DEF Init, Open
<1>2. Charged = {}
  BY <1>1 DEF Charged
<1>3. 0 \in 0 .. LOGSIZE /\ LOGSIZE \in Nat /\ OpBlocks \in Nat /\ MAXOPBLOCKS \in Nat
  BY DEF LogAssumption
<1>4. TypeOK
  <2>1. /\ disk \in [Blocks -> Values] /\ logd \in [1 .. LOGSIZE -> Values]
        /\ cache \in [Blocks -> Values]
    BY DEF Init, LogAssumption
  <2>2. \A q \in {head, lh} : q \in Seq(Blocks) /\ Len(q) <= LOGSIZE /\ IsInjective(q)
    <3>1. head = <<>> /\ lh = <<>> /\ 0 <= LOGSIZE
      BY <1>3 DEF Init
    <3> QED BY <3>1, EmptyHeader
  <2> QED BY <1>3, <2>1, <2>2
          DEF Init, TypeOK, OpPoints, CommitSteps, BootSteps, Panics
<1>5. CallsCounted
  BY <1>1, <1>3, FS_EmptySet DEF Init, CallsCounted
<1>6. Reserved(MAXOPBLOCKS, LOGSIZE)
  BY <1>2, <1>3, FS_EmptySet DEF Init, Reserved
<1>7. CommitsAlone /\ WritesAreLogged /\ LoopsCopy /\ OnlyTooBig
  BY DEF Init, CommitsAlone, WritesAreLogged, LoopsCopy, OnlyTooBig
<1> QED BY <1>1, <1>2, <1>4, <1>5, <1>6, <1>7 DEF IInv

LEMMA NextInv ==
  ASSUME LogAssumption, IInv, [Next]_vars
  PROVE  IInv'
<1>1. CASE UNCHANGED vars
  <2>1. UNCHANGED <<disk, logd, head, cache, lh, outstanding, committing, pc, used, buf, cpc,
                    tail, boot, panicked>>
    BY <1>1 DEF vars, diskVars, opVars
  <2>2. Open' = Open /\ Charged' = Charged
    BY <2>1 DEF Open, Charged
  <2>3. TypeOK' /\ CallsCounted' /\ Reserved(MAXOPBLOCKS, LOGSIZE)'
    <3>1. TypeOK'
      BY <2>1 DEF IInv, TypeOK
    <3>2. CallsCounted'
      BY <2>1, <2>2 DEF IInv, CallsCounted
    <3>3. Reserved(MAXOPBLOCKS, LOGSIZE)'
      BY <2>1, <2>2 DEF IInv, Reserved
    <3> QED BY <3>1, <3>2, <3>3
  <2>4. CommitsAlone' /\ WritesAreLogged' /\ LoopsCopy' /\ OnlyTooBig'
    BY <2>1 DEF IInv, CommitsAlone, WritesAreLogged, LoopsCopy, OnlyTooBig, Contains
  <2> QED BY <2>3, <2>4 DEF IInv
<1>2. CASE panicked = "none" /\ \E p \in Procs : OpStep(p)
  BY <1>2, BeginOpInv, LogWriteInv, EndInv, ModifyInv DEF OpStep
<1>3. CASE panicked = "none" /\ (commit \/ crash \/ recover_from_log)
  BY <1>3, QuietInv, CrashInv
<1> QED BY <1>1, <1>2, <1>3 DEF Next

\* In every state a call has room for what it may still write, only what is in the log differs
\* from its home block, and the log blocks on disk are what the header is written for.
THEOREM IInvHolds ==
  ASSUME LogAssumption
  PROVE  Spec => []IInv
<1>1. Init => IInv
  BY InitInv
<1>2. IInv /\ [Next]_vars => IInv'
  BY NextInv
<1> QED BY <1>1, <1>2, PTL DEF Spec

LEMMA Quiescence ==
  ASSUME LogAssumption, IInv
  PROVE  QuietIsDurable
<1> SUFFICES ASSUME boot = "up", outstanding = 0, ~committing
             PROVE  disk = cache /\ lh = <<>> /\ head = <<>>
  BY DEF QuietIsDurable
<1>1. lh = <<>> /\ cpc = "none"
  BY DEF IInv, CommitsAlone
<1>2. head = <<>>
  BY <1>1 DEF IInv, WritesAreLogged
<1>3. \A b \in Blocks : cache[b] = disk[b]
  BY <1>1, EmptyHeader, NothingElseDiffers
<1>4. disk = cache
  BY <1>3 DEF IInv, TypeOK
<1> QED BY <1>1, <1>2, <1>4

\* For any number of processes and blocks and any sizes, whether or not the log can overflow:
\* the header names each block once and never more than LOGSIZE of them, and when the last
\* call has returned all that was written is on its home block and the log is empty.
THEOREM QuietDurable ==
  ASSUME LogAssumption
  PROVE  Spec => [](TypeOK /\ QuietIsDurable)
<1>1. IInv => TypeOK /\ QuietIsDurable
  BY Quiescence DEF IInv
<1> QED BY <1>1, IInvHolds, PTL

-------------------------------------------------------------------------------
(* Calls that leave one reserved block unused. *)

LEMMA FitFacts ==
  ASSUME LogAssumption, CallsFit, IInv, FitInv
  PROVE  /\ Len(lh) <= LOGSIZE - 2
         /\ NoLogPanic
<1>1. /\ OpBlocks \in Nat /\ LOGSIZE \in Nat /\ LogBlocks \in Nat /\ LOGSIZE <= LogBlocks
  BY DEF LogAssumption, CallsFit
<1>2. Len(lh) + outstanding * OpBlocks <= LOGSIZE - 2 + Cardinality(Charged)
  BY DEF FitInv, Reserved
<1>3. /\ Cardinality(Charged) \in Nat /\ Cardinality(Charged) <= outstanding * OpBlocks
      /\ Len(lh) \in Nat /\ outstanding \in Nat
  BY ChargedNow DEF IInv, TypeOK
<1>4. Len(lh) <= LOGSIZE - 2
  <2> HIDE DEF Charged
  <2> QED BY <1>1, <1>2, <1>3, LogFits
<1> QED BY <1>1, <1>3, <1>4 DEF NoLogPanic, FitInv

LEMMA BeginFits ==
  ASSUME LogAssumption, CallsFit, IInv, FitInv, NEW p \in Procs, begin_op(p)
  PROVE  Reserved(OpBlocks, LOGSIZE - 2)'
<1>1. lh' = lh /\ head' = head
  BY DEF begin_op, diskVars
<1>2. CASE outstanding' = outstanding
  <2>1. pc' = [pc EXCEPT ![p] = "asleep"] /\ used' = used /\ pc[p] \in {"idle", "begin"}
    <3>1. outstanding \in Nat
      BY DEF IInv, TypeOK
    <3> QED BY <1>2, <3>1 DEF begin_op
  <2>2. Open' = Open
    BY <2>1 DEF Open, IInv, TypeOK
  <2>3. Charged' = Charged
    BY <1>1, <2>1, <2>2 DEF Charged
  <2> QED BY <1>1, <1>2, <2>3 DEF FitInv, Reserved
<1>3. CASE outstanding' # outstanding
  <2>1. /\ Len(lh) + (outstanding + 1) * MAXOPBLOCKS <= LOGSIZE
        /\ ~committing /\ boot = "up"
        /\ outstanding' = outstanding + 1 /\ Charged' = Charged
    BY <1>3, Admitted DEF Room
  <2>2. /\ OpBlocks \in Nat /\ MAXOPBLOCKS \in Nat /\ OpBlocks + 1 <= MAXOPBLOCKS
        /\ OpBlocks + 2 <= LOGSIZE /\ LOGSIZE \in Nat
    BY DEF LogAssumption, CallsFit
  <2>3. outstanding \in Nat /\ Len(lh) \in Nat /\ Cardinality(Charged) \in Nat
    BY ChargedNow DEF IInv, TypeOK
  <2>4. Len(lh) + (outstanding + 1) * OpBlocks <= LOGSIZE - 2
    <3>1. CASE outstanding = 0
      <4>1. lh = <<>>
        BY <2>1, <3>1 DEF IInv, CommitsAlone
      <4> QED BY <2>2, <3>1, <4>1
    <3>2. CASE outstanding # 0
      <4>1. (outstanding + 1) * (OpBlocks + 1) <= (outstanding + 1) * MAXOPBLOCKS
        BY <2>2, <2>3, ProductMonotone
      <4>2. (outstanding + 1) * (OpBlocks + 1) = (outstanding + 1) * OpBlocks + outstanding + 1
        BY <2>2, <2>3
      <4>3. /\ (outstanding + 1) * OpBlocks \in Int
            /\ (outstanding + 1) * MAXOPBLOCKS \in Int
        BY <2>2, <2>3
      <4> QED BY <2>1, <2>2, <2>3, <3>2, <4>1, <4>2, <4>3
    <3> QED BY <3>1, <3>2
  <2>5. (outstanding + 1) * OpBlocks \in Int /\ Len(head) <= LOGSIZE - 2
    BY <2>2, <2>3 DEF FitInv, Reserved
  <2>6. Len(lh) + (outstanding + 1) * OpBlocks <= LOGSIZE - 2 + Cardinality(Charged')
    <3> HIDE DEF Charged
    <3> QED BY <2>1, <2>2, <2>3, <2>4, <2>5
  <2> QED BY <1>1, <2>1, <2>5, <2>6 DEF Reserved
<1> QED BY <1>2, <1>3

LEMMA NextFits ==
  ASSUME LogAssumption, CallsFit, IInv, FitInv, [Next]_vars
  PROVE  FitInv'
<1>1. /\ OpBlocks \in Nat /\ LOGSIZE - 2 \in Int /\ OpBlocks <= OpBlocks /\ panicked = "none"
      /\ Reserved(OpBlocks, LOGSIZE - 2) /\ LogBlocks \in Int
  BY DEF LogAssumption, FitInv
<1>2. CASE UNCHANGED vars
  <2>1. UNCHANGED <<head, lh, outstanding, pc, used, panicked>>
    BY <1>2 DEF vars, diskVars, opVars
  <2>2. Charged' = Charged
    BY <2>1 DEF Open, Charged
  <2> QED BY <2>1, <2>2 DEF FitInv, Reserved
<1>3. ASSUME NEW p \in Procs, begin_op(p) PROVE FitInv'
  BY <1>1, <1>3, BeginFits DEF begin_op, FitInv
<1>4. ASSUME NEW p \in Procs, log_write(p) PROVE FitInv'
  BY <1>1, <1>4, LogWriteReserved DEF log_write, FitInv
<1>5. ASSUME NEW p \in Procs, end_op(p) PROVE FitInv'
  <2>1. panicked' = "none"
    BY <1>1, <1>5, Ends
  <2> QED BY <1>1, <1>5, <2>1, EndReserved DEF FitInv
<1>6. ASSUME NEW p \in Procs, NEW b \in Blocks, NEW v \in Values, modify(p, b, v) PROVE FitInv'
  <2>1. Len(lh) <= LOGSIZE - 2 /\ Len(lh) \in Nat /\ LOGSIZE \in Nat /\ LOGSIZE <= LogBlocks
    BY FitFacts DEF IInv, TypeOK, CallsFit, LogAssumption
  <2>2. ~(Len(lh) >= LOGSIZE \/ Len(lh) >= LogBlocks - 1)
    BY <1>1, <2>1
  <2>3. pc[p] = "op"
    BY <1>6 DEF modify
  <2>4. outstanding >= 1 /\ outstanding \in Nat
    BY <2>3, CallIsOpen
  <2>5. ~(outstanding < 1)
    BY <2>4
  <2>6. panicked' = "none"
    BY <1>1, <1>6, <2>2, <2>5 DEF modify
  <2> QED BY <1>1, <1>6, <2>6, ModifyReserved DEF FitInv
<1>7. ASSUME commit \/ recover_from_log PROVE FitInv'
  BY <1>1, <1>7, QuietStep, QuietReserved DEF FitInv
<1>8. ASSUME crash PROVE FitInv'
  BY <1>1, <1>8, CrashReserved DEF crash, FitInv
<1> QED BY <1>2, <1>3, <1>4, <1>5, <1>6, <1>7, <1>8 DEF Next, OpStep

\* Calls that write fewer blocks than begin_op() reserves never make log_write() panic nor
\* overflow the log, for any number of them, any sizes and any crashes, although log_write()
\* tests log.lh.n before it takes log.lock; and everything else LogIsConsistent says.
THEOREM LogCorrect ==
  ASSUME LogAssumption, CallsFit
  PROVE  Spec => []LogIsConsistent
<1>1. Init => IInv /\ FitInv
  <2> SUFFICES ASSUME Init PROVE IInv /\ FitInv
    OBVIOUS
  <2>1. IInv /\ Charged = {}
    BY InitInv
  <2>2. OpBlocks \in Nat /\ LOGSIZE \in Nat /\ OpBlocks + 2 <= LOGSIZE
    BY DEF LogAssumption, CallsFit
  <2>3. Reserved(OpBlocks, LOGSIZE - 2)
    BY <2>1, <2>2, FS_EmptySet DEF Init, Reserved
  <2> QED BY <2>1, <2>3 DEF Init, FitInv
<1>2. IInv /\ FitInv /\ [Next]_vars => (IInv /\ FitInv)'
  BY NextInv, NextFits
<1>3. IInv /\ FitInv => LogIsConsistent
  BY Quiescence, FitFacts DEF IInv, LogIsConsistent
<1> QED BY <1>1, <1>2, <1>3, PTL DEF Spec

-------------------------------------------------------------------------------
(* The log implements AtomicDisk. *)

View == IF boot = "up" THEN cache ELSE Recovered

\* Recovered, of any header, log blocks and home blocks.
Recovers(h, l, d) ==
  [b \in Blocks |-> IF Contains(h, b) THEN l[CHOOSE i \in DOMAIN h : h[i] = b] ELSE d[b]]

LEMMA RecoveredIs ==
  /\ Recovered  = Recovers(head, logd, disk)
  /\ Recovered' = Recovers(head', logd', disk')
BY DEF Recovered, Recovers

\* A block of the header is recovered from its slot.
LEMMA RecoveredFromLog ==
  ASSUME NEW h, h \in Seq(Blocks), IsInjective(h), NEW i \in 1 .. Len(h)
  PROVE  Contains(h, h[i]) /\ (CHOOSE j \in DOMAIN h : h[j] = h[i]) = i
<1>1. i \in DOMAIN h
  OBVIOUS
<1> QED BY <1>1, SlotOf DEF Contains

\* Nothing but head, the slots it names and the other home blocks matters to recovery.
LEMMA RecoveredKept ==
  ASSUME UNCHANGED <<head, logd>>,
         \A b \in Blocks : ~Contains(head, b) => disk'[b] = disk[b]
  PROVE  Recovered' = Recovered
BY DEF Recovered

\* With an empty header the disk is what recovery leaves.
LEMMA NothingToRecover ==
  ASSUME NEW d \in [Blocks -> Values], NEW l
  PROVE  Recovers(<<>>, l, d) = d
BY EmptyHeader DEF Recovers

\* With a complete header and log, recovery leaves in each block what the log or the disk holds.
LEMMA RecoversFrom ==
  ASSUME LogAssumption, NEW h, h \in Seq(Blocks), IsInjective(h), NEW l, NEW d,
         NEW w \in [Blocks -> Values],
         \A i \in 1 .. Len(h) : l[i] = w[h[i]],
         \A b \in Blocks : ~Contains(h, b) => d[b] = w[b]
  PROVE  Recovers(h, l, d) = w
<1>1. ASSUME NEW b \in Blocks, Contains(h, b)
      PROVE  l[CHOOSE i \in DOMAIN h : h[i] = b] = w[b]
  <2>1. PICK i \in 1 .. Len(h) : h[i] = b
    BY <1>1 DEF Contains
  <2> QED BY <2>1, RecoveredFromLog
<1> QED BY <1>1, ZenonT(60) DEF Recovers

\* The commit point: what the calls have written becomes what recovery leaves.
LEMMA CommitPoint ==
  ASSUME LogAssumption, IInv, write_head
  PROVE  /\ boot = "up" /\ boot' = "up" /\ cache' = cache /\ Open = {} /\ Open' = {}
         /\ Recovered' = cache
<1>1. /\ cpc = "write_log" /\ tail = Len(lh) /\ head' = lh
      /\ UNCHANGED <<disk, logd, cache, boot>>
  BY DEF write_head, logComplete
<1>2. boot = "up" /\ outstanding = 0 /\ Open = {} /\ Open' = {}
  BY <1>1, QuietStep DEF IInv, CommitsAlone, commit
<1>3. \A i \in 1 .. Len(lh) : logd[i] = cache[lh[i]]
  BY <1>1 DEF IInv, LoopsCopy
<1>4. \A b \in Blocks : ~Contains(lh, b) => disk[b] = cache[b]
  BY <1>1, <1>2, NothingElseDiffers
<1>5. /\ cache \in [Blocks -> Values]
      /\ lh \in Seq(Blocks) /\ IsInjective(lh)
  BY DEF IInv, TypeOK
<1>6. Recovered' = cache
  BY <1>1, <1>3, <1>4, <1>5, RecoversFrom, RecoveredIs
<1> QED BY <1>1, <1>2, <1>6

\* Clearing the header changes nothing for recovery: every block is installed.
LEMMA ClearPoint ==
  ASSUME LogAssumption, IInv, clear \/ recoverClears
  PROVE  Recovered = disk /\ Recovered' = disk /\ disk = cache /\ cache' = cache
<1>1. /\ tail = Len(lh) /\ head' = <<>> /\ disk' = disk /\ logd' = logd /\ cache' = cache
      /\ cpc = "install" \/ boot = "install"
  BY DEF clear, recoverClears, ClearLog
<1>2. head = lh /\ \A i \in 1 .. Len(lh) : disk[lh[i]] = logd[i]
  BY <1>1 DEF IInv, LoopsCopy
<1>3. /\ disk \in [Blocks -> Values] /\ cache \in [Blocks -> Values]
      /\ lh \in Seq(Blocks) /\ IsInjective(lh)
  BY DEF IInv, TypeOK
<1>4. Recovered = disk
  BY <1>2, <1>3, RecoversFrom, RecoveredIs, SMTT(30)
<1>5. Recovered' = disk
  BY <1>1, <1>3, NothingToRecover, RecoveredIs
<1>6. \A b \in Blocks : cache[b] = disk[b]
  BY <1>1, InstalledAll
<1>7. disk = cache
  BY <1>3, <1>6
<1> QED BY <1>1, <1>4, <1>5, <1>7

\* Copying to the log, before the commit point, and copying from it, after, change nothing.
LEMMA CopiesKeepRecovered ==
  ASSUME LogAssumption, IInv, write_log \/ install_trans \/ recoverInstalls
  PROVE  Recovered' = Recovered
<1>1. CASE write_log
  <2>1. cpc = "write_log" /\ disk' = disk /\ head' = head
    BY <1>1 DEF write_log
  <2>2. head = <<>> /\ disk \in [Blocks -> Values]
    BY <2>1 DEF IInv, TypeOK, CommitsAlone, WritesAreLogged
  <2>3. Recovered = disk
    BY <2>2, NothingToRecover, RecoveredIs
  <2>4. Recovered' = disk
    BY <2>1, <2>2, NothingToRecover, RecoveredIs
  <2> QED BY <2>3, <2>4
<1>2. CASE install_trans \/ recoverInstalls
  <2>1. /\ UNCHANGED <<head, logd>> /\ head = lh
        /\ tail + 1 \in 1 .. Len(lh)
        /\ \A b \in Blocks : disk'[b] = IF b = lh[tail + 1] THEN logd[tail + 1] ELSE disk[b]
    BY <1>2, InstallFacts DEF install_trans, recoverInstalls, IInv, LoopsCopy
  <2>2. Contains(head, lh[tail + 1])
    BY <2>1 DEF Contains
  <2>3. \A b \in Blocks : ~Contains(head, b) => disk'[b] = disk[b]
    BY <2>1, <2>2
  <2> QED BY <2>1, <2>3, RecoveredKept
<1> QED BY <1>1, <1>2

\* A step of the abstract disk that changes nothing.
LEMMA Stutters ==
  ASSUME Recovered' = Recovered, View' = View, Open' = Open
  PROVE  [Disk!Next]_(Disk!vars)
BY DEF Disk!vars, View, Open

LEMMA CallRefines ==
  ASSUME LogAssumption, IInv, NEW p \in Procs, OpStep(p)
  PROVE  [Disk!Next]_(Disk!vars)
<1>1. UNCHANGED <<disk, logd, head, boot>>
  BY DEF OpStep, begin_op, log_write, end_op, modify, diskVars
<1>2. Recovered' = Recovered
  BY <1>1, RecoveredKept
<1>3. CASE begin_op(p)
  <2>1. cache' = cache
    BY <1>3 DEF begin_op
  <2>2. CASE outstanding' = outstanding
    <3>1. pc' = [pc EXCEPT ![p] = "asleep"] /\ pc[p] \in {"idle", "begin"}
      <4>1. outstanding \in Nat
        BY DEF IInv, TypeOK
      <4> QED BY <1>3, <2>2, <4>1 DEF begin_op
    <3>2. Open' = Open
      BY <3>1 DEF Open, IInv, TypeOK
    <3> QED BY <1>1, <1>2, <2>1, <3>2, Stutters DEF View
  <2>3. CASE outstanding' # outstanding
    <3>1. p \notin Open /\ Open' = Open \cup {p}
      BY <1>3, <2>3, Admitted
    <3>2. Disk!Begin(p)
      BY <1>1, <1>2, <2>1, <3>1 DEF Disk!Begin, Open
    <3> QED BY <3>2 DEF Disk!Next
  <2> QED BY <2>2, <2>3
<1>4. CASE log_write(p)
  <2>1. cache' = cache /\ Open' = Open
    BY <1>4, LogWrites DEF log_write
  <2> QED BY <1>1, <1>2, <2>1, Stutters DEF View
<1>5. CASE end_op(p)
  <2>1. p \in Open /\ Open' = Open \ {p} /\ cache' = cache
    BY <1>5, Ends
  <2>2. Disk!End(p)
    BY <1>1, <1>2, <2>1 DEF Disk!End, Open
  <2> QED BY <2>2 DEF Disk!Next
<1>6. ASSUME NEW b \in Blocks, NEW v \in Values, modify(p, b, v)
      PROVE  [Disk!Next]_(Disk!vars)
  <2>1. pc[p] = "op" /\ cache' = [cache EXCEPT ![b] = v]
    BY <1>6 DEF modify
  <2>2. boot = "up" /\ p \in Open /\ Open' = Open
    BY <1>6, <2>1, CallIsOpen, Modifies
  <2>3. Disk!Write(p, b, v)
    BY <1>1, <1>2, <2>1, <2>2 DEF Disk!Write, Open
  <2> QED BY <2>3 DEF Disk!Next
<1> QED BY <1>3, <1>4, <1>5, <1>6 DEF OpStep

LEMMA QuietRefines ==
  ASSUME LogAssumption, IInv, commit \/ recover_from_log
  PROVE  [Disk!Next]_(Disk!vars)
<1>1. Open = {} /\ Open' = {}
  BY QuietStep
<1>2. CASE write_head
  <2>1. Disk!Commit
    BY <1>2, CommitPoint DEF Disk!Commit, Open
  <2> QED BY <2>1 DEF Disk!Next
<1>3. CASE clear \/ recoverClears
  <2>1. View' = View
    BY <1>3, ClearPoint DEF View
  <2> QED BY <1>1, <1>3, <2>1, ClearPoint, Stutters
<1>4. CASE write_log \/ install_trans \/ recoverInstalls
  <2>1. boot' = boot /\ (boot = "up" => cache' = cache)
    BY <1>4, InstallTransKeeps, InstallFacts DEF write_log, install_trans, recoverInstalls
  <2>2. View' = View
    BY <1>4, <2>1, CopiesKeepRecovered DEF View
  <2> QED BY <1>1, <1>4, <2>2, CopiesKeepRecovered, Stutters
<1>5. CASE commitStarts \/ committed \/ read_head
  <2>1. /\ UNCHANGED <<disk, logd, head, cache>>
        /\ (boot' = boot \/ (boot # "up" /\ boot' # "up"))
    BY <1>5 DEF commitStarts, committed, read_head, diskVars
  <2>2. Recovered' = Recovered
    BY <2>1, RecoveredKept
  <2> QED BY <1>1, <2>1, <2>2, Stutters DEF View
<1> QED BY <1>2, <1>3, <1>4, <1>5 DEF commit, recover_from_log

LEMMA CrashRefines ==
  ASSUME LogAssumption, IInv, crash
  PROVE  Disk!Next
<1>1. UNCHANGED <<disk, logd, head>> /\ boot' = "read_head" /\ pc' = [p \in Procs |-> "idle"]
  BY DEF crash, diskVars
<1>2. Open' = {}
  BY <1>1 DEF Open
<1>3. Recovered' = Recovered
  BY <1>1, RecoveredKept
<1>4. Disk!Crash
  BY <1>1, <1>2, <1>3 DEF Disk!Crash, Open
<1> QED BY <1>4 DEF Disk!Next

\* Wherever the machine stops, in a commit, in an installation or in the recovery from an
\* earlier crash, the calls of the last committed transaction are on disk as a whole and no
\* other write is: for any number of processes and blocks, whether or not the calls fit their
\* reservation, the log implements AtomicDisk.
THEOREM LogIsAtomic ==
  ASSUME LogAssumption
  PROVE  Spec => RefinesAtomicDisk
<1>1. Init => Disk!Init
  <2> SUFFICES ASSUME Init PROVE Disk!Init
    OBVIOUS
  <2>1. head = <<>> /\ cache = disk /\ boot = "up" /\ disk = [b \in Blocks |-> InitialValue]
    BY DEF Init
  <2>2. disk \in [Blocks -> Values]
    BY <2>1 DEF LogAssumption
  <2>3. Recovered = disk
    BY <2>1, <2>2, NothingToRecover, RecoveredIs
  <2>4. Open = {}
    BY InitInv
  <2> QED BY <2>1, <2>3, <2>4 DEF Disk!Init, Open
<1>2. IInv /\ [Next]_vars => [Disk!Next]_(Disk!vars)
  <2> SUFFICES ASSUME IInv, [Next]_vars PROVE [Disk!Next]_(Disk!vars)
    OBVIOUS
  <2>1. CASE UNCHANGED vars
    <3>1. UNCHANGED <<disk, logd, head, cache, boot, pc>>
      BY <2>1 DEF vars, diskVars, opVars
    <3>2. Recovered' = Recovered
      BY <3>1, RecoveredKept
    <3> QED BY <3>1, <3>2, Stutters DEF View, Open
  <2>2. CASE Next
    BY <2>2, CallRefines, QuietRefines, CrashRefines DEF Next
  <2> QED BY <2>1, <2>2
<1> QED BY <1>1, <1>2, IInvHolds, PTL DEF Spec, RefinesAtomicDisk, Disk!Spec
===============================================================================
