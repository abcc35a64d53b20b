------------------------------ MODULE FileSystem ------------------------------
(***************************************************************************)
(* Inodes, directories and the system calls on path names (fs.c and        *)
(* sysfile.c, the same in the three kernels), by several processes at      *)
(* once.                                                                   *)
(*                                                                         *)
(* The disk is what the buffer cache shows (BlockStore), in transactions   *)
(* that Log makes atomic; one buffer is changed at a time under its lock,  *)
(* so a change of disk structures under an inode's lock is one action.     *)
(* Actions end where a process waits for an inode's sleep lock, gives one  *)
(* up, or looks at the counters under icache.lock.  An inode has at most   *)
(* one block (FileBlocks is about more).  A directory block is a function    *)
(* from names to inode numbers: which slot an entry has is left out.       *)
(***************************************************************************)
EXTENDS Integers, Sequences, SequencesExt, FiniteSets, FiniteSetsExt

CONSTANTS Procs, Nobody,
          NINODES,  \* inodes on disk: 1 is the root, 0 means none
          NBLOCKS,  \* data blocks; 0 means none
          NINODE,   \* entries of the inode cache (param.h: 50)
          Names,    \* names of files, without "." and ".."
          Others,   \* names of files that fill the root up
          Calls,    \* the system calls that are tried
          MaxCalls  \* how many of them are made

ASSUME FileSystemAssumption ==
  NINODES \in Nat \ {0, 1, 2} /\ NBLOCKS \in Nat \ {0, 1} /\ NINODE \in Nat \ {0}

ROOTINO == 1
Inums   == 1 .. NINODES
Blocks  == 1 .. NBLOCKS
Entries == 1 .. NINODE
Dots    == {".", ".."}
DirBlock == [Names \cup Dots -> 0 .. NINODES]
Zero    == [n \in Names \cup Dots |-> 0]
Junk    == [n \in Names \cup Dots |-> ROOTINO] \* the data of a file, read as a directory
Types   == {"free", "dir", "file"}
Dinode  == [type : Types, nlink : 0 .. NINODES, addr : 0 .. NBLOCKS]
FreeInode == [type |-> "free", nlink |-> 0, addr |-> 0]
Panics  == {"none", "balloc", "bfree", "ialloc", "iget", "ilock", "iunlock", "unlink", "create",
            "dirlookup"}
Points  == {"idle", "todo", "namex", "namexLocked", "create", "createExisting",
            "createNew", "created", "opened", "linkOld", "linkPath", "linkNew", "linkBad", "unlink",
            "unlinkEntry", "unlinkInode", "chdir", "read", "write", "chdirDone", "closed",
            "exit", "exited", "failed", "ok"}

VARIABLES
  dinode,  \* inodes on disk
  bitmap,  \* blocks in use
  data,    \* directory blocks
  inum, ref, valid, ino, \* inode cache: i-number, ref, valid, copy of the inode
  lock,    \* who holds its sleep lock
  cwd, open, writable, \* entry of the current directory; of the open file, or 0
  pc,
  call,    \* the call of a process
  path, name, \* namex(): what is left of the path; its last element
  ip, dp,  \* the variables ip and dp of the call
  todo,    \* calls of ilock(), iunlock() and iput() that come next, then cont
  cont,
  ncalls,
  overlapped, \* two iput() of an inode without links looked at ref before one of them dropped its own
  orphaned, \* an entry was made in a directory that had been removed
  panicked

disk  == <<dinode, bitmap, data>>
cache == <<inum, ref, valid, ino>>
files  == <<open, writable>>
locals == <<call, path, name, ip, dp>>
history == <<overlapped, orphaned>>
flow  == <<pc, todo, cont>>
vars  == <<disk, cache, lock, cwd, files, flow, locals, ncalls, history, panicked>>

TypeOK ==
  /\ dinode \in [Inums -> Dinode] /\ bitmap \subseteq Blocks /\ data \in [Blocks -> DirBlock]
  /\ inum \in [Entries -> 0 .. NINODES] /\ ref \in [Entries -> Nat]
  /\ valid \in [Entries -> BOOLEAN] /\ ino \in [Entries -> Dinode]
  /\ lock \in [Entries -> Procs \cup {Nobody}]
  /\ cwd \in [Procs -> 0 .. NINODE] /\ open \in [Procs -> 0 .. NINODE] /\ writable \in [Procs -> BOOLEAN]
  /\ pc \in [Procs -> Points] /\ cont \in [Procs -> Points]
  /\ ip \in [Procs -> 0 .. NINODE] /\ dp \in [Procs -> 0 .. NINODE]
  /\ ncalls \in Nat
  /\ history \in BOOLEAN \X BOOLEAN /\ panicked \in Panics

NoCall == [op |-> "none", path |-> <<>>]

\* The root has a directory d, a file f and the files of others; everybody is in the root,
\* or in d, and may have f open.
Disk(others) ==
  LET crowd == 4 .. 3 + Len(others) IN
  /\ dinode = [i \in Inums |-> CASE i = 1 -> [type |-> "dir", nlink |-> 2, addr |-> 1]
                                 [] i = 2 -> [type |-> "dir", nlink |-> 1, addr |-> 2]
                                 [] i = 3 -> [type |-> "file", nlink |-> 1, addr |-> 0]
                                 [] i \in crowd -> [type |-> "file", nlink |-> 1, addr |-> i - 1]
                                 [] OTHER -> FreeInode]
  /\ bitmap = 1 .. 2 + Len(others)
  /\ data = [b \in Blocks |->
               CASE b = 1 -> [n \in Names \cup Dots |->
                                CASE n \in Dots -> 1 [] n = "d" -> 2 [] n = "f" -> 3
                                  [] n \in Range(others) -> 3 + CHOOSE k \in DOMAIN others : others[k] = n
                                  [] OTHER -> 0]
                 [] b = 2 -> [Zero EXCEPT !["."] = 2, ![".."] = 1]
                 [] OTHER -> Junk]

InitWith(others, dirs, opened) ==
  /\ Disk(others)
  /\ cwd \in [Procs -> dirs]
  /\ open \in [Procs -> opened] /\ writable = [p \in Procs |-> open[p] # 0]
  /\ inum = [e \in Entries |-> IF e <= 3 THEN e ELSE 0]
  /\ ref = [e \in Entries |-> Cardinality({p \in Procs : cwd[p] = e})
                               + Cardinality({p \in Procs : open[p] = e})]
  /\ valid = [e \in Entries |-> FALSE] /\ ino = [e \in Entries |-> FreeInode]
  /\ lock = [e \in Entries |-> Nobody]
  /\ pc = [p \in Procs |-> "idle"] /\ cont = [p \in Procs |-> "idle"]
  /\ call = [p \in Procs |-> NoCall]
  /\ path = [p \in Procs |-> <<>>] /\ name = [p \in Procs |-> "."]
  /\ ip = [p \in Procs |-> 0] /\ dp = [p \in Procs |-> 0]
  /\ todo = [p \in Procs |-> <<>>]
  /\ ncalls = 0
  /\ overlapped = FALSE /\ orphaned = FALSE /\ panicked = "none"

Init == InitWith(Others, {1, 2}, {0, 3})

Panic(why) ==
  panicked' = why /\ UNCHANGED <<disk, cache, lock, cwd, files, flow, locals, ncalls, history>>

\* The process goes on at point c when it has done what is in s.
Then(p, s, c) ==
  /\ todo' = [todo EXCEPT ![p] = s]
  /\ cont' = [cont EXCEPT ![p] = c]
  /\ pc' = [pc EXCEPT ![p] = "todo"]

Ilock(e)  == <<"ilock", e>>
Unlock(e) == <<"iunlock", e>>
Put(e)    == <<"iput", e>>
UnlockPut(e) == <<Unlock(e), Put(e)>>

-------------------------------------------------------------------------------
(* The inode cache *)

Cached(i) == {e \in Entries : ref[e] > 0 /\ inum[e] = i}
Unused    == {e \in Entries : ref[e] = 0}

\* The entry that iget() returns, or 0 for the panic "iget: no inodes".
IgetEntry(i) == IF Cached(i) # {} THEN Min(Cached(i))
                ELSE IF Unused # {} THEN Min(Unused) ELSE 0

Iget(i) ==
  LET e == IgetEntry(i) IN
  /\ ref' = [ref EXCEPT ![e] = @ + 1]
  /\ inum' = [inum EXCEPT ![e] = i]
  /\ valid' = [valid EXCEPT ![e] = @ /\ Cached(i) # {}]
  /\ UNCHANGED ino

\* The next thing to do is op.
Pending(p, op) == pc[p] = "todo" /\ todo[p] # <<>> /\ todo[p][1][1] = op
Now(p) == todo[p][1][2]
Rest(p) ==
  /\ todo' = [todo EXCEPT ![p] = Tail(@)]
  /\ pc' = [pc EXCEPT ![p] = IF Len(todo[p]) = 1 THEN cont[p] ELSE @]

ilock(p) ==
  /\ Pending(p, "ilock")
  /\ LET e == Now(p)
         d == IF valid[e] THEN ino[e] ELSE dinode[inum[e]]
     IN IF ref[e] < 1 \/ (lock[e] = Nobody /\ ~valid[e] /\ d.type = "free") THEN Panic("ilock")
        ELSE /\ lock[e] = Nobody
             /\ lock' = [lock EXCEPT ![e] = p]
             /\ ino' = [ino EXCEPT ![e] = d]
             /\ valid' = [valid EXCEPT ![e] = TRUE]
             /\ Rest(p)
             /\ UNCHANGED <<disk, inum, ref, cwd, files, cont, locals, ncalls, history, panicked>>

\* iunlock(), and releasesleep() in iput(), which has no check.
iunlock(p) ==
  /\ Pending(p, "iunlock") \/ Pending(p, "releasesleep")
  /\ IF Pending(p, "iunlock") /\ (lock[Now(p)] # p \/ ref[Now(p)] < 1) THEN Panic("iunlock")
     ELSE /\ lock' = [lock EXCEPT ![Now(p)] = Nobody]
          /\ Rest(p)
          /\ UNCHANGED <<disk, cache, cwd, files, cont, locals, ncalls, history, panicked>>

\* iput() finds an inode without links, and ref = 1 under icache.lock.
FreesInode(e) == valid[e] /\ ino[e].nlink = 0 /\ ref[e] = 1

\* Somebody is in iput() of the entry, and has looked at ref but not dropped the reference.
Dropping(e) == \E q \in Procs : todo[q] # <<>> /\ todo[q][1] = <<"drop", e>>

\* iput(): lock the inode and look at ref; then free the inode, unlock it, drop the reference.
iput(p) ==
  /\ Pending(p, "iput")
  /\ LET e == Now(p) IN
     /\ lock[e] = Nobody
     /\ lock' = [lock EXCEPT ![e] = p]
     /\ todo' = [todo EXCEPT ![p] =
          (IF FreesInode(e) THEN << <<"ifree", e>> >> ELSE <<>>)
            \o << <<"releasesleep", e>>, <<"drop", e>> >> \o Tail(@)]
     /\ overlapped' = (overlapped \/ (valid[e] /\ ino[e].nlink = 0 /\ Dropping(e)))
  /\ UNCHANGED <<disk, cache, cwd, files, pc, cont, locals, ncalls, orphaned, panicked>>

\* The block stays allocated.
Truncated_keeps(b) == bitmap

\* bfree() of the block, if there is one.
Truncated(b) == bitmap \ {b}

\* itrunc(), ip->type = 0, iupdate(), ip->valid = 0
ifree(p) ==
  /\ Pending(p, "ifree")
  /\ LET e == Now(p)
         b == ino[e].addr
     IN IF b # 0 /\ b \notin bitmap THEN Panic("bfree")
        ELSE /\ bitmap' = Truncated(b)
             /\ ino' = [ino EXCEPT ![e].type = "free", ![e].addr = 0]
             /\ dinode' = [dinode EXCEPT ![inum[e]] = ino'[e]]
             /\ valid' = [valid EXCEPT ![e] = FALSE]
             /\ Rest(p)
             /\ UNCHANGED <<data, inum, ref, lock, cwd, files, cont, locals, ncalls, history, panicked>>

drop(p) ==
  /\ Pending(p, "drop")
  /\ ref' = [ref EXCEPT ![Now(p)] = @ - 1]
  /\ Rest(p)
  /\ UNCHANGED <<disk, inum, valid, ino, lock, cwd, files, cont, locals, ncalls, history, panicked>>

Inodes(p) == ilock(p) \/ iunlock(p) \/ iput(p) \/ ifree(p) \/ drop(p)

-------------------------------------------------------------------------------
(* Directories and paths *)

\* What dirlookup() finds in the directory of entry e, or 0.
dirlookup(e, n) == IF ino[e].addr = 0 THEN 0 ELSE data[ino[e].addr][n]

isdirempty(e) == \A n \in Names : dirlookup(e, n) = 0

\* "/" starts at the root, anything else at the current directory.
Start(p, s) ==
  /\ IF s # <<>> /\ s[1] = "/"
     THEN Iget(ROOTINO) /\ ip' = [ip EXCEPT ![p] = IgetEntry(ROOTINO)]
                        /\ path' = [path EXCEPT ![p] = Tail(s)]
     ELSE /\ ref' = [ref EXCEPT ![cwd[p]] = @ + 1]
          /\ ip' = [ip EXCEPT ![p] = cwd[p]] /\ path' = [path EXCEPT ![p] = s]
          /\ UNCHANGED <<inum, valid, ino>>

\* The calls that look for the directory of the last element; for link(), its second path.
WantsParent(p) == call[p].op \in {"create", "mkdir", "unlink"} \/ (call[p].op = "link" /\ dp[p] # 0)

\* The paths of link() are looked up one after the other; in between dp keeps the old inode.
NamexFails(p) == IF call[p].op = "link" /\ dp[p] # 0 THEN <<Ilock(dp[p])>> ELSE <<>>
NamexFailed(p) == IF call[p].op = "link" /\ dp[p] # 0 THEN "linkBad" ELSE "failed"

\* Where the call goes on when the path is resolved and its inode, or the directory of its
\* last element, is locked.
Found(p) == CASE call[p].op \in {"create", "mkdir"} -> "create"
              [] call[p].op \in {"open", "openw"} -> "opened"
              [] call[p].op \in {"chdir", "unlink"} -> call[p].op
              [] call[p].op = "link" -> IF dp[p] = 0 THEN "linkOld" ELSE "linkNew"

\* A round of the loop of namex(): lock the directory, if there is an element left.
namex(p) ==
  /\ pc[p] = "namex"
  /\ IF path[p] # <<>> THEN Then(p, <<Ilock(ip[p])>>, "namexLocked")
     ELSE IF WantsParent(p) THEN Then(p, <<Put(ip[p])>> \o NamexFails(p), NamexFailed(p))
     ELSE Then(p, <<Ilock(ip[p])>>, Found(p))
  /\ UNCHANGED <<disk, cache, lock, cwd, files, locals, ncalls, history, panicked>>

namexLocked(p) ==
  LET e == ip[p]
      n == path[p][1]
      last == Len(path[p]) = 1
      next == dirlookup(e, n)
  IN
  /\ pc[p] = "namexLocked"
  /\ IF ino[e].type # "dir" \/ (~(WantsParent(p) /\ last) /\ next = 0)
     THEN /\ Then(p, UnlockPut(e) \o NamexFails(p), NamexFailed(p))
          /\ UNCHANGED <<cache, ip, path, name, panicked>>
     ELSE IF WantsParent(p) /\ last
     THEN /\ name' = [name EXCEPT ![p] = n]
          /\ Then(p, <<Unlock(e), Ilock(e)>>, Found(p))
          /\ UNCHANGED <<cache, ip, path, panicked>>
     ELSE IF IgetEntry(next) = 0
     THEN panicked' = "iget" /\ UNCHANGED <<cache, flow, ip, path, name>>
     ELSE /\ Iget(next)
          /\ ip' = [ip EXCEPT ![p] = IgetEntry(next)]
          /\ path' = [path EXCEPT ![p] = Tail(@)]
          /\ Then(p, UnlockPut(e), "namex")
          /\ UNCHANGED <<name, panicked>>
  /\ UNCHANGED <<disk, lock, cwd, files, call, dp, ncalls, history>>

\* The entry of a name in directory block b becomes i.
SetEntry(d, b, n, i) == [d EXCEPT ![b][n] = i]

-------------------------------------------------------------------------------
(* System calls *)

OnFile == {"read", "write", "close"}

\* exit() closes the file and gives the current directory back.
Exit(p) == IF open[p] = 0 THEN <<Put(cwd[p])>> ELSE <<Put(open[p]), Put(cwd[p])>>

\* begin_op() and namei() or nameiparent().  The calls on a file have no path.
starts(p, c) ==
  /\ pc[p] = "idle"
  /\ c.op \in OnFile => open[p] # 0
  /\ c.op \in {"open", "openw", "create"} => open[p] = 0
  /\ call' = [call EXCEPT ![p] = c]
  /\ ncalls' = ncalls + 1
  /\ CASE c.op = "write" /\ ~writable[p] -> /\ pc' = [pc EXCEPT ![p] = "failed"]
                                             /\ UNCHANGED <<todo, cont, cache, ip, path>>
       [] c.op = "read" \/ (c.op = "write" /\ writable[p]) ->
            Then(p, <<Ilock(open[p])>>, c.op) /\ UNCHANGED <<cache, ip, path>>
       [] c.op = "exit" -> Then(p, Exit(p), "exited") /\ UNCHANGED <<cache, ip, path>>
       [] c.op = "close" -> /\ Then(p, <<Put(open[p])>>, "closed")
                            /\ UNCHANGED <<cache, ip, path>>
       [] OTHER -> /\ Start(p, c.path)
                   /\ pc' = [pc EXCEPT ![p] = "namex"] /\ UNCHANGED <<todo, cont>>
  /\ UNCHANGED <<disk, lock, cwd, files, name, dp, history, panicked>>

FreeInums == {i \in Inums : dinode[i].type = "free"}
NewType(p) == IF call[p].op = "mkdir" THEN "dir" ELSE "file"

\* create(): the directory is ip; the entry is there, or ialloc() makes an inode.
create(p) ==
  LET e == ip[p]
      i == dirlookup(e, name[p])
      new == Min(FreeInums)
      got == IF i # 0 THEN i ELSE new
  IN
  /\ pc[p] = "create"
  /\ IF ino[e].type # "dir" THEN Panic("dirlookup")
     ELSE IF i = 0 /\ FreeInums = {} THEN Panic("ialloc")
     ELSE IF IgetEntry(got) = 0 THEN Panic("iget")
     ELSE /\ Iget(got)
          /\ dp' = [dp EXCEPT ![p] = e] /\ ip' = [ip EXCEPT ![p] = IgetEntry(got)]
          /\ IF i # 0
             THEN /\ Then(p, Append(UnlockPut(e), Ilock(IgetEntry(i))), "createExisting")
                  /\ UNCHANGED dinode
             ELSE /\ dinode' = [dinode EXCEPT ![new] = [FreeInode EXCEPT !.type = NewType(p)]]
                  /\ Then(p, <<Ilock(IgetEntry(new))>>, "createNew")
          /\ UNCHANGED <<bitmap, data, lock, cwd, files, call, path, name, ncalls, history, panicked>>

createExisting(p) ==
  /\ pc[p] = "createExisting"
  /\ IF NewType(p) = "file" /\ ino[ip[p]].type = "file"
     THEN pc' = [pc EXCEPT ![p] = "opened"] /\ UNCHANGED <<todo, cont>>
     ELSE Then(p, UnlockPut(ip[p]), "failed")
  /\ UNCHANGED <<disk, cache, lock, cwd, files, locals, ncalls, history, panicked>>

ParentLinks(p) == IF NewType(p) = "dir" THEN 1 ELSE 0

\* balloc() clears the block.
balloc(b, d) == [d EXCEPT ![b] = Zero]

\* The rest of create(): links, "." and "..", the entry, and the directory is given back.
createNew(p) ==
  LET e == ip[p]
      b == Min(Blocks \ bitmap)
      isDir == NewType(p) = "dir"
      blank == IF isDir THEN balloc(b, data) ELSE data
      dots  == IF isDir THEN SetEntry(SetEntry(blank, b, ".", inum[e]), b, "..", inum[dp[p]])
               ELSE blank
  IN
  /\ pc[p] = "createNew"
  /\ IF isDir /\ bitmap = Blocks THEN Panic("balloc")
     ELSE IF dirlookup(dp[p], name[p]) # 0 THEN Panic("create")
     ELSE /\ ino' = [ino EXCEPT ![e] = [type |-> NewType(p), nlink |-> 1,
                                        addr |-> IF isDir THEN b ELSE 0],
                                ![dp[p]].nlink = @ + ParentLinks(p)]
          /\ dinode' = [dinode EXCEPT ![inum[e]] = ino'[e], ![inum[dp[p]]] = ino'[dp[p]]]
          /\ bitmap' = IF isDir THEN bitmap \cup {b} ELSE bitmap
          /\ data' = SetEntry(dots, ino[dp[p]].addr, name[p], inum[e])
          /\ orphaned' = (orphaned \/ ino[dp[p]].nlink = 0)
          /\ Then(p, UnlockPut(dp[p]), "created")
          /\ UNCHANGED <<inum, ref, valid, lock, cwd, files, locals, ncalls, overlapped, panicked>>

created(p) ==
  /\ pc[p] = "created"
  /\ IF NewType(p) = "file" THEN pc' = [pc EXCEPT ![p] = "opened"] /\ UNCHANGED <<todo, cont>>
     ELSE Then(p, UnlockPut(ip[p]), "ok")
  /\ UNCHANGED <<disk, cache, lock, cwd, files, locals, ncalls, history, panicked>>

\* The inode stays locked.
OpenFails_locked(e) == <<Put(e)>>

OpenFails(e) == UnlockPut(e)

\* A directory is only read.
MayOpen(p) == call[p].op = "openw" => ino[ip[p]].type # "dir"

\* The rest of sys_open(); there may be no file or descriptor left.
opened(p) ==
  /\ pc[p] = "opened"
  /\ \/ /\ MayOpen(p)
        /\ Then(p, <<Unlock(ip[p])>>, "ok")
        /\ open' = [open EXCEPT ![p] = ip[p]]
        /\ writable' = [writable EXCEPT ![p] = call[p].op # "open"]
     \/ Then(p, OpenFails(ip[p]), "failed") /\ UNCHANGED files
  /\ UNCHANGED <<disk, cache, lock, cwd, locals, ncalls, history, panicked>>

\* nlink of the locked entry e changes, and iupdate() writes it.
AddLinks(e, k) ==
  /\ ino' = [ino EXCEPT ![e].nlink = @ + k]
  /\ dinode' = [dinode EXCEPT ![inum[e]] = ino'[e]]

\* A directory may get a second name.
MayLink_any(e) == TRUE

MayLink(e) == ino[e].type # "dir"

\* sys_link(): the old path.  Directories have one name only.
linkOld(p) ==
  LET e == ip[p] IN
  /\ pc[p] = "linkOld"
  /\ IF ~MayLink(e) THEN Then(p, UnlockPut(e), "failed") /\ UNCHANGED <<ino, dinode>>
     ELSE AddLinks(e, 1) /\ Then(p, <<Unlock(e)>>, "linkPath")
  /\ UNCHANGED <<bitmap, data, inum, ref, valid, lock, cwd, files, locals, ncalls, history, panicked>>

\* nameiparent() of the new path; dp is now the variable ip of sys_link().
linkPath(p) ==
  /\ pc[p] = "linkPath"
  /\ Start(p, call[p].new)
  /\ dp' = [dp EXCEPT ![p] = ip[p]]
  /\ pc' = [pc EXCEPT ![p] = "namex"]
  /\ UNCHANGED <<disk, lock, cwd, files, todo, cont, call, name, ncalls, history, panicked>>

\* The new path: dirlink() fails if the name is there, and drops what it found.
linkNew(p) ==
  LET d == ip[p]
      i == dirlookup(d, name[p])
  IN
  /\ pc[p] = "linkNew"
  /\ IF ino[d].type # "dir" THEN Panic("dirlookup")
     ELSE IF i # 0
     THEN IF IgetEntry(i) = 0 THEN Panic("iget")
          ELSE /\ Iget(i)
               /\ Then(p, <<Put(IgetEntry(i))>> \o Append(UnlockPut(d), Ilock(dp[p])), "linkBad")
               /\ UNCHANGED <<disk, lock, cwd, files, locals, ncalls, history, panicked>>
     ELSE /\ data' = SetEntry(data, ino[d].addr, name[p], inum[dp[p]])
          /\ orphaned' = (orphaned \/ ino[d].nlink = 0)
          /\ Then(p, Append(UnlockPut(d), Put(dp[p])), "ok")
          /\ UNCHANGED <<dinode, bitmap, cache, lock, cwd, files, locals, ncalls, overlapped, panicked>>

LinkUndone(e) == AddLinks(e, -1)

linkBad(p) ==
  /\ pc[p] = "linkBad"
  /\ LinkUndone(dp[p])
  /\ Then(p, UnlockPut(dp[p]), "failed")
  /\ UNCHANGED <<bitmap, data, inum, ref, valid, lock, cwd, files, locals, ncalls, history, panicked>>

\* sys_unlink(): the entry.
unlink(p) ==
  LET d == ip[p]
      i == dirlookup(d, name[p])
  IN
  /\ pc[p] = "unlink"
  /\ IF name[p] \in Dots \/ i = 0 THEN Then(p, UnlockPut(d), "failed") /\ UNCHANGED <<cache, ip, dp, panicked>>
     ELSE IF ino[d].type # "dir" THEN panicked' = "dirlookup" /\ UNCHANGED <<cache, ip, dp, flow>>
     ELSE IF IgetEntry(i) = 0 THEN panicked' = "iget" /\ UNCHANGED <<cache, ip, dp, flow>>
     ELSE /\ Iget(i)
          /\ dp' = [dp EXCEPT ![p] = d] /\ ip' = [ip EXCEPT ![p] = IgetEntry(i)]
          /\ Then(p, <<Ilock(IgetEntry(i))>>, "unlinkEntry")
          /\ UNCHANGED panicked
  /\ UNCHANGED <<disk, lock, cwd, files, call, path, name, ncalls, history>>

MayRemove(e) == ino[e].type = "dir" => isdirempty(e)

unlinkEntry(p) ==
  LET e == ip[p]
      d == dp[p]
  IN
  /\ pc[p] = "unlinkEntry"
  /\ IF ino[e].nlink < 1 THEN Panic("unlink")
     ELSE IF ~MayRemove(e)
     THEN /\ Then(p, UnlockPut(e) \o UnlockPut(d), "failed")
          /\ UNCHANGED <<disk, cache, lock, cwd, files, locals, ncalls, history, panicked>>
     ELSE /\ data' = SetEntry(data, ino[d].addr, name[p], 0)
          /\ IF ino[e].type = "dir" THEN AddLinks(d, -1) ELSE UNCHANGED <<ino, dinode>>
          /\ Then(p, UnlockPut(d), "unlinkInode")
          /\ UNCHANGED <<bitmap, inum, ref, valid, lock, cwd, files, locals, ncalls, history, panicked>>

unlinkInode(p) ==
  /\ pc[p] = "unlinkInode"
  /\ AddLinks(ip[p], -1)
  /\ Then(p, UnlockPut(ip[p]), "ok")
  /\ UNCHANGED <<bitmap, data, inum, ref, valid, lock, cwd, files, locals, ncalls, history, panicked>>

chdir(p) ==
  /\ pc[p] = "chdir"
  /\ IF ino[ip[p]].type # "dir" THEN Then(p, UnlockPut(ip[p]), "failed")
     ELSE Then(p, <<Unlock(ip[p]), Put(cwd[p])>>, "chdirDone")
  /\ UNCHANGED <<disk, cache, lock, cwd, files, locals, ncalls, history, panicked>>

\* fileread()
read(p) ==
  /\ pc[p] = "read"
  /\ Then(p, <<Unlock(open[p])>>, "ok")
  /\ UNCHANGED <<disk, cache, lock, cwd, files, locals, ncalls, history, panicked>>

\* filewrite() of a block.
write(p) ==
  LET e == open[p]
      b == IF ino[e].addr = 0 THEN Min(Blocks \ bitmap) ELSE ino[e].addr
  IN
  /\ pc[p] = "write"
  /\ IF ino[e].addr = 0 /\ bitmap = Blocks THEN Panic("balloc")
     ELSE /\ ino' = [ino EXCEPT ![e].addr = b]
          /\ dinode' = [dinode EXCEPT ![inum[e]] = ino'[e]]
          /\ bitmap' = bitmap \cup {b}
          /\ data' = [data EXCEPT ![b] = Junk]
          /\ Then(p, <<Unlock(e)>>, "ok")
          /\ UNCHANGED <<inum, ref, valid, lock, cwd, files, locals, ncalls, history, panicked>>

\* end_op() and the return: chdir() and close() change the process last, exit() ends it.
returns(p) ==
  /\ pc[p] \in {"failed", "ok", "chdirDone", "closed", "exited"}
  /\ cwd' = CASE pc[p] = "chdirDone" -> [cwd EXCEPT ![p] = ip[p]]
              [] pc[p] = "exited" -> [cwd EXCEPT ![p] = 0]
              [] OTHER -> cwd
  /\ open' = IF pc[p] \in {"closed", "exited"} THEN [open EXCEPT ![p] = 0] ELSE open
  /\ pc' = [pc EXCEPT ![p] = IF @ = "exited" THEN "exit" ELSE "idle"]
  /\ call' = [call EXCEPT ![p] = NoCall] /\ path' = [path EXCEPT ![p] = <<>>]
  /\ name' = [name EXCEPT ![p] = "."]
  /\ ip' = [ip EXCEPT ![p] = 0] /\ dp' = [dp EXCEPT ![p] = 0]
  /\ cont' = [cont EXCEPT ![p] = "idle"]
  /\ UNCHANGED <<disk, cache, lock, writable, todo, ncalls, history, panicked>>

-------------------------------------------------------------------------------
Continues(p) ==
  \/ Inodes(p) \/ namex(p) \/ namexLocked(p) \/ create(p) \/ createExisting(p)
  \/ createNew(p) \/ created(p) \/ opened(p) \/ linkOld(p) \/ linkPath(p) \/ linkNew(p) \/ linkBad(p)
  \/ unlink(p) \/ unlinkEntry(p) \/ unlinkInode(p) \/ chdir(p) \/ read(p) \/ write(p) \/ returns(p)

Next ==
  /\ panicked = "none"
  /\ \E p \in Procs : Continues(p) \/ (ncalls < MaxCalls /\ \E c \in Calls : starts(p, c))

Spec == Init /\ [][Next]_vars

\* Processes go on.
FairSpec == Spec /\ \A p \in Procs : WF_vars(Continues(p))

-------------------------------------------------------------------------------
(* Properties. *)

Allocated == {i \in Inums : dinode[i].type # "free"}
Dirs == {i \in Allocated : dinode[i].type = "dir" /\ dinode[i].addr # 0}
Entry(d, n) == data[dinode[d].addr][n]

\* The directory entries that name inode i: "." is not counted, nor ".." of the root and of a
\* directory that was removed.
LinksTo(i) ==
  Cardinality({x \in Dirs \X (Names \cup {".."}) :
                 /\ Entry(x[1], x[2]) = i
                 /\ x[2] = ".." => x[1] # ROOTINO /\ dinode[x[1]].nlink > 0})

Quiet == panicked = "none" /\ \A p \in Procs : pc[p] \in {"idle", "exit"}

Users(e) == Cardinality({p \in Procs : cwd[p] = e}) + Cardinality({p \in Procs : open[p] = e})

InUse(i) == \E e \in Entries : inum[e] = i /\ ref[e] > 0

\* An inode that has lost its last name and its last user is free again (the comment of
\* iput()).  It is false if the last two users drop it at the same time.
RemovedIsFreed ==
  Quiet /\ ~orphaned => \A i \in Allocated : dinode[i].nlink > 0 \/ InUse(i)

\* When no call is running, whatever calls have interleaved and failed before: nlink is the
\* number of names of an inode, an inode is allocated as long as it has a name or is in use,
\* every block in use belongs to exactly one inode, and no reference or lock is left over.
\* It is false once an entry was made in a directory that had been removed (orphaned), and,
\* for the freeing of inodes, once two calls of iput() have overlapped.
QuietIsConsistent ==
  Quiet /\ ~orphaned =>
    /\ \A i \in Allocated \ {ROOTINO} : dinode[i].nlink = LinksTo(i)
    /\ dinode[ROOTINO].nlink = 1 + LinksTo(ROOTINO)
    /\ overlapped \/ RemovedIsFreed
    /\ bitmap = {dinode[i].addr : i \in Allocated} \ {0}
    /\ \A i, j \in Allocated : dinode[i].addr = dinode[j].addr /\ i # j => dinode[i].addr = 0
    /\ \A e \in Entries : ref[e] = Users(e) /\ lock[e] = Nobody

\* A name never leads to an inode that is free or of another file: the entry goes before the
\* inode, also while other calls hold on to the inode.
NamesAreValid ==
  ~orphaned => \A d \in Dirs, n \in Names : Entry(d, n) # 0 => Entry(d, n) \in Allocated

\* The inode cache is write-through: what an unlocked entry holds is what is on disk, and an
\* inode has one entry.
CacheIsCoherent ==
  /\ \A e \in Entries : ref[e] > 0 /\ valid[e] /\ lock[e] = Nobody => ino[e] = dinode[inum[e]]
  /\ \A e, f \in Entries : ref[e] > 0 /\ ref[f] > 0 /\ inum[e] = inum[f] => e = f

\* No panic of fs.c or sysfile.c is reached but those for a full disk or cache.
NoPanic == orphaned \/ panicked \in {"none", "balloc", "ialloc", "iget"}

\* Names, links, blocks, references and the inode cache agree, whatever calls have
\* interleaved or failed.
FilesAreConsistent ==
  TypeOK /\ QuietIsConsistent /\ NamesAreValid /\ CacheIsCoherent /\ NoPanic

Returns(p) == pc[p] \in {"idle", "exit"} \/ panicked # "none"

\* Every call returns: "the separation [of ilock() from iget()] also helps avoid deadlock and
\* races during pathname lookup" (fs.c).  It is false: see Circle.
CallsReturn == \A p \in Procs : pc[p] # "idle" ~> Returns(p)

\* The entry whose lock a process waits for, or takes next.
Wants(p) == IF pc[p] = "todo" /\ todo[p][1][1] \in {"ilock", "iput"} THEN Now(p) ELSE 0

\* create() and unlink() drop the directory while they hold its file, iput() locks it again,
\* and another call holds the directory and waits for the file.
Circle ==
  \E p, q \in Procs : /\ p # q /\ Wants(p) # 0 /\ Wants(q) # 0
                      /\ lock[Wants(p)] = q /\ lock[Wants(q)] = p
                      /\ todo[p][1][1] = "iput"

\* But for that circle every call returns, whatever the others do: locks are given back on
\* every path, and no other order of locks can stop two calls.
CallsReturnOrCircle == \A p \in Procs : pc[p] # "idle" ~> Returns(p) \/ Circle
===============================================================================
