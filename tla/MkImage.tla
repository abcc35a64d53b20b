-------------------------------- MODULE MkImage --------------------------------
(***************************************************************************)
(* mkfs.c: the directory, the inodes and the bitmap of the image that the  *)
(* kernel starts from, for any list of files.  The unit of length is a     *)
(* directory entry, DPB of them a block; a file has no more blocks than an *)
(* inode has direct ones (indirect blocks are in FileBlocks).              *)
(*                                                                         *)
(* winode(), rinode(), wsect() and rsect() write and read at once, so that *)
(* the inode and what is on the disk are the same thing here.              *)
(***************************************************************************)
EXTENDS Naturals, Sequences, SequencesExt

CONSTANTS DIRSIZ,
          DPB,       \* BSIZE / sizeof(struct dirent)
          nmeta,     \* boot block, superblock, log, inodes, bitmap
          NBITS,     \* BSIZE * 8: the blocks that a block of the bitmap describes
          FileLists  \* the arguments: for each file its name and its length

ROOTINO == 1

VARIABLES
  args,      \* the files on the command line
  done,      \* how many of them are done
  inum,      \* the inode that is being filled, 0 if none
  image,     \* inodes, blocks, and the first block and inode that are free
  bitmap,    \* the blocks that balloc() has marked
  pc

vars == <<args, done, inum, image, bitmap, pc>>

EmptyImage == [inodes |-> <<>>, blocks |-> [b \in {} |-> <<>>], freeblock |-> nmeta]

Init ==
  /\ args \in FileLists
  /\ done = 0 /\ inum = 0
  /\ image = EmptyImage
  /\ bitmap = {}
  /\ pc = "root"

-------------------------------------------------------------------------------

FreeInode(im) == Len(im.inodes) + 1

ialloc(im, type) ==
  [im EXCEPT !.inodes = Append(@, [type |-> type, nlink |-> 1, size |-> 0, addrs |-> <<>>])]

\* iappend() of one unit: the last block if there is room in it, or a new one.
Appended(im, ino, x) ==
  LET node == im.inodes[ino]
      old  == node.size \div DPB < Len(node.addrs)
      b    == IF old THEN node.addrs[Len(node.addrs)] ELSE im.freeblock
  IN [inodes    |-> [im.inodes EXCEPT ![ino].size = @ + 1,
                                      ![ino].addrs = IF old THEN @ ELSE Append(@, b)],
      blocks    |-> [c \in DOMAIN im.blocks \cup {b} |->
                       IF c # b THEN im.blocks[c]
                       ELSE IF old THEN Append(im.blocks[b], x) ELSE <<x>>],
      freeblock |-> IF old THEN im.freeblock ELSE im.freeblock + 1]

iappend(im, ino, xs) == FoldLeft(LAMBDA acc, x : Appended(acc, ino, x), im, xs)

Prefix(xs, n) == SubSeq(xs, 1, IF Len(xs) < n THEN Len(xs) ELSE n)

\* strncpy() into the field of the entry.
Cut(name) == Prefix(name, DIRSIZ)

\* The name of the i-th file in the image.
Stripped(i) == IF Head(args[i].name) = "_" THEN Tail(args[i].name) ELSE args[i].name

Dirent(ino, name) == <<[inum |-> ino, name |-> Cut(name)]>>

\* What read() gets from the i-th file between two positions.
Text(i, from, to) == [j \in 1 .. (to - from) |-> [file |-> i, at |-> from + j]]

\* The root directory with "." and "..".
makeRoot ==
  /\ pc = "root" /\ pc' = "files"
  /\ image' = iappend(ialloc(image, "dir"), FreeInode(image),
                      Dirent(FreeInode(image), <<".">>) \o Dirent(FreeInode(image), <<".", ".">>))
  /\ UNCHANGED <<args, done, inum, bitmap>>

\* An inode and an entry for the next file.
addFile ==
  /\ pc = "files" /\ inum = 0 /\ done < Len(args)
  /\ inum' = FreeInode(image)
  /\ image' = iappend(ialloc(image, "file"), ROOTINO, Dirent(inum', Stripped(done + 1)))
  /\ UNCHANGED <<args, done, bitmap, pc>>

\* One read() of a block and its iappend(), or the end of the file.
copyFile ==
  LET i    == done + 1
      at   == image.inodes[inum].size
      left == args[i].len - at
      cc   == IF left < DPB THEN left ELSE DPB
  IN
  /\ pc = "files" /\ inum # 0
  /\ IF cc > 0 THEN image' = iappend(image, inum, Text(i, at, at + cc)) /\ UNCHANGED <<done, inum>>
     ELSE done' = i /\ inum' = 0 /\ UNCHANGED image
  /\ UNCHANGED <<args, bitmap, pc>>

\* The blocks that balloc() marks as in use.
balloc(used) == 0 .. (used - 1)

RootSize(size) == ((size \div DPB) + 1) * DPB

\* The size of the root directory is rounded, and balloc(freeblock) marks what is in use.
finish ==
  /\ pc = "files" /\ inum = 0 /\ done = Len(args)
  /\ image' = [image EXCEPT !.inodes[ROOTINO].size = RootSize(@)]
  /\ IF image.freeblock < NBITS
     THEN bitmap' = balloc(image.freeblock) /\ pc' = "done"
     ELSE pc' = "assert" /\ UNCHANGED bitmap
  /\ UNCHANGED <<args, done, inum>>

Next == makeRoot \/ addFile \/ copyFile \/ finish

Spec == Init /\ [][Next]_vars

-------------------------------------------------------------------------------
(* Properties. *)

Inodes == DOMAIN image.inodes

Addrs(ino) == image.inodes[ino].addrs
Size(ino)  == image.inodes[ino].size

\* What readi() gives of an inode; a block that is missing reads as zeroes.
Contents(ino) == FlattenSeq([i \in DOMAIN Addrs(ino) |-> image.blocks[Addrs(ino)[i]]])
Read(ino) == Prefix(Contents(ino), Size(ino))

\* The entries in which the kernel finds a name: DIRSIZ characters count.
Matches(name) == {j \in DOMAIN Read(ROOTINO) : Read(ROOTINO)[j].name = Cut(name)}

\* The kernel finds every file of the command line by its name without the underscore, with its
\* own contents; of two names that agree in DIRSIZ characters it finds the first.
FilesAreFound ==
  pc = "done" =>
    \A i \in DOMAIN args :
      (\A j \in 1 .. (i - 1) : Cut(Stripped(j)) # Cut(Stripped(i))) =>
        \E k \in Matches(Stripped(i)) :
          /\ \A l \in Matches(Stripped(i)) : k <= l
          /\ Read(Read(ROOTINO)[k].inum) = Text(i, 0, args[i].len)

BlocksOf(ino) == {Addrs(ino)[j] : j \in DOMAIN Addrs(ino)}
EntriesOf(ino) == {j \in DOMAIN Read(ROOTINO) : Read(ROOTINO)[j].inum = ino}

\* The kernel starts on an image that is consistent: each file has one name for its one link, no
\* two files share a block, the bitmap marks the blocks in use and the log and inodes before
\* them, and no size is larger than its blocks, except that of a root directory whose entries fill
\* its blocks.
ImageIsConsistent ==
  pc = "done" =>
    /\ \A ino \in Inodes \ {ROOTINO} :
         image.inodes[ino].nlink = 1 /\ \E j \in DOMAIN Read(ROOTINO) : EntriesOf(ino) = {j}
    /\ \A p, q \in Inodes : p # q => BlocksOf(p) \cap BlocksOf(q) = {}
    /\ bitmap = 0 .. (nmeta - 1) \cup UNION {BlocksOf(ino) : ino \in Inodes}
    /\ \A ino \in Inodes :
         \/ Len(Addrs(ino)) = (Size(ino) + DPB - 1) \div DPB
         \/ ino = ROOTINO /\ (Len(args) + 2) % DPB = 0
===============================================================================
