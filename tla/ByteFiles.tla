------------------------------ MODULE ByteFiles -------------------------------
(***************************************************************************)
(* What the blocks of a file promise: a file is a sequence of bytes.  A    *)
(* chunk of a write replaces the bytes at the offset of its descriptor and *)
(* extends the file at most at its end, in one step for everything that    *)
(* lies beyond the old end; nothing else ever changes a file, until it is  *)
(* removed as a whole.                                                     *)
(***************************************************************************)
EXTENDS Naturals, Sequences

CONSTANTS Procs, Files, MaxSize

VARIABLES text,   \* the bytes of a file
          desc,   \* the descriptor of a process, its own or that of its parent
          fd,     \* the file that is open there, or NoFile
          off     \* its offset

CONSTANT NoFile

vars == <<text, desc, fd, off>>

Init == /\ text = [f \in Files |-> <<>>]
        /\ desc = [p \in Procs |-> p]
        /\ fd = [p \in Procs |-> NoFile] /\ off = [p \in Procs |-> 0]

\* t with n bytes b from offset o on.
Written(t, o, n, b) ==
  [i \in 1 .. (IF o + n > Len(t) THEN o + n ELSE Len(t)) |->
     IF i > o /\ i <= o + n THEN b ELSE t[i]]

\* The image is built.
Build(f, b)  == /\ Len(text[f]) < MaxSize
                /\ text' = [text EXCEPT ![f] = Written(@, Len(@), 1, b)]
                /\ UNCHANGED <<desc, fd, off>>

Open(p) == /\ \E f \in Files \cup {NoFile} : fd' = [fd EXCEPT ![p] = f]
           /\ off' = [off EXCEPT ![p] = 0] /\ UNCHANGED <<text, desc>>

\* p gets a descriptor to share, or its own one back.
Share(p) == (\E q \in Procs : desc' = [desc EXCEPT ![p] = q]) /\ UNCHANGED <<text, fd, off>>

File(p)   == fd[desc[p]]
Offset(p) == off[desc[p]]

\* A piece inside the file is replaced.
Replace(p) ==
  /\ File(p) # NoFile
  /\ \E o \in Offset(p) .. MaxSize, n \in 0 .. MaxSize :
       /\ o + n <= Len(text[File(p)])
       /\ text' = [text EXCEPT ![File(p)] = Written(@, o, n, p)]
  /\ UNCHANGED <<desc, fd, off>>

\* A chunk of n bytes is complete.
Finish(p) ==
  /\ File(p) # NoFile
  /\ \E n \in 1 .. MaxSize :
       /\ Offset(p) + n <= MaxSize
       /\ text' = [text EXCEPT ![File(p)] = Written(@, Offset(p), n, p)]
       /\ off' = [off EXCEPT ![desc[p]] = @ + n]
  /\ UNCHANGED <<desc, fd>>

\* A read moves the offset inside the file.
Read(p) ==
  /\ File(p) # NoFile
  /\ \E o \in Offset(p) .. Len(text[File(p)]) : off' = [off EXCEPT ![desc[p]] = o]
  /\ UNCHANGED <<text, desc, fd>>

Remove(f) == /\ \A p \in Procs : fd[p] # f
             /\ text' = [text EXCEPT ![f] = <<>>] /\ UNCHANGED <<desc, fd, off>>

Next ==
  \/ \E p \in Procs : Open(p) \/ Share(p) \/ Replace(p) \/ Finish(p) \/ Read(p)
  \/ \E f \in Files : Remove(f) \/ \E b \in Procs : Build(f, b)

Spec == Init /\ [][Next]_vars
===============================================================================
