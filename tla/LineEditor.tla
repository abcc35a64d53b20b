------------------------------ MODULE LineEditor ------------------------------
(***************************************************************************)
(* What the console promises to those who read it: a queue of characters   *)
(* that were typed and confirmed, behind it the line that may still be     *)
(* edited.  Nothing that was confirmed is lost, changed or read twice.     *)
(***************************************************************************)
EXTENDS Naturals, Sequences

CONSTANTS Chars, Room

VARIABLES confirmed, line

vars == <<confirmed, line>>

Init == confirmed = <<>> /\ line = <<>>

Type(c) ==
  /\ Len(confirmed) + Len(line) < Room
  /\ line' = Append(line, c)
  /\ UNCHANGED confirmed

Erase(k) ==
  /\ k \in 1 .. Len(line)
  /\ line' = SubSeq(line, 1, Len(line) - k)
  /\ UNCHANGED confirmed

\* The character that confirms the line: it is part of it.
Confirm(c) ==
  /\ Len(confirmed) + Len(line) < Room
  /\ confirmed' = confirmed \o Append(line, c)
  /\ line' = <<>>

Take(k) ==
  /\ k \in 1 .. Len(confirmed)
  /\ confirmed' = SubSeq(confirmed, k + 1, Len(confirmed))
  /\ UNCHANGED line

Next ==
  \/ \E c \in Chars : Type(c) \/ Confirm(c)
  \/ \E k \in 1 .. Room : Erase(k) \/ Take(k)

Spec == Init /\ [][Next]_vars
===============================================================================
