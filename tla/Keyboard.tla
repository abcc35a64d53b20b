-------------------------------- MODULE Keyboard ------------------------------
(***************************************************************************)
(* The keyboard driver (kbd.c, kbd.h): what kbdgetc() makes of the bytes   *)
(* of the keyboard, one per interrupt.  A key sends its scan code when it  *)
(* is pressed, again and again while it is held, and the code + 128 when   *)
(* it is released; the keys on the right of the main block and the arrows  *)
(* send a byte 0xE0 before, and the arrows also a pretended release of     *)
(* shift while shift is down, and its press afterwards.                    *)
(*                                                                         *)
(* The keyboard is external.  Of the ordinary keys there is one letter, of *)
(* the arrows one, of the locks CAPSLOCK, which does not repeat.           *)
(***************************************************************************)
EXTENDS Naturals, Sequences, FiniteSets

CONSTANTS Keys,    \* the keys of this keyboard: a subset of DOMAIN Scan
          MaxWire, \* bytes on the wire
          MaxHeld  \* keys held at a time

VARIABLES
  shift,  \* the flags of kbdgetc()
  typed,  \* what kbdgetc() returned last: a character, "none" for 0
  held,   \* the keys that are held down
  down,   \* the kinds of modifier whose last event was a press
  caps,   \* whether CAPSLOCK has been pressed an odd number of times
  wire,   \* the bytes on their way, each with the character it should give
  wanted  \* the character that the last byte read should have given

kbdVars == <<shift, typed>>
keyVars == <<held, down, caps>>
vars == <<kbdVars, keyVars, wire, wanted>>

E0 == 224

\* Scan codes, external: <<code, whether E0 comes before>>.
Scan == [lshift |-> <<42, FALSE>>, rshift |-> <<54, FALSE>>, lctl |-> <<29, FALSE>>,
         rctl |-> <<29, TRUE>>, lalt |-> <<56, FALSE>>, ralt |-> <<56, TRUE>>,
         capslock |-> <<58, FALSE>>, letter |-> <<30, FALSE>>, up |-> <<72, TRUE>>]

Kind == [lshift |-> "SHIFT", rshift |-> "SHIFT", lctl |-> "CTL", rctl |-> "CTL",
         lalt |-> "ALT", ralt |-> "ALT"]

\* kbd.h
shiftcode(data) ==
  CASE data \in {42, 54} -> {"SHIFT"}
    [] data \in {29, 157} -> {"CTL"}
    [] data \in {56, 184} -> {"ALT"}
    [] OTHER -> {}

togglecode(data) == IF data = 58 THEN {"CAPSLOCK"} ELSE {}

\* The characters of the letter and of the arrow in the map for the flags f.
charcode(f, data) ==
  CASE data = 30 /\ "CTL" \in f -> "C('A')"
    [] data = 30 /\ f = {"SHIFT"} -> "A"
    [] data = 30 /\ f = {} -> "a"
    [] data = 200 -> "KEY_UP"
    [] OTHER -> "none"

TypeOK ==
  /\ shift \subseteq {"SHIFT", "CTL", "ALT", "CAPSLOCK", "E0ESC"}
  /\ {typed, wanted} \subseteq {"a", "A", "C('A')", "KEY_UP", "none"}
  /\ held \subseteq Keys
  /\ down \subseteq {"SHIFT", "CTL", "ALT"} /\ caps \in BOOLEAN
  /\ Len(wire) <= MaxWire

Init ==
  /\ shift = {} /\ typed = "none"
  /\ held = {} /\ down = {} /\ caps = FALSE
  /\ wire = <<>> /\ wanted = "none"

-------------------------------------------------------------------------------
(* The keyboard. *)

Byte(b, char) == <<b, char>>
Code(k, b, char) ==
  IF Scan[k][2] THEN <<Byte(E0, "none"), Byte(b, char)>> ELSE <<Byte(b, char)>>

FakeShift(b) == <<Byte(E0, "none"), Byte(b, "none")>>

\* The character of a key, by the keys that were pressed before it.
Character(k) ==
  CASE k = "up" -> "KEY_UP"
    [] k = "letter" /\ "CTL" \in down -> "C('A')"
    [] k = "letter" /\ "CTL" \notin down ->
         IF ("SHIFT" \in down) = caps THEN "a" ELSE "A"
    [] OTHER -> "none"

Sends(bytes) == Len(wire) + Len(bytes) <= MaxWire /\ wire' = wire \o bytes

press(k) ==
  LET code == Code(k, Scan[k][1], Character(k)) IN
  /\ IF k \in held THEN k # "capslock" ELSE Cardinality(held) < MaxHeld
  /\ held' = held \cup {k}
  /\ down' = IF k \in DOMAIN Kind THEN down \cup {Kind[k]} ELSE down
  /\ caps' = IF k = "capslock" THEN ~caps ELSE caps
  /\ Sends(IF k = "up" /\ "lshift" \in held
           THEN FakeShift(42 + 128) \o code ELSE code)
  /\ UNCHANGED <<kbdVars, wanted>>

release(k) ==
  LET code == Code(k, Scan[k][1] + 128, "none") IN
  /\ k \in held
  /\ held' = held \ {k}
  /\ down' = IF k \in DOMAIN Kind THEN down \ {Kind[k]} ELSE down
  /\ Sends(IF k = "up" /\ "lshift" \in held THEN code \o FakeShift(42) ELSE code)
  /\ UNCHANGED <<caps, kbdVars, wanted>>

-------------------------------------------------------------------------------
(* The driver. *)

\* The flags that the release of a key takes back.
Released(data) == shiftcode(IF "E0ESC" \in shift THEN data ELSE data % 128)

\* The flags after the press of data.
Pressed(data) ==
  LET f == (shift \ {"E0ESC"}) \cup shiftcode(data)
  IN (f \ togglecode(data)) \cup (togglecode(data) \ f)

Swapped(c) == CASE c = "a" -> "A" [] c = "A" -> "a" [] OTHER -> c

\* kbdgetc() on one byte.
kbdgetc(b) ==
  IF b = E0 THEN shift' = shift \cup {"E0ESC"} /\ typed' = "none"
  ELSE IF b >= 128 THEN shift' = shift \ (Released(b) \cup {"E0ESC"}) /\ typed' = "none"
  ELSE LET data == IF "E0ESC" \in shift THEN b + 128 ELSE b
           f    == Pressed(data)
           c    == charcode(f \cap {"CTL", "SHIFT"}, data)
       IN /\ shift' = f
          /\ typed' = IF "CAPSLOCK" \in f THEN Swapped(c) ELSE c

\* The interrupt of one byte.
kbdintr ==
  /\ wire # <<>>
  /\ kbdgetc(Head(wire)[1])
  /\ wanted' = Head(wire)[2]
  /\ wire' = Tail(wire)
  /\ UNCHANGED keyVars

Next == kbdintr \/ \E k \in Keys : press(k) \/ release(k)

Spec == Init /\ [][Next]_vars

-------------------------------------------------------------------------------
(* Properties. *)

\* Every byte gives the character of its key under the modifiers that were pressed before
\* it, and no other byte gives one: neither the prefix, nor a release, nor the pretended
\* shifts around an arrow.
TypesWhatIsPressed == typed = wanted

\* When every byte has been read, a modifier is on exactly when the last of its keys that
\* moved was pressed: none hangs when all keys are up.
ModifiersFollowKeys ==
  wire = <<>> => shift = down \cup (IF caps THEN {"CAPSLOCK"} ELSE {})
===============================================================================
