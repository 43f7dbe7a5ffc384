------------------------------ MODULE Keyboard ------------------------------
(***************************************************************************)
(* The keyboard driver (xv6/kbd.c, kbd.h): scan codes, one byte per call   *)
(* of kbdgetc, become characters under the modifiers held and the lock.    *)
(* A key of the second bank sends E0 before its code; letting a key go     *)
(* sends its code with the high bit.                                       *)
(***************************************************************************)
EXTENDS Integers, Sequences, FiniteSets

VARIABLES shift,         \* modifiers, locks and E0ESC
          wire,          \* the byte still to come of a two-byte code, or none
          down,          \* keys held
          capsOn,        \* caps lock, by how often it was pressed
          mixed,         \* modifiers whose two keys were held together since both were up
          last           \* the last character returned, 0 for none

kvars == <<shift, wire, down, capsOn, mixed, last>>

\* Keys: scan code and bank
Key == {[code |-> c, ext |-> FALSE] : c \in {"shiftL", "shiftR", "ctl", "alt", "caps", "a"}}
       \cup {[code |-> c, ext |-> TRUE] : c \in {"ctl", "enter"}}
Make(k) == [code |-> k.code, high |-> FALSE]
Break(k) == [code |-> k.code, high |-> TRUE]
E0 == [code |-> "E0", high |-> FALSE]
NoByte == [code |-> "none", high |-> FALSE]

\* The tables are indexed by the code with the high bit for the second bank.
shiftcode(code, high) ==
    CASE code \in {"shiftL", "shiftR"} /\ ~ high -> {"SHIFT"}
      [] code = "ctl" -> {"CTL"}
      [] code = "alt" -> {"ALT"}
      [] OTHER -> {}
togglecode(code, high) == IF code = "caps" /\ ~ high THEN {"CAPSLOCK"} ELSE {}
Toggle(S, T) == (S \ T) \cup (T \ S)

\* normalmap, shiftmap and ctlmap
normalmap(code, high) == CASE code = "a" /\ ~ high -> "a" [] code = "enter" /\ high -> "nl" [] OTHER -> "0"
shiftmap(code, high) == CASE code = "a" /\ ~ high -> "A" [] code = "enter" /\ high -> "nl" [] OTHER -> "0"
ctlmap(code, high) == CASE code = "a" /\ ~ high -> "^A" [] code = "enter" /\ high -> "cr" [] OTHER -> "0"
charcode(S) == IF "CTL" \in S THEN 3 ELSE IF "SHIFT" \in S THEN 2 ELSE 1
Mapped(S, code, high) ==
    CASE charcode(S) = 1 -> normalmap(code, high)
      [] charcode(S) = 2 -> shiftmap(code, high)
      [] OTHER -> ctlmap(code, high)

\* Caps lock swaps the cases.
Cased(S, c) == CASE "CAPSLOCK" \in S /\ c = "a" -> "A"
                 [] "CAPSLOCK" \in S /\ c = "A" -> "a"
                 [] OTHER -> c

\* A key released: the high bit is that of the bank.
KeyUp(S, code) == S \ (shiftcode(code, "E0ESC" \in S) \cup {"E0ESC"})

kbdgetc(b) ==
    IF b = E0 THEN shift' = shift \cup {"E0ESC"} /\ last' = "0"
    ELSE IF b.high THEN shift' = KeyUp(shift, b.code) /\ last' = "0"
    ELSE LET high == "E0ESC" \in shift
             S == Toggle((shift \ {"E0ESC"}) \cup shiftcode(b.code, high), togglecode(b.code, high))
         IN  shift' = S /\ last' = Cased(S, Mapped(S, b.code, high))

KInit == shift = {} /\ wire = NoByte /\ down = {} /\ capsOn = FALSE /\ mixed = {} /\ last = "0"

\* A modifier of a key, and what the keys of it held are
Modifier(k) == shiftcode(k.code, k.ext)
HeldFor(m, D) == {k \in D : m \in Modifier(k)}
Mixed(D) == {m \in {"SHIFT", "CTL", "ALT"} : HeldFor(m, D) # {} /\ (m \in mixed \/ Cardinality(HeldFor(m, D)) > 1)}

\* A byte arrives: the first, or the only one, of a key pressed (or repeated) or let go
Send(k, b) == IF k.ext THEN kbdgetc(E0) /\ wire' = b ELSE kbdgetc(b) /\ wire' = NoByte
press(k) ==
    /\ wire = NoByte
    /\ Send(k, Make(k))
    /\ down' = down \cup {k}
    /\ capsOn' = IF k.code = "caps" THEN ~ capsOn ELSE capsOn
    /\ mixed' = Mixed(down')
letgo(k) ==
    /\ wire = NoByte /\ k \in down
    /\ Send(k, Break(k))
    /\ down' = down \ {k}
    /\ mixed' = Mixed(down')
    /\ UNCHANGED capsOn
second == wire # NoByte /\ kbdgetc(wire) /\ wire' = NoByte /\ UNCHANGED <<down, capsOn, mixed>>

KNext == second \/ \E k \in Key : press(k) \/ letgo(k)
KSpec == KInit /\ [][KNext]_kvars

-----------------------------------------------------------------------------
\* No modifier is stuck: kbdgetc's shift holds one only while a key of it is held.
NoStuckModifier == wire = NoByte => \A m \in {"SHIFT", "CTL", "ALT"} : m \in shift => HeldFor(m, down) # {}

\* A letter is what the keys held and the lock call for; a modifier both of whose keys were held
\* is excepted, since letting one of them go drops the bit they share.
LetterRight == wire = NoByte /\ last \in {"a", "A", "^A"} /\ mixed = {} =>
    LET held(m) == HeldFor(m, down) # {}
    IN  last = IF held("CTL") THEN "^A" ELSE IF held("SHIFT") # capsOn THEN "A" ELSE "a"

\* The driver follows the keys: modifiers as held, letters as the modifiers say.
KeysRight == NoStuckModifier /\ LetterRight
=============================================================================
