------------------------------ MODULE Console ------------------------------
(***************************************************************************)
(* The console of xv6 (xv6/console.c): the ring of typed characters that   *)
(* interrupts fill and edit and that processes read, and the screen that   *)
(* echoes them.  cons.lock makes an interrupt one step, and a read one     *)
(* step per character with the lock held in between.                       *)
(***************************************************************************)
EXTENDS Integers, Sequences, FiniteSets

CONSTANTS ConsoleReader, NoReader,
          Plain, Newline, Eof,   \* what is typed: ordinary characters, \n, ^D
          INPUT_BUF,             \* size of input.buf
          Wrap,                  \* the indices are unsigned: 2^32
          Columns, Rows,         \* of the screen: 80, and 24 of its 25 rows
          Blank,                 \* ' '
          MaxRead                \* largest count of a read

ASSUME ConsoleAssumption ==
    /\ INPUT_BUF \in Nat \ {0} /\ Wrap \in Nat \ {0} /\ MaxRead \in Nat /\ Columns \in Nat \ {0} /\ Rows \in Nat \ {0}
    /\ Wrap % INPUT_BUF = 0 /\ Wrap > INPUT_BUF
    /\ INPUT_BUF < Rows * Columns
    /\ NoReader \notin ConsoleReader

Char == Plain \cup {Newline, Eof}

VARIABLES ring, r, w, e,     \* input
          conslock,          \* holder of cons.lock, between the steps of a read
          rpc, rn, rgot,     \* of each reader: where, how many to go, what it has
          rkilled,
          crt, pos,          \* the CGA memory and the cursor
          shown              \* history: edited characters echoed since the last output

cvars == <<ring, r, w, e, conslock, rpc, rn, rgot, rkilled, crt, pos, shown>>

CInit ==
    /\ ring = [i \in 0 .. INPUT_BUF - 1 |-> Blank]
    /\ r = 0 /\ w = 0 /\ e = 0
    /\ conslock = NoReader
    /\ rpc = [p \in ConsoleReader |-> "out"] /\ rn = [p \in ConsoleReader |-> 0] /\ rgot = [p \in ConsoleReader |-> << >>]
    /\ rkilled = {}
    /\ crt = [i \in 0 .. (Rows + 1) * Columns - 1 |-> Blank] /\ pos = 0
    /\ shown = 0

InRing(i) == i % INPUT_BUF
Plus(i, n) == (i + n) % Wrap
Minus(i, n) == (i - n + Wrap) % Wrap

-----------------------------------------------------------------------------
\* The screen

\* The scroll at the end of cgaputc: the rows move up, from the cursor on they are cleared.
Scroll(s) == IF s.pos \div Columns >= Rows
             THEN [pos |-> s.pos - Columns,
                   crt |-> [i \in DOMAIN s.crt |->
                              IF i >= s.pos - Columns /\ i < Rows * Columns THEN Blank
                              ELSE IF i < (Rows - 1) * Columns THEN s.crt[i + Columns] ELSE s.crt[i]]]
             ELSE s

\* cgaputc: what a character does to the screen
cgaputc(c, s) ==
    LET moved == CASE c = Newline -> [s EXCEPT !.pos = @ + Columns - (@ % Columns)]
                   [] c = "BACKSPACE" -> [s EXCEPT !.pos = IF @ > 0 THEN @ - 1 ELSE @]
                   [] OTHER -> [crt |-> [s.crt EXCEPT ![s.pos] = c], pos |-> s.pos + 1]
        done == Scroll(moved)
    IN  [done EXCEPT !.crt = [@ EXCEPT ![done.pos] = Blank]]

Screen == [crt |-> crt, pos |-> pos]

Show(s) == crt' = s.crt /\ pos' = s.pos

\* n erasures in a row
erased[n \in 0 .. INPUT_BUF] == IF n = 0 THEN Screen ELSE cgaputc("BACKSPACE", erased[n - 1])

-----------------------------------------------------------------------------
\* consoleintr

\* The input is handed to the readers.
Completes(c, n) == c \in {Newline, Eof} \/ n = Plus(r, INPUT_BUF)

\* Faulty variant: nobody is woken.
Awake_Forgotten == rpc

\* wakeup(&input.r)
Awake == [p \in ConsoleReader |-> IF rpc[p] = "asleep" THEN "loop" ELSE rpc[p]]

Room == Minus(e, r) < INPUT_BUF

\* An ordinary character is typed.
typed(c) ==
    /\ conslock = NoReader
    /\ Room
    /\ ring' = [ring EXCEPT ![InRing(e)] = c]
    /\ e' = Plus(e, 1)
    /\ Show(cgaputc(c, Screen))
    /\ IF Completes(c, Plus(e, 1))
       THEN w' = Plus(e, 1) /\ rpc' = Awake /\ shown' = 0
       ELSE shown' = shown + 1 /\ UNCHANGED <<w, rpc>>
    /\ UNCHANGED <<r, conslock, rn, rgot, rkilled>>

\* ^H: one character; ^U: all up to the write index or a newline
erase(n) ==
    /\ e' = Minus(e, n)
    /\ Show(erased[n])
    /\ shown' = IF n > shown THEN 0 ELSE shown - n
    /\ UNCHANGED <<ring, r, w, conslock, rpc, rn, rgot, rkilled>>

MayErase == e # w

backspace == conslock = NoReader /\ MayErase /\ erase(1)

killLine ==
    /\ conslock = NoReader
    /\ \E n \in 1 .. INPUT_BUF :
          /\ n <= Minus(e, w)
          /\ \A m \in 1 .. n : ring[InRing(Minus(e, m))] # Newline
          /\ n = Minus(e, w) \/ ring[InRing(Minus(e, n + 1))] = Newline
          /\ erase(n)

-----------------------------------------------------------------------------
\* consoleread and consolewrite

\* A killed process does not come back: another one may read then.
ReadReturns(p) == /\ rpc' = [rpc EXCEPT ![p] = "out"] /\ conslock' = NoReader
                  /\ rkilled' = rkilled \ {p} /\ rn' = [rn EXCEPT ![p] = 0]

\* The call, up to acquire(&cons.lock).
consoleread(p, n) ==
    /\ rpc[p] = "out"
    /\ rpc' = [rpc EXCEPT ![p] = "loop"] /\ rn' = [rn EXCEPT ![p] = n] /\ rgot' = [rgot EXCEPT ![p] = << >>]
    /\ UNCHANGED <<ring, r, w, e, conslock, rkilled, crt, pos, shown>>

\* No input: -1 if the process was killed,
await(p) ==
    /\ rpc[p] = "loop" /\ conslock \in {p, NoReader} /\ rn[p] > 0 /\ r = w
    /\ IF p \in rkilled THEN ReadReturns(p) ELSE rpc' = [rpc EXCEPT ![p] = "sleep"] /\ conslock' = p /\ UNCHANGED <<rkilled, rn>>
    /\ UNCHANGED <<ring, r, w, e, rgot, crt, pos, shown>>

\* else sleep(&input.r, &cons.lock); kill does not take cons.lock and may come before.
doze(p) ==
    /\ rpc[p] = "sleep"
    /\ rpc' = [rpc EXCEPT ![p] = "asleep"] /\ conslock' = NoReader
    /\ UNCHANGED <<ring, r, w, e, rn, rgot, rkilled, crt, pos, shown>>

\* Faulty variant: an end of file after input is not put back.
PutBack_Never(p) == FALSE

\* n < target
PutBack(p) == rgot[p] # << >>

\* A character, or the end of file, which is put back after input.
take(p) ==
    /\ rpc[p] = "loop" /\ conslock \in {p, NoReader} /\ rn[p] > 0 /\ r # w
    /\ LET c == ring[InRing(r)]
       IN  IF c = Eof
           THEN r' = (IF PutBack(p) THEN r ELSE Plus(r, 1)) /\ ReadReturns(p) /\ UNCHANGED rgot
           ELSE /\ r' = Plus(r, 1)
                /\ rgot' = [rgot EXCEPT ![p] = Append(@, c)]
                /\ IF c = Newline \/ rn[p] = 1
                   THEN ReadReturns(p)
                   ELSE rn' = [rn EXCEPT ![p] = @ - 1] /\ conslock' = p /\ UNCHANGED <<rpc, rkilled>>
    /\ UNCHANGED <<ring, w, e, crt, pos, shown>>

\* kill wakes the process.
killReader(p) ==
    /\ rpc[p] # "out" /\ p \notin rkilled
    /\ rkilled' = rkilled \cup {p}
    /\ rpc' = [rpc EXCEPT ![p] = IF @ = "asleep" THEN "loop" ELSE @]
    /\ UNCHANGED <<ring, r, w, e, conslock, rn, rgot, crt, pos, shown>>

\* consolewrite, cprintf: output between the echoes
consolewrite(c) ==
    /\ conslock = NoReader
    /\ Show(cgaputc(c, Screen))
    /\ shown' = 0
    /\ UNCHANGED <<ring, r, w, e, conslock, rpc, rn, rgot, rkilled>>

CNext == \/ \E c \in Char : typed(c)
         \/ \E c \in {Blank, Newline} : consolewrite(c)
         \/ backspace \/ killLine
         \/ \E p \in ConsoleReader : \/ \E n \in 1 .. MaxRead : consoleread(p, n)
                                     \/ await(p) \/ doze(p) \/ take(p) \/ killReader(p)

CSpec == CInit /\ [][CNext]_cvars

-----------------------------------------------------------------------------
\* The characters from one index to another.
Between(i, j) == [n \in 1 .. Minus(j, i) |-> ring[InRing(Plus(i, n - 1))]]

Promise == INSTANCE Terminal WITH TReader <- ConsoleReader, TChar <- Char, TNewline <- Newline, TEof <- Eof,
                                  TSize <- INPUT_BUF, complete <- Between(r, w), edit <- Between(w, e), got <- rgot

\* The ring of three unsigned indices implements the terminal: nothing typed is lost,
\* read twice, reordered or erased once complete, across the wrap of the indices, and
\* an end of file ends exactly one read that returns nothing.
ImplementsTerminal == Promise!TSpec

\* No reader sleeps while there is input.
NoInputMissed == \A p \in ConsoleReader : rpc[p] = "asleep" => r = w

\* A full ring is all complete: or no key would have an effect, and no reader would
\* ever make room.
FullIsComplete == Minus(e, r) = INPUT_BUF => w = e

\* The cursor stays on the rows that scroll: the panic "pos under/overflow" and stores
\* behind the screen are out of reach.
CursorOnScreen == pos \in 0 .. Rows * Columns - 1

\* What the screen shows before the cursor is what is being edited, across line wraps and
\* scrolling, as far as it was echoed without output in between.
EchoIsEdit ==
    \A n \in 1 .. INPUT_BUF :
        n <= shown /\ n <= Minus(e, w) => n <= pos /\ crt[pos - n] = ring[InRing(Minus(e, n))]

\* The console at every step: no reader misses input, a full ring can be read, and the screen
\* shows what is being edited.
ConsoleRight == NoInputMissed /\ FullIsComplete /\ CursorOnScreen /\ EchoIsEdit
=============================================================================
