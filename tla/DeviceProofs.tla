---------------------------- MODULE DeviceProofs ----------------------------
(***************************************************************************)
(* The processes that wait for a device interrupt: sleep(n) is exact on    *)
(* any width of the tick counter, and the console implements a terminal    *)
(* for any ring and any width of its indices that the ring divides.        *)
(***************************************************************************)
EXTENDS Clock, Console, PipeProofs

-----------------------------------------------------------------------------
(* The clock *)

Tick == 0 .. TickWord - 1
Calling == {"test", "sleep", "asleep"}

ClockTypes ==
    /\ ticks \in Tick
    /\ nap \in [Sleeper -> [at : Calling \cup {"user", "done"}, ticks0 : Tick, n : Tick, ret : {0, -1}]]
    /\ nkilled \in [Sleeper -> BOOLEAN]
    /\ passed \in [Sleeper -> Nat] /\ since \in [Sleeper -> Nat]

\* The difference of the words is the number of ticks since the call, as long as that one is a word.
Elapsed == \A p \in Sleeper : nap[p].at \in Calling =>
               passed[p] \in Tick /\ passed[p] = (IF ticks >= nap[p].ticks0 THEN ticks - nap[p].ticks0
                                                  ELSE ticks - nap[p].ticks0 + TickWord)

\* Who is about to sleep, or sleeps, has ticks to wait for.
Waits == \A p \in Sleeper : nap[p].at \in {"sleep", "asleep"} => passed[p] < nap[p].n

\* A killed process that has seen a tick is not going to sleep again.
Killed == \A p \in Sleeper : /\ nap[p].at \in {"sleep", "asleep"} => since[p] = 0
                             /\ ~ nkilled[p] => since[p] = 0

ClockInv == ClockTypes /\ Elapsed /\ Waits /\ Killed /\ NotEarly

\* The test of sys_sleep compares the ticks that have passed.
LEMMA OverIs == ASSUME ClockTypes, Elapsed, NEW p \in Sleeper, nap[p].at \in Calling
                PROVE  Over(p) <=> passed[p] >= nap[p].n
  <1>1. ticks \in Int /\ nap[p].ticks0 \in Int /\ TickWord \in Nat \ {0}
    BY ClockAssumption DEF ClockTypes, Tick
  <1>2. PICK x \in Int : x = ticks - nap[p].ticks0
    BY <1>1
  <1>3. /\ 0 <= x /\ x < TickWord => x % TickWord = x
        /\ -TickWord <= x /\ x < 0 => x % TickWord = x + TickWord
    BY Zenon, <1>1, ModWrap
  <1>4. ticks \in Tick /\ nap[p].ticks0 \in Tick
    BY DEF ClockTypes
  <1>5. passed[p] = IF ticks >= nap[p].ticks0 THEN ticks - nap[p].ticks0 ELSE ticks - nap[p].ticks0 + TickWord
    BY Zenon DEF Elapsed
  <1>6. x % TickWord = passed[p]
    BY <1>1, <1>2, <1>3, <1>4, <1>5 DEF Tick
  <1>7. QED
    BY Zenon, <1>2, <1>6 DEF Over

\* The invariant holds when nobody has called sleep yet.
LEMMA ClockInit == TInit => ClockInv
  <1> SUFFICES ASSUME TInit PROVE ClockInv
    OBVIOUS
  <1>1. ClockTypes
    BY ClockAssumption DEF TInit, Awake0, ClockTypes, Tick
  <1>2. \A p \in Sleeper : nap[p].at = "user" /\ since[p] = 0
    BY Zenon DEF TInit, Awake0
  <1>3. QED
    BY Zenon, <1>1, <1>2 DEF ClockInv, Elapsed, Waits, Killed, NotEarly, Calling

\* A step of one process leaves the clock and the others alone.
LEMMA SleeperStep ==
    ASSUME ClockInv, NEW p \in Sleeper,
           turn(p) \/ nod(p) \/ back(p) \/ killSleeper(p) \/ \E m \in 0 .. TickWord - 1 : sys_sleep(p, m)
    PROVE  ClockInv'
  <1> USE ClockAssumption DEF ClockInv, ClockTypes, Elapsed, Waits, Killed, NotEarly, Tick, Calling
  <1>1. CASE turn(p)
    <2>1. Over(p) <=> passed[p] >= nap[p].n
      BY <1>1, OverIs DEF turn
    <2>2. ClockTypes'
      <3> DEFINE Naps == [at : Calling \cup {"user", "done"}, ticks0 : Tick, n : Tick, ret : {0, -1}]
      <3>1. \A x \in Naps : /\ [x EXCEPT !.at = "done", !.ret = 0] \in Naps /\ [x EXCEPT !.at = "done", !.ret = -1] \in Naps
                            /\ [x EXCEPT !.at = "sleep"] \in Naps
        BY Zenon
      <3>2. nap' = [nap EXCEPT ![p] = IF Over(p) THEN [nap[p] EXCEPT !.at = "done", !.ret = 0]
                                      ELSE IF Stops(p) THEN [nap[p] EXCEPT !.at = "done", !.ret = -1]
                                      ELSE [nap[p] EXCEPT !.at = "sleep"]]
        BY <1>1 DEF turn
      <3>3. nap \in [Sleeper -> Naps]
        OBVIOUS
      <3> HIDE DEF Naps
      <3>4. nap' \in [Sleeper -> Naps]
        BY Zenon, <3>1, <3>2, <3>3
      <3>5. QED
        BY <1>1, <3>4 DEF turn, Naps
    <2>3. /\ \A q \in Sleeper : nap'[q].ticks0 = nap[q].ticks0 /\ nap'[q].n = nap[q].n
          /\ \A q \in Sleeper \ {p} : nap'[q] = nap[q]
          /\ \/ nap'[p].at = "done" /\ nap'[p].ret = 0 /\ Over(p)
             \/ nap'[p].at = "done" /\ nap'[p].ret = -1
             \/ nap'[p].at = "sleep" /\ ~ Over(p) /\ ~ nkilled[p]
      BY <1>1 DEF turn, Stops
    <2>4. nap[p].at = "test" /\ UNCHANGED <<ticks, nkilled, passed, since>>
      BY <1>1 DEF turn
    <2>5. Elapsed'
      BY <2>3, <2>4
    <2>6. Waits' /\ Killed' /\ NotEarly'
      BY <2>1, <2>3, <2>4
    <2>7. QED
      BY <2>2, <2>5, <2>6
  <1>2. CASE nod(p)
    BY <1>2 DEF nod
  <1>3. CASE back(p)
    BY <1>3 DEF back, Awake0
  <1>4. CASE killSleeper(p)
    BY <1>4 DEF killSleeper
  <1>5. ASSUME NEW m \in 0 .. TickWord - 1, sys_sleep(p, m) PROVE ClockInv'
    BY <1>5 DEF sys_sleep
  <1>6. QED
    BY <1>1, <1>2, <1>3, <1>4, <1>5

\* A tick wakes the sleepers.
LEMMA TickStep == ASSUME ClockInv, tick PROVE ClockInv'
  <1>1. ticks' = IF ticks = TickWord - 1 THEN 0 ELSE ticks + 1
    <2>1. ticks \in Tick /\ TickWord \in Nat \ {0}
      BY ClockAssumption DEF ClockInv, ClockTypes
    <2>2. PICK x \in Int : x = ticks + 1
      BY <2>1 DEF Tick
    <2>3. /\ 0 <= x /\ x < TickWord => x % TickWord = x
          /\ TickWord <= x /\ x < 2 * TickWord => x % TickWord = x - TickWord
      BY Zenon, <2>1, ModWrap
    <2>4. QED
      BY <2>1, <2>2, <2>3 DEF Tick, tick
  <1> USE ClockAssumption DEF ClockInv, ClockTypes, Elapsed, Waits, Killed, NotEarly, Tick, Calling
  <1>2. ClockTypes'
    <2>1. nap' \in [Sleeper -> [at : Calling \cup {"user", "done"}, ticks0 : Tick, n : Tick, ret : {0, -1}]]
      BY SMTT(20) DEF tick, WakeUp
    <2>2. ticks' \in Tick
      BY <1>1
    <2>3. passed' \in [Sleeper -> Nat] /\ since' \in [Sleeper -> Nat] /\ nkilled' \in [Sleeper -> BOOLEAN]
      BY DEF tick
    <2>4. QED
      BY Zenon, <2>1, <2>2, <2>3 DEF ClockTypes
  <1>3. \A q \in Sleeper : /\ nap'[q].ticks0 = nap[q].ticks0 /\ nap'[q].n = nap[q].n /\ nap'[q].ret = nap[q].ret
                           /\ nap'[q].at = IF nap[q].at = "asleep" THEN "test" ELSE nap[q].at
    BY DEF tick, WakeUp
  <1>4. \A q \in Sleeper : /\ nap[q].at # "sleep" /\ (nap[q].at = "test" => passed[q] < TickWord - 1)
                           /\ passed'[q] = IF nap[q].at \in {"test", "asleep"} THEN passed[q] + 1 ELSE passed[q]
                           /\ since'[q] = IF nkilled[q] /\ nap[q].at = "asleep" THEN since[q] + 1 ELSE since[q]
    BY DEF tick
  <1>5. nkilled' = nkilled
    BY DEF tick
  <1>6. Elapsed'
    <2> SUFFICES ASSUME NEW q \in Sleeper, nap'[q].at \in Calling
                 PROVE  passed'[q] \in Tick /\ passed'[q] = (IF ticks' >= nap'[q].ticks0 THEN ticks' - nap'[q].ticks0
                                                             ELSE ticks' - nap'[q].ticks0 + TickWord)
      BY Zenon DEF Elapsed
    <2>1. nap[q].at \in {"test", "asleep"} /\ passed'[q] = passed[q] + 1 /\ nap'[q].ticks0 = nap[q].ticks0
      BY <1>3, <1>4
    <2>2. passed[q] < TickWord - 1
      <3>1. passed[q] \in Nat /\ nap[q].n \in 0 .. TickWord - 1
        OBVIOUS
      <3>2. CASE nap[q].at = "asleep"
        BY <3>1, <3>2
      <3>3. QED
        BY <1>4, <2>1, <3>2
    <2>3. ticks \in Tick /\ nap[q].ticks0 \in Tick /\ passed[q] \in Tick
      BY <2>1
    <2>4. passed[q] = IF ticks >= nap[q].ticks0 THEN ticks - nap[q].ticks0 ELSE ticks - nap[q].ticks0 + TickWord
      BY <2>1
    <2>5. QED
      BY <1>1, <2>1, <2>2, <2>3, <2>4
  <1>7. Waits' /\ NotEarly'
    BY <1>3, <1>4
  <1>8. Killed'
    BY <1>3, <1>4, <1>5
  <1>9. QED
    BY <1>2, <1>6, <1>7, <1>8

\* Whatever the width of the tick counter and wherever it wraps, sleep(n) returns 0 after n ticks and
\* not before, nobody sleeps on when its ticks have passed, and a killed sleeper is gone at the next tick.
THEOREM SleepIsExact == TickSpec => []SleepExact
  <1>1. ClockInv /\ [TNext]_tvars => ClockInv'
    <2> SUFFICES ASSUME ClockInv, [TNext]_tvars PROVE ClockInv'
      OBVIOUS
    <2>1. CASE UNCHANGED tvars
      BY <2>1 DEF tvars, ClockInv, ClockTypes, Elapsed, Waits, Killed, NotEarly
    <2>2. CASE TNext
      BY Zenon, <2>2, SleeperStep, TickStep DEF TNext
    <2>3. QED
      BY <2>1, <2>2
  <1>2. ClockInv => SleepExact
    BY DEF ClockInv, Waits, Killed, SleepExact, NoOverdue, GoneAtNextTick
  <1>3. QED
    BY ClockInit, <1>1, <1>2, PTL DEF TickSpec

-----------------------------------------------------------------------------
(* The console *)

Index == 0 .. Wrap - 1
Kept == Char \cup {Blank}

ConsoleTypes ==
    /\ ring \in [0 .. INPUT_BUF - 1 -> Kept]
    /\ r \in Index /\ w \in Index /\ e \in Index
    /\ rpc \in [ConsoleReader -> {"out", "loop", "sleep", "asleep"}]

\* The ring holds the complete lines and the line being edited, and it is full only of complete ones.
Fits == /\ Minus(w, r) + Minus(e, w) <= INPUT_BUF
        /\ Minus(w, r) + Minus(e, w) = INPUT_BUF => e = w

\* The line being edited has no end.
Unfinished == \A k \in 1 .. Minus(e, w) : ring[(w + (k - 1)) % INPUT_BUF] # Newline

\* Who sleeps, or holds cons.lock in order to sleep, has read everything.
Waiting == \A p \in ConsoleReader : /\ rpc[p] = "sleep" => conslock = p /\ r = w
                                    /\ rpc[p] = "asleep" => r = w

ConsoleInv == ConsoleTypes /\ Fits /\ Unfinished /\ Waiting

\* What the assumption says of the constants.
LEMMA ConsoleConstants ==
    /\ INPUT_BUF \in Nat \ {0} /\ Wrap \in Nat \ {0} /\ Wrap % INPUT_BUF = 0 /\ Wrap > INPUT_BUF
    /\ INPUT_BUF \in Index
    /\ NoReader \notin ConsoleReader
  BY ConsoleAssumption DEF Index

\* Steps of an index, and the distance of two
LEMMA PlusIs == \A x, m \in Index : /\ Plus(x, m) = IF x + m < Wrap THEN x + m ELSE x + m - Wrap
                                    /\ Plus(x, m) \in Index
  <1> SUFFICES ASSUME NEW x \in Index, NEW m \in Index
               PROVE  Plus(x, m) = (IF x + m < Wrap THEN x + m ELSE x + m - Wrap) /\ Plus(x, m) \in Index
    BY Zenon
  <1>1. PICK d \in Int : d = x + m
    BY DEF Index
  <1>2. /\ 0 <= d /\ d < Wrap => d % Wrap = d
        /\ Wrap <= d /\ d < 2 * Wrap => d % Wrap = d - Wrap
    BY Zenon, ConsoleConstants, ModWrap
  <1>3. QED
    BY <1>1, <1>2, ConsoleConstants DEF Plus, Index

\* The distance from one index to another is a subtraction of words.
LEMMA MinusIs == \A x, y \in Index : /\ Minus(x, y) = IF x >= y THEN x - y ELSE x - y + Wrap
                                     /\ Minus(x, y) \in Index
  <1> SUFFICES ASSUME NEW x \in Index, NEW y \in Index
               PROVE  Minus(x, y) = (IF x >= y THEN x - y ELSE x - y + Wrap) /\ Minus(x, y) \in Index
    BY Zenon
  <1>1. PICK d \in Int : d = x - y + Wrap
    BY ConsoleConstants DEF Index
  <1>2. /\ 0 <= d /\ d < Wrap => d % Wrap = d
        /\ Wrap <= d /\ d < 2 * Wrap => d % Wrap = d - Wrap
    BY Zenon, ConsoleConstants, ModWrap
  <1>3. QED
    BY <1>1, <1>2, ConsoleConstants DEF Minus, Index

\* The cell of an index does not change with a wrap.
LEMMA SameCell == ASSUME NEW x \in Int, NEW y \in Int, y = x \/ y = x + Wrap \/ y = x - Wrap
                  PROVE  y % INPUT_BUF = x % INPUT_BUF
  <1>1. Wrap \in Nat
    BY ConsoleConstants
  <1>2. (x + Wrap) % INPUT_BUF = x % INPUT_BUF /\ (x - Wrap) % INPUT_BUF = x % INPUT_BUF
    BY Zenon, <1>1, ConsoleConstants, ModShift
  <1>3. QED
    BY Zenon, <1>2

\* The ring divides the words.
LEMMA ConsoleRing == IsRing(INPUT_BUF, Wrap)
  BY ConsoleConstants DEF IsRing

\* The u characters from index a on, in a ring d
Run(d, a, u) == Segment(d, a, u, INPUT_BUF, Wrap)
ConsoleRings == [0 .. INPUT_BUF - 1 -> Kept]

\* A run of the ring is a sequence whose members are cells of the ring.
LEMMA RunFacts == ASSUME NEW d \in ConsoleRings, NEW a \in Index, NEW u \in 0 .. INPUT_BUF
                  PROVE  /\ Run(d, a, u) \in Seq(Kept) /\ Len(Run(d, a, u)) = u
                         /\ \A k \in 1 .. u : Run(d, a, u)[k] = d[(a + (k - 1)) % INPUT_BUF]
  <1>a. IsSegment(Kept, INPUT_BUF, Wrap, d, a, u)
    BY Zenon, ConsoleRing DEF IsSegment, ConsoleRings, Index
  <1>1. /\ Segment(d, a, u, INPUT_BUF, Wrap) \in Seq(Kept)
        /\ Len(Segment(d, a, u, INPUT_BUF, Wrap)) = u
        /\ \A k \in 1 .. u : Segment(d, a, u, INPUT_BUF, Wrap)[k] = Cell(d, a, k, INPUT_BUF)
    BY ONLY <1>a, SegmentFacts
  <1>2. QED
    BY Zenon, <1>1 DEF Cell, Run

\* Between two indices
LEMMA BetweenIs == ASSUME NEW a, NEW j PROVE Between(a, j) = Run(ring, a, Minus(j, a))
  BY Zenon DEF Between, Run, Segment, InRing, Plus

\* Index j is u behind index a; d with c at index j
Behind(a, u, j) == j = a + u \/ j = a + u - Wrap
Stored(d, j, c) == [d EXCEPT ![j % INPUT_BUF] = c]

\* A character is written behind u others: it is appended to them, and they stay.
LEMMA RunWrite ==
    ASSUME NEW d \in ConsoleRings, NEW c \in Kept, NEW a \in Index, NEW u \in 0 .. INPUT_BUF - 1, NEW j \in Index,
           Behind(a, u, j)
    PROVE  /\ Stored(d, j, c) \in ConsoleRings
           /\ Run(Stored(d, j, c), a, u + 1) = Append(Run(d, a, u), c)
           /\ \A v \in 0 .. u : Run(Stored(d, j, c), a, v) = Run(d, a, v)
  <1>0. PICK f : f = Stored(d, j, c)
    OBVIOUS
  <1>1. j % INPUT_BUF \in 0 .. INPUT_BUF - 1 /\ f \in ConsoleRings /\ f[j % INPUT_BUF] = c
    <2>1. j \in Int
      BY ConsoleConstants DEF Index
    <2>2. j % INPUT_BUF \in 0 .. INPUT_BUF - 1
      BY Zenon, <2>1, DivMod, ConsoleConstants
    <2>3. QED
      BY <1>0, <2>2 DEF ConsoleRings, Stored
  <1>2. a + u \in Int /\ j \in Int
    BY ConsoleConstants DEF Index
  <1>3. j % INPUT_BUF = (a + u) % INPUT_BUF
    <2>1. PICK x \in Int : x = a + u
      BY <1>2
    <2>2. j = x \/ j = x - Wrap
      BY <2>1, ConsoleConstants DEF Index, Behind
    <2>3. j % INPUT_BUF = x % INPUT_BUF
      BY Zenon, <1>2, <2>2, SameCell
    <2>4. QED
      BY Zenon, <2>1, <2>3
  <1>4. ASSUME NEW k \in 1 .. u PROVE f[(a + (k - 1)) % INPUT_BUF] = d[(a + (k - 1)) % INPUT_BUF]
    <2>1. PICK x \in Int, y \in Int : x = a + (k - 1) /\ y = a + u
      BY <1>2, ConsoleConstants DEF Index
    <2>2. 0 < y - x /\ y - x < INPUT_BUF
      BY <2>1, ConsoleConstants DEF Index
    <2>3. x % INPUT_BUF # y % INPUT_BUF
      BY Zenon, <2>2, ModDistinct, ConsoleConstants
    <2>4. x % INPUT_BUF \in 0 .. INPUT_BUF - 1
      BY Zenon, DivMod, ConsoleConstants
    <2>5. QED
      BY Zenon, <1>0, <1>3, <2>1, <2>3, <2>4 DEF ConsoleRings, Stored
  <1>5. Run(f, a, u + 1) = Append(Run(d, a, u), c)
    <2>1. u \in 0 .. INPUT_BUF /\ u + 1 \in 0 .. INPUT_BUF
      BY ConsoleConstants
    <2>2. /\ Run(d, a, u) \in Seq(Kept) /\ Len(Run(d, a, u)) = u
          /\ \A k \in 1 .. u : Run(d, a, u)[k] = d[(a + (k - 1)) % INPUT_BUF]
      BY Zenon, <2>1, RunFacts
    <2>3. /\ Run(f, a, u + 1) \in Seq(Kept) /\ Len(Run(f, a, u + 1)) = u + 1
          /\ \A k \in 1 .. u + 1 : Run(f, a, u + 1)[k] = f[(a + (k - 1)) % INPUT_BUF]
      BY Zenon, <1>1, <2>1, RunFacts
    <2>4. \A k \in 1 .. u : k \in 1 .. u + 1
      OBVIOUS
    <2>5. \A k \in 1 .. Len(Run(d, a, u)) : Run(f, a, u + 1)[k] = Run(d, a, u)[k]
      BY Zenon, <1>4, <2>2, <2>3, <2>4
    <2>6. u + 1 \in 1 .. u + 1 /\ a + ((u + 1) - 1) = a + u
      BY <1>2 DEF Index
    <2>7. Run(f, a, u + 1)[Len(Run(d, a, u)) + 1] = c
      BY Zenon, <1>1, <1>3, <2>2, <2>3, <2>6
    <2>8. QED
      <3>1. /\ Run(d, a, u) \in Seq(Kept) /\ Run(f, a, u + 1) \in Seq(Kept) /\ c \in Kept
            /\ Len(Run(f, a, u + 1)) = Len(Run(d, a, u)) + 1
        BY Zenon, <2>2, <2>3
      <3>2. QED
        BY ONLY <3>1, <2>5, <2>7, IsAppend
  <1>6. ASSUME NEW v \in 0 .. u PROVE Run(f, a, v) = Run(d, a, v)
    <2>1. v \in 0 .. INPUT_BUF /\ \A k \in 1 .. v : k \in 1 .. u
      BY ConsoleConstants
    <2>2. /\ Run(d, a, v) \in Seq(Kept) /\ Len(Run(d, a, v)) = v
          /\ \A k \in 1 .. v : Run(d, a, v)[k] = d[(a + (k - 1)) % INPUT_BUF]
      BY Zenon, <2>1, RunFacts
    <2>3. /\ Run(f, a, v) \in Seq(Kept) /\ Len(Run(f, a, v)) = v
          /\ \A k \in 1 .. v : Run(f, a, v)[k] = f[(a + (k - 1)) % INPUT_BUF]
      BY Zenon, <1>1, <2>1, RunFacts
    <2>4. \A k \in 1 .. v : Run(f, a, v)[k] = Run(d, a, v)[k]
      BY Zenon, <1>4, <2>1, <2>2, <2>3
    <2>5. QED
      BY Zenon, <2>2, <2>3, <2>4, IsSame
  <1>7. QED
    BY Zenon, <1>0, <1>1, <1>5, <1>6

\* Two runs, the second behind the first
LEMMA RunJoin ==
    ASSUME NEW d \in ConsoleRings, NEW a \in Index, NEW j \in Index, NEW u \in 0 .. INPUT_BUF, NEW v \in 0 .. INPUT_BUF,
           u + v <= INPUT_BUF, j = a + u \/ j = a + u - Wrap
    PROVE  Run(d, a, u + v) = Run(d, a, u) \o Run(d, j, v)
  <1>1. u + v \in 0 .. INPUT_BUF
    BY ConsoleConstants
  <1>2. /\ Run(d, a, u) \in Seq(Kept) /\ Len(Run(d, a, u)) = u
        /\ \A k \in 1 .. u : Run(d, a, u)[k] = d[(a + (k - 1)) % INPUT_BUF]
    BY Zenon, RunFacts
  <1>3. /\ Run(d, j, v) \in Seq(Kept) /\ Len(Run(d, j, v)) = v
        /\ \A k \in 1 .. v : Run(d, j, v)[k] = d[(j + (k - 1)) % INPUT_BUF]
    BY Zenon, RunFacts
  <1>4. /\ Run(d, a, u + v) \in Seq(Kept) /\ Len(Run(d, a, u + v)) = u + v
        /\ \A k \in 1 .. u + v : Run(d, a, u + v)[k] = d[(a + (k - 1)) % INPUT_BUF]
    BY Zenon, <1>1, RunFacts
  <1>5. ASSUME NEW k \in 1 .. v PROVE Run(d, a, u + v)[u + k] = Run(d, j, v)[k]
    <2>1. PICK x \in Int, y \in Int : x = a + ((u + k) - 1) /\ y = j + (k - 1)
      BY ConsoleConstants DEF Index
    <2>2. y = x \/ y = x - Wrap
      BY <2>1, ConsoleConstants DEF Index
    <2>3. y % INPUT_BUF = x % INPUT_BUF
      BY Zenon, <2>2, SameCell
    <2>4. u + k \in 1 .. u + v
      BY ConsoleConstants
    <2>5. QED
      BY Zenon, <1>3, <1>4, <2>1, <2>3, <2>4
  <1>6. \A k \in 1 .. u : k \in 1 .. u + v
    OBVIOUS
  <1>7. \A k \in 1 .. Len(Run(d, a, u)) : Run(d, a, u + v)[k] = Run(d, a, u)[k]
    BY Zenon, <1>2, <1>4, <1>6
  <1>8. \A k \in 1 .. Len(Run(d, j, v)) : Run(d, a, u + v)[Len(Run(d, a, u)) + k] = Run(d, j, v)[k]
    BY Zenon, <1>2, <1>3, <1>5
  <1>9. QED
    <2>1. /\ Run(d, a, u) \in Seq(Kept) /\ Run(d, j, v) \in Seq(Kept) /\ Run(d, a, u + v) \in Seq(Kept)
          /\ Len(Run(d, a, u + v)) = Len(Run(d, a, u)) + Len(Run(d, j, v))
      BY Zenon, <1>2, <1>3, <1>4
    <2>2. QED
      BY ONLY <2>1, <1>7, <1>8, IsConcat

\* The two parts of the ring as sequences
LEMMA Parts == ASSUME ConsoleTypes, Fits
               PROVE  /\ Minus(w, r) \in 0 .. INPUT_BUF /\ Minus(e, w) \in 0 .. INPUT_BUF
                      /\ Minus(e, r) = Minus(w, r) + Minus(e, w)
                      /\ Between(r, w) \in Seq(Kept) /\ Len(Between(r, w)) = Minus(w, r)
                      /\ \A k \in 1 .. Minus(w, r) : Between(r, w)[k] = ring[(r + (k - 1)) % INPUT_BUF]
                      /\ Between(w, e) \in Seq(Kept) /\ Len(Between(w, e)) = Minus(e, w)
                      /\ \A k \in 1 .. Minus(e, w) : Between(w, e)[k] = ring[(w + (k - 1)) % INPUT_BUF]
  <1>1. ring \in [0 .. INPUT_BUF - 1 -> Kept] /\ r \in Index /\ w \in Index /\ e \in Index
    BY DEF ConsoleTypes
  <1>2. /\ Minus(w, r) \in Index /\ Minus(w, r) = IF w >= r THEN w - r ELSE w - r + Wrap
        /\ Minus(e, w) \in Index /\ Minus(e, w) = IF e >= w THEN e - w ELSE e - w + Wrap
        /\ Minus(e, r) \in Index /\ Minus(e, r) = IF e >= r THEN e - r ELSE e - r + Wrap
    BY Zenon, <1>1, MinusIs
  <1>3. Minus(w, r) + Minus(e, w) <= INPUT_BUF
    BY DEF Fits
  <1>4. Minus(w, r) \in 0 .. INPUT_BUF /\ Minus(e, w) \in 0 .. INPUT_BUF /\ Minus(e, r) = Minus(w, r) + Minus(e, w)
    BY <1>1, <1>2, <1>3, ConsoleConstants DEF Index
  <1>5. ring \in ConsoleRings
    BY Zenon, <1>1 DEF ConsoleRings
  <1>6. /\ Between(r, w) \in Seq(Kept) /\ Len(Between(r, w)) = Minus(w, r)
        /\ \A k \in 1 .. Minus(w, r) : Between(r, w)[k] = ring[(r + (k - 1)) % INPUT_BUF]
    BY Zenon, <1>1, <1>4, <1>5, RunFacts, BetweenIs
  <1>7. /\ Between(w, e) \in Seq(Kept) /\ Len(Between(w, e)) = Minus(e, w)
        /\ \A k \in 1 .. Minus(e, w) : Between(w, e)[k] = ring[(w + (k - 1)) % INPUT_BUF]
    BY Zenon, <1>1, <1>4, <1>5, RunFacts, BetweenIs
  <1>8. QED
    BY Zenon, <1>4, <1>6, <1>7

\* The two parts of the input after a step, as runs.
LEMMA NextBetween == /\ Between(r, w)' = Run(ring', r', Minus(w', r'))
                     /\ Between(w, e)' = Run(ring', w', Minus(e', w'))
  BY Zenon DEF Between, Run, Segment, InRing, Plus, Minus

\* Where the indices are: C complete and D edited characters
LEMMA Lengths == ASSUME ConsoleInv, NEW C, NEW D, C = Minus(w, r), D = Minus(e, w)
                 PROVE  /\ ring \in ConsoleRings /\ r \in Index /\ w \in Index /\ e \in Index
                        /\ C \in 0 .. INPUT_BUF /\ D \in 0 .. INPUT_BUF /\ C + D <= INPUT_BUF
                        /\ Minus(e, r) = C + D /\ (C + D = INPUT_BUF => e = w) /\ (D = 0 <=> e = w) /\ (C = 0 <=> r = w)
                        /\ w = r + C \/ w = r + C - Wrap
                        /\ e = w + D \/ e = w + D - Wrap
                        /\ e = r + (C + D) \/ e = r + (C + D) - Wrap
                        /\ Between(r, w) = Run(ring, r, C) /\ Between(w, e) = Run(ring, w, D)
  <1>1. ring \in ConsoleRings /\ r \in Index /\ w \in Index /\ e \in Index
    BY Zenon DEF ConsoleInv, ConsoleTypes, ConsoleRings
  <1>2. C \in 0 .. INPUT_BUF /\ D \in 0 .. INPUT_BUF /\ Minus(e, r) = C + D
    BY Zenon, Parts DEF ConsoleInv
  <1>3. C + D <= INPUT_BUF /\ (C + D = INPUT_BUF => e = w)
    BY Zenon DEF ConsoleInv, Fits
  <1>4. /\ C = IF w >= r THEN w - r ELSE w - r + Wrap
        /\ D = IF e >= w THEN e - w ELSE e - w + Wrap
    BY Zenon, <1>1, MinusIs
  <1>5. /\ (D = 0 <=> e = w) /\ (C = 0 <=> r = w)
        /\ w = r + C \/ w = r + C - Wrap
        /\ e = w + D \/ e = w + D - Wrap
    BY <1>1, <1>2, <1>4, ConsoleConstants DEF Index
  <1>6. e = r + (C + D) \/ e = r + (C + D) - Wrap
    BY <1>1, <1>2, <1>3, <1>5, ConsoleConstants DEF Index
  <1>7. QED
    BY Zenon, <1>1, <1>2, <1>3, <1>5, <1>6, BetweenIs

\* typed() adds the character to the line, or hands the line over with it.
LEMMA TypedStep == ASSUME ConsoleInv, NEW c \in Char, typed(c)
                   PROVE  ConsoleTypes' /\ Fits' /\ Unfinished' /\ Promise!TType(c)
  <1>1. PICK C, D : C = Minus(w, r) /\ D = Minus(e, w)
    OBVIOUS
  <1>2. /\ ring \in ConsoleRings /\ r \in Index /\ w \in Index /\ e \in Index
        /\ C \in 0 .. INPUT_BUF /\ D \in 0 .. INPUT_BUF /\ C + D <= INPUT_BUF /\ Minus(e, r) = C + D
        /\ w = r + C \/ w = r + C - Wrap
        /\ e = w + D \/ e = w + D - Wrap
        /\ e = r + (C + D) \/ e = r + (C + D) - Wrap
        /\ Between(r, w) = Run(ring, r, C) /\ Between(w, e) = Run(ring, w, D)
    BY Zenon, <1>1, Lengths
  <1>3. /\ Minus(e, r) < INPUT_BUF /\ r' = r /\ e' = Plus(e, 1) /\ ring' = [ring EXCEPT ![e % INPUT_BUF] = c]
        /\ IF Completes(c, e') THEN w' = e' /\ rpc' = Awake ELSE w' = w /\ rpc' = rpc
        /\ rgot' = rgot
    BY Zenon DEF typed, Room, InRing
  <1>4. C + D < INPUT_BUF
    BY Zenon, <1>2, <1>3
  <1>5. 1 \in Index
    BY ConsoleConstants DEF Index
  <1>6. e' \in Index /\ e' = IF e + 1 < Wrap THEN e + 1 ELSE e + 1 - Wrap
    BY Zenon, <1>2, <1>3, <1>5, PlusIs
  <1>7. Minus(e', w) = D + 1 /\ Minus(e', r) = C + D + 1 /\ Minus(e', e') = 0
    <2>1. /\ Minus(e', w) = IF e' >= w THEN e' - w ELSE e' - w + Wrap
          /\ Minus(e', r) = IF e' >= r THEN e' - r ELSE e' - r + Wrap
          /\ Minus(e', e') = IF e' >= e' THEN e' - e' ELSE e' - e' + Wrap
      BY Zenon, <1>2, <1>6, MinusIs
    <2>2. QED
      BY <1>2, <1>4, <1>6, <2>1, ConsoleConstants DEF Index
  <1>8. Completes(c, e') <=> c \in {Newline, Eof} \/ C + D + 1 = INPUT_BUF
    <2>1. Plus(r, INPUT_BUF) = IF r + INPUT_BUF < Wrap THEN r + INPUT_BUF ELSE r + INPUT_BUF - Wrap
      BY Zenon, <1>2, PlusIs, ConsoleConstants
    <2>2. e' = Plus(r, INPUT_BUF) <=> C + D + 1 = INPUT_BUF
      BY <1>2, <1>4, <1>6, <2>1, ConsoleConstants DEF Index
    <2>3. QED
      BY Zenon, <2>2 DEF Completes
  <1>9. c \in Kept
    BY Zenon DEF Kept
  <1>10. /\ ring' \in ConsoleRings
         /\ Run(ring', w, D + 1) = Append(Run(ring, w, D), c)
         /\ Run(ring', r, C + D + 1) = Append(Run(ring, r, C + D), c)
         /\ Run(ring', r, C) = Run(ring, r, C)
    <2>1. D \in 0 .. INPUT_BUF - 1 /\ C + D \in 0 .. INPUT_BUF - 1 /\ C \in 0 .. C + D
      BY <1>2, <1>4, ConsoleConstants
    <2>2. ring' = Stored(ring, e, c) /\ Behind(w, D, e) /\ Behind(r, C + D, e)
      BY Zenon, <1>2, <1>3 DEF Stored, Behind
    <2>3. ring \in ConsoleRings /\ r \in Index /\ w \in Index /\ e \in Index
      BY Zenon, <1>2
    <2>4. Stored(ring, e, c) \in ConsoleRings /\ Run(Stored(ring, e, c), w, D + 1) = Append(Run(ring, w, D), c)
      BY ONLY <1>9, <2>1, <2>2, <2>3, RunWrite
    <2>5. /\ Run(Stored(ring, e, c), r, (C + D) + 1) = Append(Run(ring, r, C + D), c)
          /\ \A v \in 0 .. C + D : Run(Stored(ring, e, c), r, v) = Run(ring, r, v)
      BY ONLY <1>9, <2>1, <2>2, <2>3, RunWrite
    <2>6. QED
      BY Zenon, <2>1, <2>2, <2>4, <2>5
  <1>11. w' \in Index /\ rpc' \in [ConsoleReader -> {"out", "loop", "sleep", "asleep"}]
    BY <1>2, <1>3, <1>6 DEF Awake, ConsoleInv, ConsoleTypes
  <1>12. ConsoleTypes'
    BY Zenon, <1>2, <1>3, <1>6, <1>10, <1>11 DEF ConsoleTypes, ConsoleRings
  <1>13. /\ Run(ring, r, C) \in Seq(Kept) /\ Len(Run(ring, r, C)) = C
         /\ Run(ring, w, D) \in Seq(Kept) /\ Len(Run(ring, w, D)) = D
         /\ \A k \in 1 .. D : Run(ring, w, D)[k] = ring[(w + (k - 1)) % INPUT_BUF]
    BY Zenon, <1>2, RunFacts
  <1>14. CASE Completes(c, e')
    <2>1. w' = e' /\ Minus(w', r') = C + D + 1 /\ Minus(e', w') = 0
      BY Zenon, <1>3, <1>7, <1>14
    <2>2. Fits'
      <3>1. Minus(w', r') + Minus(e', w') <= INPUT_BUF
        BY <1>2, <1>4, <2>1, ConsoleConstants
      <3>2. QED
        BY Zenon, <2>1, <3>1 DEF Fits, Minus
    <2>3. Unfinished'
      <3>1. \A k \in 1 .. 0 : FALSE
        OBVIOUS
      <3>2. QED
        BY Zenon, <2>1, <3>1 DEF Unfinished, Minus
    <2>4. Between(r, w)' = Append(Run(ring, r, C + D), c)
      BY Zenon, <1>3, <1>10, <2>1, NextBetween
    <2>5. Run(ring, r, C + D) = Run(ring, r, C) \o Run(ring, w, D)
      BY ZenonT(40), <1>2, RunJoin
    <2>6. Append(Run(ring, r, C) \o Run(ring, w, D), c) = Run(ring, r, C) \o Append(Run(ring, w, D), c)
      <3>1. Run(ring, r, C) \in Seq(Kept) /\ Run(ring, w, D) \in Seq(Kept)
        BY Zenon, <1>13
      <3>2. PICK s \in Seq(Kept), t \in Seq(Kept) : s = Run(ring, r, C) /\ t = Run(ring, w, D)
        BY Zenon, <3>1
      <3>3. Append(s \o t, c) = s \o Append(t, c)
        BY ONLY s \in Seq(Kept), t \in Seq(Kept), <1>9
      <3>4. QED
        BY Zenon, <3>2, <3>3
    <2>7. Between(r, w)' = Between(r, w) \o Append(Between(w, e), c)
      BY Zenon, <1>2, <2>4, <2>5, <2>6
    <2>8. Between(w, e)' = << >>
      <3>1. 0 \in 0 .. INPUT_BUF
        BY ConsoleConstants
      <3>2. Run(ring', w', 0) \in Seq(Kept) /\ Len(Run(ring', w', 0)) = 0
        BY Zenon, <1>10, <1>11, <3>1, RunFacts
      <3>3. Run(ring', w', 0) = << >>
        BY <3>2
      <3>4. QED
        BY Zenon, <2>1, <3>3, NextBetween
    <2>9. Promise!TType(c)
      <3>1. Len(Between(r, w)) + Len(Between(w, e)) = C + D
        BY Zenon, <1>2, <1>13
      <3>2. c \in {Newline, Eof} \/ Len(Between(r, w)) + Len(Between(w, e)) + 1 = INPUT_BUF
        BY Zenon, <1>8, <1>14, <3>1
      <3>3. QED
        BY Zenon, <1>3, <1>4, <2>7, <2>8, <3>1, <3>2 DEF Promise!TType
    <2>10. QED
      BY Zenon, <1>12, <2>2, <2>3, <2>9
  <1>15. CASE ~ Completes(c, e')
    <2>1. w' = w /\ Minus(w', r') = C /\ Minus(e', w') = D + 1
      BY Zenon, <1>1, <1>3, <1>7, <1>15
    <2>2. c # Newline /\ c # Eof /\ C + D + 1 # INPUT_BUF
      BY Zenon, <1>8, <1>15
    <2>3. Fits'
      <3>1. C + (D + 1) <= INPUT_BUF /\ C + (D + 1) # INPUT_BUF
        BY <1>2, <1>4, <2>2, ConsoleConstants
      <3>2. QED
        BY Zenon, <2>1, <3>1 DEF Fits, Minus
    <2>4. Between(w, e)' = Append(Between(w, e), c) /\ Between(r, w)' = Between(r, w)
      BY Zenon, <1>2, <1>3, <1>10, <2>1, NextBetween
    <2>5. Unfinished'
      <3>1. D + 1 \in 0 .. INPUT_BUF
        BY <1>2, <1>4, ConsoleConstants
      <3>2. \A k \in 1 .. D + 1 : Run(ring', w, D + 1)[k] = ring'[(w + (k - 1)) % INPUT_BUF]
        BY Zenon, <1>2, <1>10, <3>1, RunFacts
      <3>3. \A k \in 1 .. D : Run(ring, w, D)[k] # Newline
        BY Zenon, <1>1, <1>13 DEF ConsoleInv, Unfinished
      <3>4. \A k \in 1 .. D + 1 : Append(Run(ring, w, D), c)[k] # Newline
        <4>1. Run(ring, w, D) \in Seq(Kept) /\ Len(Run(ring, w, D)) = D /\ c # Newline
          BY Zenon, <1>13, <2>2
        <4>2. QED
          BY ONLY <1>9, <4>1, <3>3, AppendAvoids
      <3>5. \A k \in 1 .. D + 1 : ring'[(w + (k - 1)) % INPUT_BUF] # Newline
        BY Zenon, <1>10, <3>2, <3>4
      <3>6. QED
        BY Zenon, <2>1, <3>5 DEF Unfinished, Minus
    <2>6. Promise!TType(c)
      <3>1. Len(Between(r, w)) + Len(Between(w, e)) = C + D
        BY Zenon, <1>2, <1>13
      <3>2. ~ (c \in {Newline, Eof} \/ Len(Between(r, w)) + Len(Between(w, e)) + 1 = INPUT_BUF)
        BY Zenon, <2>2, <3>1
      <3>3. QED
        BY Zenon, <1>3, <1>4, <2>4, <3>1, <3>2 DEF Promise!TType
    <2>7. QED
      BY Zenon, <1>12, <2>3, <2>5, <2>6
  <1>16. QED
    BY Zenon, <1>14, <1>15

\* The first v of u characters, and all but the first
LEMMA RunFront == ASSUME NEW d \in ConsoleRings, NEW a \in Index, NEW u \in 0 .. INPUT_BUF, NEW v \in 0 .. u
                  PROVE  Run(d, a, v) = SubSeq(Run(d, a, u), 1, v)
  <1>1. v \in 0 .. INPUT_BUF /\ \A k \in 1 .. v : k \in 1 .. u
    BY ConsoleConstants
  <1>2. /\ Run(d, a, u) \in Seq(Kept) /\ Len(Run(d, a, u)) = u
        /\ \A k \in 1 .. u : Run(d, a, u)[k] = d[(a + (k - 1)) % INPUT_BUF]
    BY Zenon, RunFacts
  <1>3. /\ Run(d, a, v) \in Seq(Kept) /\ Len(Run(d, a, v)) = v
        /\ \A k \in 1 .. v : Run(d, a, v)[k] = d[(a + (k - 1)) % INPUT_BUF]
    BY Zenon, <1>1, RunFacts
  <1>4. \A k \in 1 .. Len(Run(d, a, v)) : Run(d, a, v)[k] = Run(d, a, u)[k]
    BY Zenon, <1>1, <1>2, <1>3
  <1>5. /\ Run(d, a, v) \in Seq(Kept) /\ Run(d, a, u) \in Seq(Kept) /\ v \in 0 .. Len(Run(d, a, u))
        /\ Len(Run(d, a, v)) = v
    BY Zenon, <1>2, <1>3
  <1>6. QED
    BY ONLY <1>4, <1>5, IsFront

\* Without its first character, a run begins one index later.
LEMMA RunTail == ASSUME NEW d \in ConsoleRings, NEW a \in Index, NEW u \in 1 .. INPUT_BUF, NEW j \in Index, Behind(a, 1, j)
                 PROVE  /\ Run(d, a, u) # << >> /\ Head(Run(d, a, u)) = d[a % INPUT_BUF]
                        /\ Run(d, j, u - 1) = Tail(Run(d, a, u))
  <1>1. u \in 0 .. INPUT_BUF /\ u - 1 \in 0 .. INPUT_BUF
    BY ConsoleConstants
  <1>2. /\ Run(d, a, u) \in Seq(Kept) /\ Len(Run(d, a, u)) = u
        /\ \A k \in 1 .. u : Run(d, a, u)[k] = d[(a + (k - 1)) % INPUT_BUF]
    BY Zenon, <1>1, RunFacts
  <1>3. /\ Run(d, j, u - 1) \in Seq(Kept) /\ Len(Run(d, j, u - 1)) = u - 1
        /\ \A k \in 1 .. u - 1 : Run(d, j, u - 1)[k] = d[(j + (k - 1)) % INPUT_BUF]
    BY Zenon, <1>1, RunFacts
  <1>4. ASSUME NEW k \in 1 .. u - 1 PROVE Run(d, j, u - 1)[k] = Run(d, a, u)[k + 1]
    <2>1. PICK x \in Int, y \in Int : x = a + ((k + 1) - 1) /\ y = j + (k - 1)
      BY ConsoleConstants DEF Index
    <2>2. y = x \/ y = x - Wrap
      BY <2>1, ConsoleConstants DEF Index, Behind
    <2>3. y % INPUT_BUF = x % INPUT_BUF
      BY Zenon, <2>2, SameCell
    <2>4. k + 1 \in 1 .. u
      BY ConsoleConstants
    <2>5. QED
      BY Zenon, <1>2, <1>3, <2>1, <2>3, <2>4
  <1>5. /\ Run(d, a, u) \in Seq(Kept) /\ Run(d, j, u - 1) \in Seq(Kept)
        /\ Len(Run(d, a, u)) = Len(Run(d, j, u - 1)) + 1
        /\ \A k \in 1 .. Len(Run(d, j, u - 1)) : Run(d, j, u - 1)[k] = Run(d, a, u)[k + 1]
    BY <1>2, <1>3, <1>4
  <1>6. Run(d, j, u - 1) = Tail(Run(d, a, u)) /\ Run(d, a, u) # << >>
    BY ONLY <1>5, IsTail
  <1>7. 1 \in 1 .. u /\ a + (1 - 1) = a
    BY ConsoleConstants DEF Index
  <1>8. Run(d, a, u)[1] = d[a % INPUT_BUF]
    BY Zenon, <1>2, <1>7
  <1>9. Head(Run(d, a, u)) = Run(d, a, u)[1]
    BY <1>2, <1>6
  <1>10. QED
    BY Zenon, <1>6, <1>8, <1>9

\* ^H and ^U take characters off the line being edited.
LEMMA EraseStep == ASSUME ConsoleInv, NEW m \in 1 .. INPUT_BUF, m <= Minus(e, w), erase(m)
                   PROVE  /\ ConsoleTypes' /\ Fits' /\ Unfinished'
                          /\ Between(r, w)' = Between(r, w) /\ Between(w, e)' = Run(ring, w, Minus(e, w) - m)
                          /\ rgot' = rgot
  <1>1. PICK C, D : C = Minus(w, r) /\ D = Minus(e, w)
    OBVIOUS
  <1>2. /\ ring \in ConsoleRings /\ r \in Index /\ w \in Index /\ e \in Index
        /\ C \in 0 .. INPUT_BUF /\ D \in 0 .. INPUT_BUF /\ C + D <= INPUT_BUF
        /\ e = w + D \/ e = w + D - Wrap
        /\ Between(r, w) = Run(ring, r, C)
    BY Zenon, <1>1, Lengths
  <1>3. e' = Minus(e, m) /\ UNCHANGED <<ring, r, w, rpc, rgot>>
    BY Zenon DEF erase
  <1>4. m \in Index
    BY ConsoleConstants DEF Index
  <1>5. e' \in Index /\ e' = IF e >= m THEN e - m ELSE e - m + Wrap
    BY Zenon, <1>2, <1>3, <1>4, MinusIs
  <1>6. Minus(e', w) = D - m
    <2>1. Minus(e', w) = IF e' >= w THEN e' - w ELSE e' - w + Wrap
      BY Zenon, <1>2, <1>5, MinusIs
    <2>2. m <= D
      BY Zenon, <1>1
    <2>3. QED
      BY <1>2, <1>5, <2>1, <2>2, ConsoleConstants DEF Index
  <1>7. Minus(e', w') = D - m /\ Minus(w', r') = C
    BY Zenon, <1>1, <1>3, <1>6
  <1>8. ConsoleTypes'
    BY Zenon, <1>2, <1>3, <1>5 DEF ConsoleTypes, ConsoleInv
  <1>9. Fits'
    <2>1. C + (D - m) <= INPUT_BUF /\ C + (D - m) # INPUT_BUF
      BY <1>1, <1>2, ConsoleConstants
    <2>2. QED
      BY Zenon, <1>7, <2>1 DEF Fits, Minus
  <1>10. Unfinished'
    <2>1. \A k \in 1 .. D - m : k \in 1 .. D
      BY <1>2
    <2>2. \A k \in 1 .. D - m : ring'[(w' + (k - 1)) % INPUT_BUF] # Newline
      BY Zenon, <1>1, <1>3, <2>1 DEF ConsoleInv, Unfinished
    <2>3. QED
      BY Zenon, <1>7, <2>2 DEF Unfinished, Minus
  <1>11. QED
    BY Zenon, <1>1, <1>2, <1>3, <1>7, <1>8, <1>9, <1>10, NextBetween

\* ^U takes all of them: the line being edited has no newline to stop at.
LEMMA KillLineStep == ASSUME ConsoleInv, killLine
                      PROVE  ConsoleTypes' /\ Fits' /\ Unfinished' /\ Promise!TKill
  <1>1. PICK m \in 1 .. INPUT_BUF : /\ m <= Minus(e, w) /\ erase(m)
                                    /\ m = Minus(e, w) \/ ring[InRing(Minus(e, m + 1))] = Newline
    BY Zenon DEF killLine
  <1>2. PICK C, D : C = Minus(w, r) /\ D = Minus(e, w)
    OBVIOUS
  <1>3. /\ ring \in ConsoleRings /\ w \in Index /\ e \in Index /\ D \in 0 .. INPUT_BUF
        /\ e = w + D \/ e = w + D - Wrap
    BY Zenon, <1>2, Lengths
  <1>4. m = D
    <2> SUFFICES ASSUME m # D PROVE FALSE
      OBVIOUS
    <2>1. D - m \in 1 .. D /\ m + 1 \in Index
      BY <1>1, <1>2, <1>3, ConsoleConstants DEF Index
    <2>2. PICK x \in Int, y \in Int : x = w + ((D - m) - 1) /\ y = Minus(e, m + 1)
      <3>1. Minus(e, m + 1) \in Index
        BY Zenon, <1>3, <2>1, MinusIs
      <3>2. w + ((D - m) - 1) \in Int /\ Minus(e, m + 1) \in Int
        BY <1>3, <3>1, ConsoleConstants DEF Index
      <3>3. QED
        BY Zenon, <3>2
    <2>3. y = x \/ y = x + Wrap \/ y = x - Wrap
      <3>1. Minus(e, m + 1) = IF e >= m + 1 THEN e - (m + 1) ELSE e - (m + 1) + Wrap
        BY Zenon, <1>3, <2>1, MinusIs
      <3>2. QED
        BY <1>3, <2>1, <2>2, <3>1, ConsoleConstants DEF Index
    <2>4. y % INPUT_BUF = x % INPUT_BUF
      BY Zenon, <2>3, SameCell
    <2>5. ring[x % INPUT_BUF] # Newline
      BY Zenon, <1>2, <2>1, <2>2 DEF ConsoleInv, Unfinished
    <2>6. QED
      BY Zenon, <1>1, <1>2, <2>2, <2>4, <2>5 DEF InRing
  <1>5. /\ ConsoleTypes' /\ Fits' /\ Unfinished' /\ rgot' = rgot
        /\ Between(r, w)' = Between(r, w) /\ Between(w, e)' = Run(ring, w, Minus(e, w) - m)
    BY Zenon, <1>1, EraseStep
  <1>6. Run(ring, w, 0) = << >> /\ D - m = 0
    <2>1. 0 \in 0 .. INPUT_BUF /\ D - m = 0
      BY <1>3, <1>4, ConsoleConstants
    <2>2. Run(ring, w, 0) \in Seq(Kept) /\ Len(Run(ring, w, 0)) = 0
      BY Zenon, <1>3, <2>1, RunFacts
    <2>3. QED
      BY <2>1, <2>2
  <1>7. QED
    BY Zenon, <1>2, <1>5, <1>6 DEF Promise!TKill

\* ^H erases the last character of the line being edited.
LEMMA BackspaceStep == ASSUME ConsoleInv, backspace
                       PROVE  ConsoleTypes' /\ Fits' /\ Unfinished' /\ Promise!TErase
  <1>1. PICK C, D : C = Minus(w, r) /\ D = Minus(e, w)
    OBVIOUS
  <1>2. /\ ring \in ConsoleRings /\ w \in Index /\ D \in 0 .. INPUT_BUF /\ (D = 0 <=> e = w)
        /\ Between(w, e) = Run(ring, w, D)
    BY Zenon, <1>1, Lengths
  <1>3. e # w /\ erase(1)
    BY Zenon DEF backspace, MayErase
  <1>4. 1 \in 1 .. INPUT_BUF /\ 1 <= D /\ D - 1 \in 0 .. D
    BY <1>2, <1>3, ConsoleConstants
  <1>5. /\ ConsoleTypes' /\ Fits' /\ Unfinished' /\ rgot' = rgot
        /\ Between(r, w)' = Between(r, w) /\ Between(w, e)' = Run(ring, w, D - 1)
    BY Zenon, <1>1, <1>3, <1>4, EraseStep
  <1>6. Run(ring, w, D) \in Seq(Kept) /\ Len(Run(ring, w, D)) = D
    BY Zenon, <1>2, RunFacts
  <1>7. Run(ring, w, D - 1) = SubSeq(Run(ring, w, D), 1, D - 1)
    BY Zenon, <1>2, <1>4, RunFront
  <1>8. Between(w, e) # << >> /\ Between(w, e)' = SubSeq(Between(w, e), 1, Len(Between(w, e)) - 1)
    <2>1. Run(ring, w, D) # << >>
      BY <1>4, <1>6
    <2>2. QED
      BY Zenon, <1>2, <1>5, <1>6, <1>7, <2>1
  <1>9. QED
    BY Zenon, <1>5, <1>8 DEF Promise!TErase

\* A character is consumed: the first of the complete ones.
LEMMA TakeStep == ASSUME ConsoleInv, r # w, r' = Plus(r, 1), UNCHANGED <<ring, w, e>>
                  PROVE  /\ r' \in Index /\ Fits' /\ Unfinished'
                         /\ Between(r, w) # << >> /\ Head(Between(r, w)) = ring[InRing(r)]
                         /\ Between(r, w)' = Tail(Between(r, w)) /\ Between(w, e)' = Between(w, e)
  <1>1. PICK C, D : C = Minus(w, r) /\ D = Minus(e, w)
    OBVIOUS
  <1>2. /\ ring \in ConsoleRings /\ r \in Index /\ w \in Index /\ e \in Index
        /\ C \in 0 .. INPUT_BUF /\ D \in 0 .. INPUT_BUF /\ C + D <= INPUT_BUF
        /\ (C + D = INPUT_BUF => e = w) /\ (C = 0 <=> r = w)
        /\ w = r + C \/ w = r + C - Wrap
        /\ Between(r, w) = Run(ring, r, C) /\ Between(w, e) = Run(ring, w, D)
    BY Zenon, <1>1, Lengths
  <1>3. 1 \in Index /\ C \in 1 .. INPUT_BUF
    BY <1>2, ConsoleConstants DEF Index
  <1>4. r' \in Index /\ r' = IF r + 1 < Wrap THEN r + 1 ELSE r + 1 - Wrap
    BY Zenon, <1>2, <1>3, PlusIs
  <1>5. Minus(w, r') = C - 1
    <2>1. Minus(w, r') = IF w >= r' THEN w - r' ELSE w - r' + Wrap
      BY Zenon, <1>2, <1>4, MinusIs
    <2>2. QED
      BY <1>2, <1>3, <1>4, <2>1, ConsoleConstants DEF Index
  <1>6. Minus(w', r') = C - 1 /\ Minus(e', w') = D
    BY Zenon, <1>1, <1>5
  <1>7. Fits'
    <2>1. (C - 1) + D <= INPUT_BUF /\ (C - 1) + D # INPUT_BUF
      BY <1>2, <1>3, ConsoleConstants
    <2>2. QED
      BY Zenon, <1>6, <2>1 DEF Fits, Minus
  <1>8. Unfinished'
    BY Zenon DEF ConsoleInv, Unfinished, Minus
  <1>9. Behind(r, 1, r')
    BY Zenon, <1>4 DEF Behind
  <1>10. /\ Run(ring, r, C) # << >> /\ Head(Run(ring, r, C)) = ring[r % INPUT_BUF]
         /\ Run(ring, r', C - 1) = Tail(Run(ring, r, C))
    BY Zenon, <1>2, <1>3, <1>4, <1>9, RunTail
  <1>11. Between(r, w)' = Tail(Between(r, w)) /\ Between(w, e)' = Between(w, e)
    BY Zenon, <1>1, <1>2, <1>6, <1>10, NextBetween
  <1>12. QED
    BY Zenon, <1>2, <1>4, <1>7, <1>8, <1>10, <1>11 DEF InRing

\* A step that leaves the ring and its indices alone changes neither part of the input.
LEMMA RingKept == ASSUME ConsoleInv, UNCHANGED <<ring, r, w, e>>
                  PROVE  Fits' /\ Unfinished' /\ Between(r, w)' = Between(r, w) /\ Between(w, e)' = Between(w, e)
  BY Zenon, NextBetween, BetweenIs DEF ConsoleInv, Fits, Unfinished, Minus

\* What a step does to the ring and to what the readers have, as the terminal sees it.
LEMMA TerminalStep == ASSUME ConsoleInv, [CNext]_cvars
                      PROVE  /\ ring' \in ConsoleRings /\ r' \in Index /\ w' \in Index /\ e' \in Index /\ Fits' /\ Unfinished'
                             /\ (Promise!TNext \/ UNCHANGED Promise!tvars)
  <1>a. ring \in ConsoleRings /\ r \in Index /\ w \in Index /\ e \in Index
    BY Zenon DEF ConsoleInv, ConsoleTypes, ConsoleRings
  <1> DEFINE Goal == /\ ring' \in ConsoleRings /\ r' \in Index /\ w' \in Index /\ e' \in Index /\ Fits' /\ Unfinished'
                     /\ (Promise!TNext \/ UNCHANGED Promise!tvars)
  <1>1. ASSUME NEW c \in Char, typed(c) PROVE Goal
    <2>1. ConsoleTypes' /\ Fits' /\ Unfinished' /\ Promise!TType(c)
      BY Zenon, <1>1, TypedStep
    <2>2. QED
      BY Zenon, <2>1 DEF ConsoleTypes, ConsoleRings, Promise!TNext
  <1>2. ASSUME backspace PROVE Goal
    BY Zenon, <1>2, BackspaceStep DEF ConsoleTypes, ConsoleRings, Promise!TNext
  <1>3. ASSUME killLine PROVE Goal
    BY Zenon, <1>3, KillLineStep DEF ConsoleTypes, ConsoleRings, Promise!TNext
  <1>4. ASSUME UNCHANGED <<ring, r, w, e, rgot>> PROVE Goal
    <2>1. Fits' /\ Unfinished' /\ Between(r, w)' = Between(r, w) /\ Between(w, e)' = Between(w, e)
      BY Zenon, <1>4, RingKept
    <2>2. QED
      BY Zenon, <1>a, <1>4, <2>1 DEF Promise!tvars
  <1>5. ASSUME NEW p \in ConsoleReader, NEW m \in 1 .. MaxRead, consoleread(p, m) PROVE Goal
    <2>1. UNCHANGED <<ring, r, w, e>> /\ rgot' = [rgot EXCEPT ![p] = << >>]
      BY Zenon, <1>5 DEF consoleread
    <2>2. Fits' /\ Unfinished' /\ Between(r, w)' = Between(r, w) /\ Between(w, e)' = Between(w, e)
      BY Zenon, <2>1, RingKept
    <2>3. Promise!TStart(p)
      BY Zenon, <2>1, <2>2 DEF Promise!TStart
    <2>4. QED
      BY Zenon, <1>a, <2>1, <2>2, <2>3 DEF Promise!TNext
  <1>6. ASSUME NEW p \in ConsoleReader, take(p) PROVE Goal
    <2>1. r # w /\ UNCHANGED <<ring, w, e>>
      BY Zenon, <1>6 DEF take
    <2>2. CASE ring[InRing(r)] = Eof /\ rgot[p] # << >>
      BY Zenon, <1>4, <1>6, <2>1, <2>2 DEF take, PutBack
    <2>3. CASE ring[InRing(r)] = Eof /\ rgot[p] = << >>
      <3>1. r' = Plus(r, 1) /\ rgot' = rgot
        BY Zenon, <1>6, <2>3 DEF take, PutBack
      <3>2. /\ r' \in Index /\ Fits' /\ Unfinished'
            /\ Between(r, w) # << >> /\ Head(Between(r, w)) = ring[InRing(r)]
            /\ Between(r, w)' = Tail(Between(r, w)) /\ Between(w, e)' = Between(w, e)
        BY Zenon, <2>1, <3>1, TakeStep
      <3>3. Promise!TTakeEof(p)
        BY Zenon, <2>3, <3>1, <3>2 DEF Promise!TTakeEof
      <3>4. QED
        BY Zenon, <1>a, <2>1, <3>2, <3>3 DEF Promise!TNext
    <2>4. CASE ring[InRing(r)] # Eof
      <3>1. r' = Plus(r, 1) /\ rgot' = [rgot EXCEPT ![p] = Append(@, ring[InRing(r)])]
        BY Zenon, <1>6, <2>4 DEF take
      <3>2. /\ r' \in Index /\ Fits' /\ Unfinished'
            /\ Between(r, w) # << >> /\ Head(Between(r, w)) = ring[InRing(r)]
            /\ Between(r, w)' = Tail(Between(r, w)) /\ Between(w, e)' = Between(w, e)
        BY Zenon, <2>1, <3>1, TakeStep
      <3>3. Promise!TTake(p)
        BY Zenon, <2>4, <3>1, <3>2 DEF Promise!TTake
      <3>4. QED
        BY Zenon, <1>a, <2>1, <3>2, <3>3 DEF Promise!TNext
    <2>5. QED
      BY Zenon, <2>2, <2>3, <2>4
  <1>7. ASSUME NEW p \in ConsoleReader, await(p) \/ doze(p) \/ killReader(p) PROVE Goal
    BY Zenon, <1>4, <1>7 DEF await, doze, killReader
  <1>8. ASSUME NEW c \in {Blank, Newline}, consolewrite(c) PROVE Goal
    BY Zenon, <1>4, <1>8 DEF consolewrite
  <1>9. ASSUME UNCHANGED cvars PROVE Goal
    BY Zenon, <1>4, <1>9 DEF cvars
  <1> HIDE DEF Goal
  <1>10. Goal
    <2>1. CASE \E p \in ConsoleReader : \/ \E m \in 1 .. MaxRead : consoleread(p, m)
                                        \/ await(p) \/ doze(p) \/ take(p) \/ killReader(p)
      BY Zenon, <2>1, <1>5, <1>6, <1>7
    <2>2. CASE \E c \in Char : typed(c)
      BY Zenon, <2>2, <1>1
    <2>3. CASE \E c \in {Blank, Newline} : consolewrite(c)
      BY Zenon, <2>3, <1>8
    <2>4. QED
      BY Zenon, <2>1, <2>2, <2>3, <1>2, <1>3, <1>9 DEF CNext
  <1>11. QED
    BY Zenon, <1>10 DEF Goal

\* A reader goes to sleep with cons.lock held since it saw no input, and input that comes wakes it.
LEMMA WaitingStep == ASSUME ConsoleInv, [CNext]_cvars
                     PROVE  rpc' \in [ConsoleReader -> {"out", "loop", "sleep", "asleep"}] /\ Waiting'
  <1>a. rpc \in [ConsoleReader -> {"out", "loop", "sleep", "asleep"}] /\ Waiting
    BY Zenon DEF ConsoleInv, ConsoleTypes
  <1> USE ConsoleConstants
  <1>1. ASSUME NEW c \in Char, typed(c)
        PROVE  rpc' \in [ConsoleReader -> {"out", "loop", "sleep", "asleep"}] /\ Waiting'
    <2>1. r' = r /\ conslock = NoReader /\ (rpc' = Awake \/ (rpc' = rpc /\ w' = w)) /\ conslock' = conslock
      BY <1>1 DEF typed
    <2>2. QED
      BY <1>a, <2>1 DEF Awake, Waiting
  <1>2. CASE UNCHANGED <<r, w, rpc, conslock>>
    BY <1>a, <1>2 DEF Waiting
  <1>3. ASSUME backspace \/ killLine \/ (\E c \in {Blank, Newline} : consolewrite(c)) \/ UNCHANGED cvars
        PROVE  UNCHANGED <<r, w, rpc, conslock>>
    BY Zenon, <1>3 DEF backspace, killLine, erase, consolewrite, cvars
  <1>4. ASSUME NEW p \in ConsoleReader, NEW m \in 1 .. MaxRead, consoleread(p, m)
        PROVE  rpc' \in [ConsoleReader -> {"out", "loop", "sleep", "asleep"}] /\ Waiting'
    BY <1>a, <1>4 DEF consoleread, Waiting
  <1>5. ASSUME NEW p \in ConsoleReader, await(p)
        PROVE  rpc' \in [ConsoleReader -> {"out", "loop", "sleep", "asleep"}] /\ Waiting'
    BY <1>a, <1>5 DEF await, ReadReturns, Waiting
  <1>6. ASSUME NEW p \in ConsoleReader, doze(p)
        PROVE  rpc' \in [ConsoleReader -> {"out", "loop", "sleep", "asleep"}] /\ Waiting'
    BY <1>a, <1>6 DEF doze, Waiting
  <1>7. ASSUME NEW p \in ConsoleReader, take(p)
        PROVE  rpc' \in [ConsoleReader -> {"out", "loop", "sleep", "asleep"}] /\ Waiting'
    <2>1. /\ rpc[p] = "loop" /\ conslock \in {p, NoReader} /\ r # w
          /\ rpc' = rpc \/ rpc' = [rpc EXCEPT ![p] = "out"]
      BY Zenon, <1>7 DEF take, ReadReturns
    <2>2. \A q \in ConsoleReader : rpc[q] \notin {"sleep", "asleep"}
      BY <1>a, <2>1 DEF Waiting
    <2>3. QED
      BY <1>a, <2>1, <2>2 DEF Waiting
  <1>8. ASSUME NEW p \in ConsoleReader, killReader(p)
        PROVE  rpc' \in [ConsoleReader -> {"out", "loop", "sleep", "asleep"}] /\ Waiting'
    BY <1>a, <1>8 DEF killReader, Waiting
  <1>9. QED
    BY Zenon, <1>1, <1>2, <1>3, <1>4, <1>5, <1>6, <1>7, <1>8 DEF CNext

\* The invariant holds initially, and the console is then an empty terminal.
LEMMA ConsoleInit == CInit => ConsoleInv /\ Promise!TInit
  <1> SUFFICES ASSUME CInit PROVE ConsoleInv /\ Promise!TInit
    OBVIOUS
  <1>1. 0 \in Index /\ 0 \in 0 .. INPUT_BUF
    BY ConsoleConstants DEF Index
  <1>2. Minus(w, r) = 0 /\ Minus(e, w) = 0
    <2>1. Minus(0, 0) = IF 0 >= 0 THEN 0 - 0 ELSE 0 - 0 + Wrap
      BY Zenon, <1>1, MinusIs
    <2>2. Minus(0, 0) = 0
      BY <2>1
    <2>3. QED
      BY Zenon, <2>2 DEF CInit
  <1>3. ConsoleTypes /\ Waiting
    BY <1>1, ConsoleConstants DEF CInit, ConsoleTypes, Waiting, Kept
  <1>4. Fits
    BY <1>2, ConsoleConstants DEF Fits, CInit
  <1>5. Unfinished
    <2>1. \A k \in 1 .. 0 : FALSE
      OBVIOUS
    <2>2. QED
      BY Zenon, <1>2, <2>1 DEF Unfinished
  <1>6. Between(r, w) = << >> /\ Between(w, e) = << >>
    <2>1. /\ Between(r, w) \in Seq(Kept) /\ Len(Between(r, w)) = 0
          /\ Between(w, e) \in Seq(Kept) /\ Len(Between(w, e)) = 0
      BY Zenon, <1>2, <1>3, <1>4, Parts
    <2>2. QED
      BY <2>1
  <1>7. QED
    BY Zenon, <1>3, <1>4, <1>5, <1>6 DEF ConsoleInv, Promise!TInit, CInit

-----------------------------------------------------------------------------
\* The inductive invariant holds in every state of the console.
THEOREM ConsoleInvariance == CSpec => []ConsoleInv
  <1>1. ConsoleInv /\ [CNext]_cvars => ConsoleInv'
    BY Zenon, TerminalStep, WaitingStep DEF ConsoleInv, ConsoleTypes, ConsoleRings
  <1>2. QED
    BY ConsoleInit, <1>1, PTL DEF CSpec

\* Whatever the readers and the size of the ring, no reader sleeps while there is complete input, and a
\* full ring is all complete, so that a reader can make room.
THEOREM InputSeen == CSpec => [](NoInputMissed /\ FullIsComplete)
  <1>1. ConsoleInv => NoInputMissed /\ FullIsComplete
    <2> SUFFICES ASSUME ConsoleInv PROVE NoInputMissed /\ FullIsComplete
      OBVIOUS
    <2>1. Minus(e, r) = Minus(w, r) + Minus(e, w)
      BY Zenon, Parts DEF ConsoleInv
    <2>2. QED
      BY Zenon, <2>1 DEF ConsoleInv, Fits, Waiting, NoInputMissed, FullIsComplete
  <1>2. QED
    BY ConsoleInvariance, <1>1, PTL

\* console.c implements the terminal: nothing typed is lost, read twice, reordered or erased once
\* complete, for every ring that divides the range of its three indices, across their wrap.
THEOREM TerminalRefinement == CSpec => ImplementsTerminal
  <1>1. ConsoleInv /\ [CNext]_cvars => [Promise!TNext]_(Promise!tvars)
    BY Zenon, TerminalStep
  <1>2. QED
    BY ConsoleInit, ConsoleInvariance, <1>1, PTL DEF CSpec, ImplementsTerminal, Promise!TSpec
=============================================================================
