------------------------------- MODULE Clock -------------------------------
(***************************************************************************)
(* The clock: the timer interrupt of trap.c and sys_sleep of sysproc.c,    *)
(* with a kill between the test of killed and the sleep.  ticks and the    *)
(* argument of sleep are unsigned words of the machine.                    *)
(***************************************************************************)
EXTENDS Integers

CONSTANTS Sleeper,       \* processes
          TickWord       \* values of a word (2^32)

ASSUME ClockAssumption == TickWord \in Nat \ {0}

VARIABLES ticks,         \* the clock
          nap,           \* of a process: where it is, ticks0, its argument, its result
          nkilled,       \* processes killed
          passed,        \* ticks since the call
          since          \* ticks since the kill
tvars == <<ticks, nap, nkilled, passed, since>>

Awake0 == [at |-> "user", ticks0 |-> 0, n |-> 0, ret |-> 0]

TInit ==
    /\ ticks = 0
    /\ nap = [p \in Sleeper |-> Awake0]
    /\ nkilled = [p \in Sleeper |-> FALSE]
    /\ passed = [p \in Sleeper |-> 0]
    /\ since = [p \in Sleeper |-> 0]

\* Faulty variant: the deadline is computed instead of the difference.
Over_Deadline(p) == ticks >= (nap[p].ticks0 + nap[p].n) % TickWord

\* The loop's condition, false: ticks - ticks0 >= n, unsigned
Over(p) == (ticks - nap[p].ticks0) % TickWord >= nap[p].n

sys_sleep(p, n) ==
    /\ nap[p].at = "user" /\ ~ nkilled[p]
    /\ nap' = [nap EXCEPT ![p] = [at |-> "test", ticks0 |-> ticks, n |-> n, ret |-> 0]]
    /\ passed' = [passed EXCEPT ![p] = 0]
    /\ UNCHANGED <<ticks, nkilled, since>>

\* The test of killed in the loop
Stops(p) == nkilled[p]

\* One turn of the loop, under tickslock; kill does not take that lock, so it may come before nod.
turn(p) ==
    /\ nap[p].at = "test"
    /\ nap' = [nap EXCEPT ![p] = IF Over(p) THEN [@ EXCEPT !.at = "done", !.ret = 0]
                                 ELSE IF Stops(p) THEN [@ EXCEPT !.at = "done", !.ret = -1]
                                 ELSE [@ EXCEPT !.at = "sleep"]]
    /\ UNCHANGED <<ticks, nkilled, passed, since>>
nod(p) ==
    /\ nap[p].at = "sleep"
    /\ nap' = [nap EXCEPT ![p].at = "asleep"]
    /\ UNCHANGED <<ticks, nkilled, passed, since>>

\* Back to the program; one that was killed exits on the way (trap), and its slot is used again.
back(p) ==
    /\ nap[p].at = "done"
    /\ nap' = [nap EXCEPT ![p] = Awake0]
    /\ nkilled' = [nkilled EXCEPT ![p] = FALSE]
    /\ since' = [since EXCEPT ![p] = 0]
    /\ passed' = [passed EXCEPT ![p] = 0]
    /\ UNCHANGED ticks

\* wakeup(&ticks)
WakeUp(f) == [p \in Sleeper |-> IF f[p].at = "asleep" THEN [f[p] EXCEPT !.at = "test"] ELSE f[p]]

\* The timer interrupt.  A process that was woken, or is about to sleep (it holds tickslock), runs
\* before the clock has gone round.
tick ==
    /\ \A p \in Sleeper : nap[p].at # "sleep" /\ (nap[p].at = "test" => passed[p] < TickWord - 1)
    /\ ticks' = (ticks + 1) % TickWord
    /\ nap' = WakeUp(nap)
    /\ passed' = [p \in Sleeper |-> IF nap[p].at \in {"test", "asleep"} THEN passed[p] + 1 ELSE passed[p]]
    /\ since' = [p \in Sleeper |-> IF nkilled[p] /\ nap[p].at = "asleep" THEN since[p] + 1 ELSE since[p]]
    /\ UNCHANGED nkilled

\* kill of proc.c wakes a sleeper.
killSleeper(p) ==
    /\ ~ nkilled[p] /\ nap[p].at # "user"
    /\ nkilled' = [nkilled EXCEPT ![p] = TRUE]
    /\ nap' = [nap EXCEPT ![p].at = IF @ = "asleep" THEN "test" ELSE @]
    /\ UNCHANGED <<ticks, passed, since>>

TNext == tick \/ \E p \in Sleeper : turn(p) \/ nod(p) \/ back(p) \/ killSleeper(p) \/ \E n \in 0 .. TickWord - 1 : sys_sleep(p, n)
TickSpec == TInit /\ [][TNext]_tvars

-----------------------------------------------------------------------------
\* sleep(n) returns 0 after n ticks and not before, across the wrap of ticks.
NotEarly == \A p \in Sleeper : nap[p].at = "done" /\ nap[p].ret = 0 => passed[p] >= nap[p].n

\* Nobody sleeps on when its ticks have passed.
NoOverdue == \A p \in Sleeper : nap[p].at = "asleep" => passed[p] < nap[p].n

\* A sleeper that is killed, even between its test and its sleep, is gone at the next tick.
GoneAtNextTick == \A p \in Sleeper : nap[p].at = "asleep" => since[p] = 0

\* sleep(n) takes n ticks, no fewer and no more, or until the tick after a kill.
SleepExact == NotEarly /\ NoOverdue /\ GoneAtNextTick
=============================================================================
