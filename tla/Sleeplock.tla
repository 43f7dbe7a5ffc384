----------------------------- MODULE Sleeplock -----------------------------
(***************************************************************************)
(* Sleep locks (xv6/sleeplock.c) over sleep and wakeup (xv6/proc.c): the   *)
(* protocol by which a process that finds a lock taken gives up its CPU    *)
(* without missing the wakeup of the one that releases it.                 *)
(*                                                                         *)
(* One sleep lock and the processes that use it.  Its two spin locks, the  *)
(* lock's own lk->lk and ptable.lock, are variables that name their        *)
(* holder; a step is what a process does between two operations on them.   *)
(* RUNNING and RUNNABLE are not told apart: a process that is not SLEEPING *)
(* may take its next step at any time.                                     *)
(***************************************************************************)
CONSTANTS Proc, None

ASSUME SleeplockAssumption == None \notin Proc

VARIABLES spin,     \* holder of lk->lk
          ptable,   \* holder of ptable.lock
          locked,   \* lk->locked
          pid,      \* lk->pid
          state,    \* p->state
          pc        \* where the process is

vars == <<spin, ptable, locked, pid, state, pc>>

\* Inside acquiresleep, inside sleep, holding the sleep lock, inside releasesleep.
Acquiring == {"acquire", "test"}
Sleeping  == {"sleep", "sleep_release", "sleep_set", "sched", "wakeup", "reacquire"}
Releasing == {"release_acquire", "clear", "wakeup_all", "release"}
Control   == {"out", "in"} \cup Acquiring \cup Sleeping \cup Releasing

\* The states in which a process holds lk->lk, ptable.lock, and the sleep lock.
HasSpin   == {"test", "sleep", "sleep_release", "clear", "wakeup_all", "release"}
HasPtable == {"sleep_release", "sleep_set", "wakeup"}
HasLock   == {"in", "release_acquire", "clear"}

Init == /\ spin = None /\ ptable = None
        /\ locked = FALSE /\ pid = None
        /\ state = [p \in Proc |-> "RUNNABLE"]
        /\ pc = [p \in Proc |-> "out"]

Goto(p, l) == pc' = [pc EXCEPT ![p] = l]

\* A process calls acquiresleep.
Enter(p) == /\ pc[p] = "out"
            /\ Goto(p, "acquire")
            /\ UNCHANGED <<spin, ptable, locked, pid, state>>

\* acquire(&lk->lk), on entry or at the end of sleep.
AcquireSpin(p) == /\ pc[p] \in {"acquire", "reacquire"}
                  /\ spin = None
                  /\ spin' = p
                  /\ Goto(p, "test")
                  /\ UNCHANGED <<ptable, locked, pid, state>>

\* while (lk->locked) sleep(lk, &lk->lk);
MustSleep(p) == /\ pc[p] = "test"
                /\ locked
                /\ Goto(p, "sleep")
                /\ UNCHANGED <<spin, ptable, locked, pid, state>>

\* Faulty variant: the test is not repeated after sleep returns, so two
\* processes woken together both take the lock.
Take_Unchecked(p) == /\ pc[p] = "test"
                     /\ locked' = TRUE /\ pid' = p
                     /\ spin' = None
                     /\ Goto(p, "in")
                     /\ UNCHANGED <<ptable, state>>

Take(p) == /\ pc[p] = "test"
           /\ ~ locked
           /\ locked' = TRUE /\ pid' = p
           /\ spin' = None
           /\ Goto(p, "in")
           /\ UNCHANGED <<ptable, state>>

-----------------------------------------------------------------------------
\* Faulty variant: sleep releases lk before it has ptable.lock.
SleepAcquire_LkReleased(p) == /\ pc[p] = "sleep"
                              /\ IF spin = p
                                 THEN spin' = None /\ UNCHANGED <<ptable, pc>>
                                 ELSE /\ ptable = None
                                      /\ ptable' = p
                                      /\ Goto(p, "sleep_set")
                                      /\ UNCHANGED spin
                              /\ UNCHANGED <<locked, pid, state>>

\* sleep: acquire(&ptable.lock);
SleepAcquire(p) == /\ pc[p] = "sleep"
                   /\ ptable = None
                   /\ ptable' = p
                   /\ Goto(p, "sleep_release")
                   /\ UNCHANGED <<spin, locked, pid, state>>

\* sleep: release(lk);
SleepRelease(p) == /\ pc[p] = "sleep_release"
                   /\ spin' = None
                   /\ Goto(p, "sleep_set")
                   /\ UNCHANGED <<ptable, locked, pid, state>>

\* sleep: p->chan = lk; p->state = SLEEPING; sched();  The scheduler of this
\* CPU inherits ptable.lock and releases it.
SleepSet(p) == /\ pc[p] = "sleep_set"
               /\ state' = [state EXCEPT ![p] = "SLEEPING"]
               /\ ptable' = None
               /\ Goto(p, "sched")
               /\ UNCHANGED <<spin, locked, pid>>

\* A scheduler, holding ptable.lock, switches back to a RUNNABLE process;
\* p->chan = 0.
Resume(p) == /\ pc[p] = "sched"
             /\ state[p] = "RUNNABLE"
             /\ ptable = None
             /\ ptable' = p
             /\ Goto(p, "wakeup")
             /\ UNCHANGED <<spin, locked, pid, state>>

\* sleep: release(&ptable.lock);
WakeupRelease(p) == /\ pc[p] = "wakeup"
                    /\ ptable' = None
                    /\ Goto(p, "reacquire")
                    /\ UNCHANGED <<spin, locked, pid, state>>

-----------------------------------------------------------------------------
\* releasesleep: acquire(&lk->lk);
ReleaseEnter(p) == /\ pc[p] = "in"
                   /\ Goto(p, "release_acquire")
                   /\ UNCHANGED <<spin, ptable, locked, pid, state>>

ReleaseAcquire(p) == /\ pc[p] = "release_acquire"
                     /\ spin = None
                     /\ spin' = p
                     /\ Goto(p, "clear")
                     /\ UNCHANGED <<ptable, locked, pid, state>>

\* lk->locked = 0; lk->pid = 0;
Clear(p) == /\ pc[p] = "clear"
            /\ locked' = FALSE /\ pid' = None
            /\ Goto(p, "wakeup_all")
            /\ UNCHANGED <<spin, ptable, state>>

\* Faulty variant: only one of the sleepers is woken.
wakeup1_One == LET q == CHOOSE q \in Proc : state[q] = "SLEEPING" \/ \A r \in Proc : state[r] # "SLEEPING"
               IN  [state EXCEPT ![q] = "RUNNABLE"]

\* wakeup1(lk): every process asleep on lk becomes RUNNABLE.
wakeup1 == [q \in Proc |-> IF state[q] = "SLEEPING" THEN "RUNNABLE" ELSE state[q]]

\* wakeup(lk), a critical section of ptable.lock.
Wakeup(p) == /\ pc[p] = "wakeup_all"
             /\ ptable = None
             /\ state' = wakeup1
             /\ Goto(p, "release")
             /\ UNCHANGED <<spin, ptable, locked, pid>>

\* release(&lk->lk);
Release(p) == /\ pc[p] = "release"
              /\ spin' = None
              /\ Goto(p, "out")
              /\ UNCHANGED <<ptable, locked, pid, state>>

\* kill() makes a sleeping process RUNNABLE whatever it is waiting for.
kill(q) == /\ ptable = None
           /\ state[q] = "SLEEPING"
           /\ state' = [state EXCEPT ![q] = "RUNNABLE"]
           /\ UNCHANGED <<spin, ptable, locked, pid, pc>>

Step(p) == \/ AcquireSpin(p) \/ MustSleep(p) \/ Take(p)
           \/ SleepAcquire(p) \/ SleepRelease(p) \/ SleepSet(p) \/ Resume(p) \/ WakeupRelease(p)
           \/ ReleaseEnter(p) \/ ReleaseAcquire(p) \/ Clear(p) \/ Wakeup(p) \/ Release(p)

Next == \E p \in Proc : Enter(p) \/ Step(p) \/ kill(p)

Spec == Init /\ [][Next]_vars

\* A process that holds the sleep lock releases it, one that spins eventually
\* gets the spin lock, and the scheduler runs what is RUNNABLE.
FairSpec == Spec /\ \A p \in Proc : SF_vars(Step(p))

-----------------------------------------------------------------------------
TypeOK == /\ spin \in Proc \cup {None} /\ ptable \in Proc \cup {None}
          /\ locked \in BOOLEAN /\ pid \in Proc \cup {None}
          /\ state \in [Proc -> {"RUNNABLE", "SLEEPING"}]
          /\ pc \in [Proc -> Control]

\* At most one process at a time is past acquiresleep and has not yet cleared
\* the lock in releasesleep.
MutualExclusion == \A p, q \in Proc : pc[p] \in HasLock /\ pc[q] \in HasLock => p = q

\* "We won't miss any wakeup" (proc.c, sleep): when a process sleeps, the lock
\* is taken or the process that cleared it has yet to call wakeup.
NoLostWakeup == \A p \in Proc : state[p] = "SLEEPING" =>
                    locked \/ \E q \in Proc : pc[q] = "wakeup_all"

\* holdingsleep: r = lk->locked && (lk->pid == myproc()->pid)
holdingsleep(p) == locked /\ pid = p

\* holdingsleep, on which the panics of bwrite, brelse and iunlock rest, is
\* true for the holder of the lock and for no other process.
HoldingExact == \A p \in Proc : holdingsleep(p) <=> pc[p] \in HasLock

\* A process that went to sleep in acquiresleep tests the lock again, if its
\* holders always release it.  (It may find it taken again: a waiter can starve.)
SleeperRetries == \A p \in Proc : []<>(pc[p] \notin {"sched", "wakeup", "reacquire"})

\* The lock is never wanted for ever with nobody getting it: again and again
\* either some process has it or all are outside.
SomeoneEnters == []<>((\E p \in Proc : pc[p] = "in") \/ (\A p \in Proc : pc[p] = "out"))

\* The lock gets on: sleepers test it again, and it is not wanted for ever with nobody getting it.
LockProgress == SleeperRetries /\ SomeoneEnters
=============================================================================
