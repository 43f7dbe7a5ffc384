------------------------------ MODULE Spinlock ------------------------------
(***************************************************************************)
(* Spin locks, interrupts and the switch between kernel threads            *)
(* (xv6/spinlock.c; sched, scheduler and forkret of xv6/proc.c).           *)
(*                                                                         *)
(* A CPU runs its scheduler or a kernel thread; either may be interrupted, *)
(* and the handler takes locks too.  Locks are numbered in the order in    *)
(* which the kernel nests them; ptable.lock comes last.  A thread gives up *)
(* its CPU holding ptable.lock, and another one, or the scheduler,         *)
(* releases it.                                                            *)
(***************************************************************************)
EXTENDS Integers, FiniteSets

CONSTANTS CPU, Thread, NoCpu,
          Ptable         \* the number of ptable.lock; the others are below

ASSUME SpinlockAssumption == Ptable \in Nat \ {0} /\ CPU \cap Thread = {} /\ NoCpu \notin CPU

Lock == 1 .. Ptable
Context == CPU \cup Thread      \* a CPU stands for its scheduler

VARIABLES lk,        \* lk->locked and lk->cpu
          eflags,    \* of each CPU: interrupts are enabled
          ncli, intena,
          running,   \* the context that a CPU runs
          held,      \* the locks a context has acquired and not released
          at, want,  \* where it is in acquire or release, and of which lock
          inTrap,    \* it is in an interrupt handler
          saved,     \* sched's local intena; "forkret": never in sched, still in the kernel
          spanic

svars == <<lk, eflags, ncli, intena, running, held, at, want, inTrap, saved, spanic>>

\* The schedulers have executed their first sti().
SInit ==
    /\ lk = [l \in Lock |-> [locked |-> FALSE, cpu |-> NoCpu]]
    /\ eflags = [c \in CPU |-> TRUE]
    /\ ncli = [c \in CPU |-> 0] /\ intena = [c \in CPU |-> FALSE]
    /\ running = [c \in CPU |-> c]
    /\ held = [k \in Context |-> {}]
    /\ at = [k \in Context |-> "code"] /\ want = [k \in Context |-> Ptable]
    /\ inTrap = [k \in Context |-> FALSE]
    /\ saved = [t \in Thread |-> "forkret"]
    /\ spanic = FALSE

pushcli(c) ==
    /\ eflags' = [eflags EXCEPT ![c] = FALSE]
    /\ intena' = IF ncli[c] = 0 THEN [intena EXCEPT ![c] = eflags[c]] ELSE intena
    /\ ncli' = [ncli EXCEPT ![c] = @ + 1]

popcliPanics(c) == eflags[c] \/ ncli[c] <= 0

popcli(c) ==
    /\ ncli' = [ncli EXCEPT ![c] = @ - 1]
    /\ eflags' = IF ncli[c] = 1 /\ intena[c] THEN [eflags EXCEPT ![c] = TRUE] ELSE eflags
    /\ UNCHANGED intena

holding(c, l) == lk[l].locked /\ lk[l].cpu = c

\* The locks that the code of a context takes next: in order; the scheduler's own
\* loop takes ptable.lock only, forkret none.
MayTake(k) == {l \in Lock : /\ \A h \in held[k] : h < l
                            /\ k \in CPU /\ ~ inTrap[k] => l = Ptable
                            /\ k \in Thread /\ ~ inTrap[k] => saved[k] # "forkret"}

\* acquire: pushcli, and the check
acquire(c, l) ==
    LET k == running[c]
    IN  /\ ~ spanic /\ at[k] = "code" /\ l \in MayTake(k)
        /\ k \in CPU /\ ~ inTrap[k] => eflags[c]
        /\ pushcli(c)
        /\ spanic' = holding(c, l)
        /\ at' = [at EXCEPT ![k] = "spin"] /\ want' = [want EXCEPT ![k] = l]
        /\ UNCHANGED <<lk, running, held, inTrap, saved>>

\* Faulty variant: the lock is taken for free while nobody is recorded in it.
Free_Cpu(l) == lk[l].cpu = NoCpu

\* xchg finds 0.
Free(l) == ~ lk[l].locked

\* acquire: the xchg that ends the loop
xchg(c) ==
    LET k == running[c]
    IN  /\ at[k] = "spin" /\ ~ spanic /\ Free(want[k])
        /\ lk' = [lk EXCEPT ![want[k]].locked = TRUE]
        /\ at' = [at EXCEPT ![k] = "record"]
        /\ UNCHANGED <<eflags, ncli, intena, running, held, want, inTrap, saved, spanic>>

\* acquire: lk->cpu = mycpu()
record(c) ==
    LET k == running[c]
    IN  /\ at[k] = "record"
        /\ lk' = [lk EXCEPT ![want[k]].cpu = c]
        /\ held' = [held EXCEPT ![k] = @ \cup {want[k]}]
        /\ at' = [at EXCEPT ![k] = "code"]
        /\ UNCHANGED <<eflags, ncli, intena, running, want, inTrap, saved, spanic>>

\* release: the check, lk->cpu = 0.  Not in the order of the acquires: sleep
\* releases its lock while it holds ptable.lock.
release(c, l) ==
    LET k == running[c]
    IN  /\ at[k] = "code" /\ l \in held[k] /\ ~ spanic
        /\ spanic' = ~ holding(c, l)
        /\ lk' = [lk EXCEPT ![l].cpu = NoCpu]
        /\ at' = [at EXCEPT ![k] = "unlock"] /\ want' = [want EXCEPT ![k] = l]
        /\ UNCHANGED <<eflags, ncli, intena, running, held, inTrap, saved>>

\* release: lk->locked = 0, popcli
unlock(c) ==
    LET k == running[c]
    IN  /\ at[k] = "unlock" /\ ~ spanic
        /\ lk' = [lk EXCEPT ![want[k]].locked = FALSE]
        /\ held' = [held EXCEPT ![k] = @ \ {want[k]}]
        /\ spanic' = popcliPanics(c)
        /\ popcli(c)
        /\ at' = [at EXCEPT ![k] = "code"]
        /\ UNCHANGED <<running, want, inTrap, saved>>

\* An interrupt: the gate clears IF, iret restores it.
interrupt(c) ==
    LET k == running[c]
    IN  /\ eflags[c] /\ ~ inTrap[k] /\ at[k] = "code" /\ ~ spanic
        /\ eflags' = [eflags EXCEPT ![c] = FALSE]
        /\ inTrap' = [inTrap EXCEPT ![k] = TRUE]
        /\ UNCHANGED <<lk, ncli, intena, running, held, at, want, saved, spanic>>

iret(c) ==
    LET k == running[c]
    IN  /\ inTrap[k] /\ at[k] = "code" /\ held[k] = {}
        /\ inTrap' = [inTrap EXCEPT ![k] = FALSE]
        /\ eflags' = [eflags EXCEPT ![c] = TRUE]
        /\ UNCHANGED <<lk, ncli, intena, running, held, at, want, saved, spanic>>

\* A new thread leaves forkret for user space, where interrupts are on.
forkret(c) ==
    LET t == running[c]
    IN  /\ t \in Thread /\ saved[t] = "forkret" /\ at[t] = "code" /\ held[t] = {} /\ ~ inTrap[t]
        /\ saved' = [saved EXCEPT ![t] = "on"]
        /\ eflags' = [eflags EXCEPT ![c] = TRUE]
        /\ UNCHANGED <<lk, ncli, intena, running, held, at, want, inTrap, spanic>>

\* The thread on the CPU gives it up, holding ptable.lock: its scheduler goes on.
sched(c) ==
    LET t == running[c]
    IN  /\ t \in Thread /\ at[t] = "code" /\ held[t] = {Ptable} /\ ~ spanic
        /\ saved[t] # "forkret" \/ inTrap[t]
        /\ spanic' = (~ holding(c, Ptable) \/ ncli[c] # 1 \/ eflags[c])
        /\ saved' = [saved EXCEPT ![t] = IF intena[c] THEN "on" ELSE "off"]
        /\ running' = [running EXCEPT ![c] = c]
        /\ held' = [held EXCEPT ![t] = {}, ![c] = {Ptable}]
        /\ UNCHANGED <<lk, eflags, ncli, intena, at, want, inTrap>>

\* Faulty variant: intena is left to the CPU.
Restored_Cpu(c, t) == intena[c]

\* mycpu()->intena = intena, on the CPU where the thread goes on; forkret has no sched
Restored(c, t) == IF saved[t] = "forkret" THEN intena[c] ELSE saved[t] = "on"

\* The scheduler picks a thread that no CPU runs.
scheduler(c, t) ==
    /\ running[c] = c /\ held[c] = {Ptable} /\ at[c] = "code" /\ ~ inTrap[c]
    /\ \A d \in CPU : running[d] # t
    /\ running' = [running EXCEPT ![c] = t]
    /\ held' = [held EXCEPT ![c] = {}, ![t] = {Ptable}]
    /\ intena' = [intena EXCEPT ![c] = Restored(c, t)]
    /\ UNCHANGED <<lk, eflags, ncli, at, want, inTrap, saved, spanic>>

\* And at the top of its loop, the sti().
sti(c) ==
    /\ running[c] = c /\ held[c] = {} /\ at[c] = "code" /\ ~ inTrap[c] /\ ~ eflags[c]
    /\ eflags' = [eflags EXCEPT ![c] = TRUE]
    /\ UNCHANGED <<lk, ncli, intena, running, held, at, want, inTrap, saved, spanic>>

SNext == \E c \in CPU : \/ \E l \in Lock : acquire(c, l) \/ release(c, l)
                        \/ \E t \in Thread : scheduler(c, t)
                        \/ xchg(c) \/ record(c) \/ unlock(c) \/ interrupt(c) \/ iret(c) \/ forkret(c) \/ sched(c) \/ sti(c)

SSpec == SInit /\ [][SNext]_svars

-----------------------------------------------------------------------------
\* What a context is inside of: a lock it has, or whose xchg it has just done.
Inside(k) == held[k] \cup (IF at[k] = "record" THEN {want[k]} ELSE {})

\* Mutual exclusion, also across the hand-over of ptable.lock between threads: a lock
\* has at most one holder, that holder is on a CPU, and the lock names that CPU.
SpinExclusive ==
    /\ \A j, k \in Context : j # k => Inside(j) \cap Inside(k) = {}
    /\ \A k \in Context : Inside(k) # {} => \E c \in CPU : running[c] = k
    /\ \A c \in CPU : \A l \in held[running[c]] :
          lk[l].locked /\ (at[running[c]] = "unlock" \/ lk[l].cpu = c)

\* No panic of acquire, release, popcli or sched: no interrupt handler meets a lock
\* that its own CPU holds, and ncli is 1 whenever a thread gives up its CPU.
NoLockPanic == ~ spanic

\* A thread that holds no lock has interrupts as its code wants them, on in system
\* calls and off in handlers, whatever CPU it now runs on.  Excepted is forkret, which
\* releases ptable.lock with the intena of the thread that ran before.
InterruptsMatch ==
    \A c \in CPU : LET k == running[c]
                   IN  k \in Thread /\ at[k] = "code" /\ held[k] = {} /\ (saved[k] = "forkret" => inTrap[k])
                       => eflags[c] = ~ inTrap[k]

\* Interrupts and locks agree: no panic of the lock functions, and interrupts back as they were.
InterruptsRight == NoLockPanic /\ InterruptsMatch
=============================================================================
