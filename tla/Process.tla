------------------------------ MODULE Process ------------------------------
(***************************************************************************)
(* The process table of xv6 (xv6/proc.c) on several CPUs: the scheduler,   *)
(* fork, exit, wait, kill, sleep and wakeup, and the tests of p->killed in *)
(* trap (xv6/trap.c).                                                      *)
(*                                                                         *)
(* proc[c] is the process on whose kernel stack CPU c runs, 0 when c is in *)
(* scheduler().  ptable.lock is explicit because it is held across swtch:  *)
(* a process takes it and its CPU's scheduler releases it, or the other    *)
(* way round.  A critical section that does not reach swtch is one step;   *)
(* what the code does without the lock (the failure paths of fork, the     *)
(* tests of killed) is a step of its own.                                  *)
(***************************************************************************)
EXTENDS Integers, FiniteSets, FiniteSetsExt

CONSTANTS NPROC,     \* entries of ptable.proc
          CPU,       \* processors
          NoCPU,     \* the holder of a free ptable.lock
          MaxPid,    \* bound on nextpid
          KillPids   \* the pids that processes pass to kill()

ASSUME ProcessAssumption == /\ NPROC \in Nat \ {0} /\ MaxPid \in Nat \ {0}
                            /\ NoCPU \notin CPU /\ KillPids \subseteq 0 .. MaxPid

Slot     == 1 .. NPROC
initproc == 1
Device   == NPROC + 1    \* a channel that is not a process: a pipe, a buffer, ticks...

VARIABLES state, pid, parent, killed, chan,  \* struct proc
          ctx,      \* where swtch will resume the process (p->context); "none" while it runs
          pc, np,   \* where the process is in the kernel; fork's local variable np
          nextpid, lock, proc,
          scan      \* scheduler()'s loop index, per CPU

ptab == <<state, pid, parent, killed, chan>>
vars == <<state, pid, parent, killed, chan, ctx, pc, np, nextpid, lock, proc, scan>>

\* The process that userinit makes is the only one.
Init == /\ state = [p \in Slot |-> IF p = initproc THEN "RUNNABLE" ELSE "UNUSED"]
        /\ pid = [p \in Slot |-> IF p = initproc THEN 1 ELSE 0]
        /\ parent = [p \in Slot |-> 0]
        /\ killed = [p \in Slot |-> FALSE]
        /\ chan = [p \in Slot |-> 0]
        /\ ctx = [p \in Slot |-> IF p = initproc THEN "forkret" ELSE "none"]
        /\ pc = [p \in Slot |-> IF p = initproc THEN "user" ELSE "dead"]
        /\ np = [p \in Slot |-> 0]
        /\ nextpid = 2
        /\ lock = NoCPU
        /\ proc = [c \in CPU |-> 0]
        /\ scan = [c \in CPU |-> 1]

Goto(p, l) == pc' = [pc EXCEPT ![p] = l]

\* wakeup1(ch) on a table whose states are st.
wakeup1(st, ch) == [q \in Slot |-> IF st[q] = "SLEEPING" /\ chan[q] = ch THEN "RUNNABLE" ELSE st[q]]

-----------------------------------------------------------------------------
\* scheduler()

sched_acquire(c) ==
    /\ proc[c] = 0 /\ lock = NoCPU
    /\ lock' = c
    /\ UNCHANGED <<ptab, ctx, pc, np, nextpid, proc, scan>>

\* The rest of the for loop finds a process.
Candidates(c) == {p \in Slot : p >= scan[c] /\ state[p] = "RUNNABLE"}

\* Faulty variant: the loop skips a process.
NextScan_Skip(p) == p + 2

\* The loop goes on behind the process that ran.
NextScan(p) == p + 1

sched_pick(c) ==
    /\ proc[c] = 0 /\ lock = c
    /\ Candidates(c) # {}
    /\ LET p == Min(Candidates(c))
       IN  /\ proc' = [proc EXCEPT ![c] = p]
           /\ state' = [state EXCEPT ![p] = "RUNNING"]
           /\ scan' = [scan EXCEPT ![c] = NextScan(p)]
    /\ UNCHANGED <<pid, parent, killed, chan, ctx, pc, np, nextpid, lock>>

sched_release(c) ==
    /\ proc[c] = 0 /\ lock = c
    /\ Candidates(c) = {}
    /\ lock' = NoCPU
    /\ scan' = [scan EXCEPT ![c] = 1]
    /\ UNCHANGED <<ptab, ctx, pc, np, nextpid, proc>>

\* sched(): the process, no longer RUNNING, jumps into the scheduler with the lock.
swtch(c) ==
    /\ proc[c] # 0 /\ lock = c
    /\ state[proc[c]] # "RUNNING"
    /\ proc' = [proc EXCEPT ![c] = 0]
    /\ UNCHANGED <<ptab, ctx, pc, np, nextpid, lock, scan>>

\* The scheduler has switched to p: forkret or the end of yield or of sleep
\* releases the lock (wait() keeps it, and scans again).
resume(c, p) ==
    /\ proc[c] = p /\ lock = c /\ state[p] = "RUNNING" /\ ctx[p] # "wait"
    /\ lock' = NoCPU
    /\ chan' = [chan EXCEPT ![p] = IF ctx[p] = "sleep" THEN 0 ELSE @]
    /\ ctx' = [ctx EXCEPT ![p] = "none"]
    /\ UNCHANGED <<state, pid, parent, killed, pc, np, nextpid, proc, scan>>

\* Process p executes on CPU c and can take ptable.lock, or does not need it.
Runs(c, p)  == proc[c] = p /\ lock # c
Enters(c, p) == proc[c] = p /\ lock = NoCPU

\* Faulty variant: the lock is released before swtch.
YieldLock_Released(c) == NoCPU

\* The lock as yield and sleep leave it to the scheduler.
YieldLock(c) == c

\* yield(), from a timer interrupt.  Interrupts are off from the test of killed
\* to sleep(), which the caller does with its own spinlock held.  An interrupt
\* of user space ends with trap's last test of killed.
yield(c, p) ==
    /\ Enters(c, p) /\ pc[p] \notin {"sleep", "panic"}
    /\ state' = [state EXCEPT ![p] = "RUNNABLE"]
    /\ ctx' = [ctx EXCEPT ![p] = "yield"]
    /\ lock' = YieldLock(c)
    /\ Goto(p, IF pc[p] = "user" THEN "sysret" ELSE pc[p])
    /\ UNCHANGED <<pid, parent, killed, chan, np, nextpid, proc, scan>>

-----------------------------------------------------------------------------
\* trap(): a system call, a fault, and the tests of p->killed.

\* Faulty variant: the tests of killed are missing.
MustExit_Never(p) == FALSE

\* trap's tests of killed.
MustExit(p) == killed[p]

syscall(c, p) ==
    /\ Runs(c, p) /\ pc[p] = "user" /\ ~ MustExit(p)
    /\ \E call \in {"fork", "wait", "kill", "block", "exit"} : Goto(p, call)
    /\ UNCHANGED <<ptab, ctx, np, nextpid, lock, proc, scan>>

\* A user-mode exception; the forced exit follows.
fault(c, p) ==
    /\ Runs(c, p) /\ pc[p] = "user" /\ p # initproc
    /\ killed' = [killed EXCEPT ![p] = TRUE]
    /\ UNCHANGED <<state, pid, parent, chan, ctx, pc, np, nextpid, lock, proc, scan>>

\* A killed process traps from user space, or its system call ends.
trap_exit(c, p) ==
    /\ Runs(c, p) /\ pc[p] \in {"user", "sysret"} /\ MustExit(p)
    /\ Goto(p, "exit")
    /\ UNCHANGED <<ptab, ctx, np, nextpid, lock, proc, scan>>

sysret(c, p) ==
    /\ Runs(c, p) /\ pc[p] = "sysret" /\ ~ MustExit(p)
    /\ Goto(p, "user")
    /\ UNCHANGED <<ptab, ctx, np, nextpid, lock, proc, scan>>

-----------------------------------------------------------------------------
\* fork()

\* Faulty variant: allocproc takes a slot that is being built.
Unused_Embryo == {q \in Slot : state[q] \in {"UNUSED", "EMBRYO"}}

\* The slots allocproc may take.
Unused == {q \in Slot : state[q] = "UNUSED"}

\* nextpid++
NextPid == nextpid + 1

\* allocproc's critical section.
fork_alloc(c, p) ==
    /\ Enters(c, p) /\ pc[p] = "fork"
    /\ Unused # {} /\ nextpid <= MaxPid
    /\ LET q == Min(Unused)
       IN  /\ state' = [state EXCEPT ![q] = "EMBRYO"]
           /\ pid' = [pid EXCEPT ![q] = nextpid]
           /\ np' = [np EXCEPT ![p] = q]
    /\ nextpid' = NextPid
    /\ Goto(p, "fork_copy")
    /\ UNCHANGED <<parent, killed, chan, ctx, lock, proc, scan>>

fork_full(c, p) ==
    /\ Enters(c, p) /\ pc[p] = "fork"
    /\ Unused = {} \/ nextpid > MaxPid   \* (at the bound on nextpid fork fails)
    /\ Goto(p, "sysret")
    /\ UNCHANGED <<ptab, ctx, np, nextpid, lock, proc, scan>>

\* kalloc or copyuvm fails: the slot is given back without the lock, with its pid.
fork_fail(c, p) ==
    /\ Runs(c, p) /\ pc[p] = "fork_copy"
    /\ state' = [state EXCEPT ![np[p]] = "UNUSED"]
    /\ np' = [np EXCEPT ![p] = 0]
    /\ Goto(p, "sysret")
    /\ UNCHANGED <<pid, parent, killed, chan, ctx, nextpid, lock, proc, scan>>

\* The child's stack, context, memory, parent and files are set, without the lock.
fork_copy(c, p) ==
    /\ Runs(c, p) /\ pc[p] = "fork_copy"
    /\ parent' = [parent EXCEPT ![np[p]] = p]
    /\ ctx' = [ctx EXCEPT ![np[p]] = "forkret"]
    /\ pc' = [pc EXCEPT ![p] = "fork_run", ![np[p]] = "user"]
    /\ UNCHANGED <<state, pid, killed, chan, np, nextpid, lock, proc, scan>>

fork_run(c, p) ==
    /\ Enters(c, p) /\ pc[p] = "fork_run"
    /\ state' = [state EXCEPT ![np[p]] = "RUNNABLE"]
    /\ np' = [np EXCEPT ![p] = 0]
    /\ Goto(p, "sysret")
    /\ UNCHANGED <<pid, parent, killed, chan, ctx, nextpid, lock, proc, scan>>

-----------------------------------------------------------------------------
\* exit()

exit_init(c, p) ==
    /\ Runs(c, p) /\ pc[p] = "exit" /\ p = initproc
    /\ Goto(p, "panic")
    /\ UNCHANGED <<ptab, ctx, np, nextpid, lock, proc, scan>>

ZombieChild(p) == \E q \in Slot : parent[q] = p /\ state[q] = "ZOMBIE"

\* Faulty variants: nobody is woken; the children keep their parent.
ExitWakeups_Forgotten(p) == state
Adopted_None(p) == parent

\* The processes exit() wakes: the parent, and init if it inherits a zombie.
ExitWakeups(p) == LET st == wakeup1(state, parent[p])
                  IN  IF ZombieChild(p) THEN wakeup1(st, initproc) ELSE st

\* The children of p become init's.
Adopted(p) == [q \in Slot |-> IF parent[q] = p THEN initproc ELSE parent[q]]

exit(c, p) ==
    /\ Enters(c, p) /\ pc[p] = "exit" /\ p # initproc
    /\ state' = [ExitWakeups(p) EXCEPT ![p] = "ZOMBIE"]
    /\ parent' = Adopted(p)
    /\ lock' = c
    /\ Goto(p, "dead")
    /\ UNCHANGED <<pid, killed, chan, ctx, np, nextpid, proc, scan>>

-----------------------------------------------------------------------------
\* wait()

\* p enters wait(), or sleep() has returned to its loop; it has ptable.lock.
Waits(c, p) == /\ proc[c] = p /\ pc[p] = "wait" /\ state[p] = "RUNNING"
               /\ IF ctx[p] = "wait" THEN lock = c ELSE lock = NoCPU

Children(p) == {q \in Slot : parent[q] = p}
Zombies(p)  == {q \in Children(p) : state[q] = "ZOMBIE"}

wait_reap(c, p) ==
    /\ Waits(c, p)
    /\ Zombies(p) # {}
    /\ LET q == Min(Zombies(p))
       IN  /\ state' = [state EXCEPT ![q] = "UNUSED"]
           /\ pid' = [pid EXCEPT ![q] = 0]
           /\ parent' = [parent EXCEPT ![q] = 0]
           /\ killed' = [killed EXCEPT ![q] = FALSE]
    /\ chan' = [chan EXCEPT ![p] = 0]
    /\ ctx' = [ctx EXCEPT ![p] = "none"]
    /\ lock' = NoCPU
    /\ Goto(p, "sysret")
    /\ UNCHANGED <<np, nextpid, proc, scan>>

wait_none(c, p) ==
    /\ Waits(c, p)
    /\ Zombies(p) = {} /\ (Children(p) = {} \/ killed[p])
    /\ chan' = [chan EXCEPT ![p] = 0]
    /\ ctx' = [ctx EXCEPT ![p] = "none"]
    /\ lock' = NoCPU
    /\ Goto(p, "sysret")
    /\ UNCHANGED <<state, pid, parent, killed, np, nextpid, proc, scan>>

wait_sleep(c, p) ==
    /\ Waits(c, p)
    /\ Zombies(p) = {} /\ Children(p) # {} /\ ~ killed[p]
    /\ chan' = [chan EXCEPT ![p] = p]
    /\ state' = [state EXCEPT ![p] = "SLEEPING"]
    /\ ctx' = [ctx EXCEPT ![p] = "wait"]
    /\ lock' = c
    /\ UNCHANGED <<pid, parent, killed, pc, np, nextpid, proc, scan>>

-----------------------------------------------------------------------------
\* kill(n): the first slot whose pid is n, whatever its state.
kill(c, p, n) ==
    /\ Enters(c, p) /\ pc[p] = "kill"
    /\ LET match == {q \in Slot : pid[q] = n}
       IN  IF match = {} THEN UNCHANGED <<killed, state>>
           ELSE LET q == Min(match)
                IN  /\ killed' = [killed EXCEPT ![q] = TRUE]
                    /\ state' = [state EXCEPT ![q] = IF @ = "SLEEPING" THEN "RUNNABLE" ELSE @]
    /\ Goto(p, "sysret")
    /\ UNCHANGED <<pid, parent, chan, ctx, np, nextpid, lock, proc, scan>>

\* The loop of a system call that waits for an event (piperead, consoleread,
\* sys_sleep): the event has happened or the process is killed, or it sleeps.
block(c, p) ==
    /\ Runs(c, p) /\ pc[p] = "block"
    /\ \E l \in {"sysret", "sleep"} : (killed[p] => l = "sysret") /\ Goto(p, l)
    /\ UNCHANGED <<ptab, ctx, np, nextpid, lock, proc, scan>>

\* sleep(), from that loop or while exit() closes files.
sleep(c, p) ==
    /\ Enters(c, p) /\ pc[p] \in {"sleep", "exit"} /\ (pc[p] = "exit" => p # initproc)
    /\ chan' = [chan EXCEPT ![p] = Device]
    /\ state' = [state EXCEPT ![p] = "SLEEPING"]
    /\ ctx' = [ctx EXCEPT ![p] = "sleep"]
    /\ lock' = YieldLock(c)
    /\ Goto(p, IF pc[p] = "sleep" THEN "block" ELSE "exit")
    /\ UNCHANGED <<pid, parent, killed, np, nextpid, proc, scan>>

\* The interrupt handler of the device calls wakeup().
device ==
    /\ lock = NoCPU
    /\ \E q \in Slot : state[q] = "SLEEPING" /\ chan[q] = Device
    /\ state' = wakeup1(state, Device)
    /\ UNCHANGED <<pid, parent, killed, chan, ctx, pc, np, nextpid, lock, proc, scan>>

Kernel(c, p) ==
    \/ trap_exit(c, p) \/ sysret(c, p)
    \/ fork_alloc(c, p) \/ fork_full(c, p) \/ fork_fail(c, p) \/ fork_copy(c, p) \/ fork_run(c, p)
    \/ exit_init(c, p) \/ exit(c, p)
    \/ wait_reap(c, p) \/ wait_none(c, p) \/ wait_sleep(c, p)
    \/ \E n \in KillPids : kill(c, p, n)
    \/ block(c, p) \/ sleep(c, p)

Scheduler(c) == \/ sched_acquire(c) \/ sched_pick(c) \/ sched_release(c) \/ swtch(c)
                \/ \E p \in Slot : resume(c, p)

Next == \/ \E c \in CPU : \/ Scheduler(c)
                          \/ \E p \in Slot : Kernel(c, p) \/ yield(c, p) \/ syscall(c, p) \/ fault(c, p)
        \/ device

Spec == Init /\ [][Next]_vars

\* Every CPU keeps executing: ptable.lock is not denied to it for ever, the clock
\* interrupts it and leaves every process time to execute, and I/O completes.
FairSpec ==
    /\ Spec
    /\ \A c \in CPU : SF_vars(Scheduler(c)) /\ SF_vars(\E p \in Slot : yield(c, p))
    /\ \A p \in Slot : /\ SF_vars(\E c \in CPU : Kernel(c, p))
                       /\ SF_vars(\E c \in CPU : exit(c, p) \/ (block(c, p) /\ pc'[p] = "sysret"))
    /\ SF_vars(device)

-----------------------------------------------------------------------------
procstate == {"UNUSED", "EMBRYO", "SLEEPING", "RUNNABLE", "RUNNING", "ZOMBIE"}
Live(p) == state[p] \in {"SLEEPING", "RUNNABLE", "RUNNING"}

TypeOK ==
    /\ state \in [Slot -> procstate]
    /\ pid \in [Slot -> 0 .. MaxPid] /\ parent \in [Slot -> Slot \cup {0}]
    /\ killed \in [Slot -> BOOLEAN] /\ chan \in [Slot -> Slot \cup {0, Device}]
    /\ ctx \in [Slot -> {"forkret", "yield", "sleep", "wait", "none"}]
    /\ pc \in [Slot -> {"user", "fork", "fork_copy", "fork_run", "wait", "kill", "block", "sleep",
                        "sysret", "exit", "dead", "panic"}]
    /\ np \in [Slot -> Slot \cup {0}] /\ nextpid \in 1 .. MaxPid + 1
    /\ lock \in CPU \cup {NoCPU} /\ proc \in [CPU -> Slot \cup {0}] /\ scan \in [CPU -> 1 .. NPROC + 1]

\* A kernel stack is used by one CPU at a time: no process is on two CPUs, and
\* one that another CPU's scheduler may pick, or whose stack wait() may free,
\* has left its CPU (sched() keeps ptable.lock until swtch is over).
OneCpuPerStack ==
    \A c \in CPU : proc[c] # 0 =>
        /\ \A d \in CPU \ {c} : proc[d] # proc[c]
        /\ state[proc[c]] = "RUNNING" \/ lock = c

\* allocproc gives a slot and a pid to one fork only: processes have different
\* pids, and a slot under construction belongs to one fork.
SlotsExclusive ==
    /\ \A p, q \in Slot : p # q /\ state[p] # "UNUSED" /\ state[q] # "UNUSED" => pid[p] # pid[q]
    /\ \A q \in Slot : state[q] = "EMBRYO" => Cardinality({p \in Slot : np[p] = q}) = 1

\* The parent of a process has not exited: exit() leaves no process without
\* somebody who can wait for it.
ParentAlive ==
    \A p \in Slot \ {initproc} : Live(p) \/ state[p] = "ZOMBIE" => parent[p] # 0 /\ Live(parent[p])

\* Nobody sleeps in wait() beside a zombie child (exit() wakes the parent, and
\* init when it inherits a zombie).
NoMissedExit ==
    lock = NoCPU => \A p \in Slot : state[p] = "SLEEPING" /\ chan[p] = p => Zombies(p) = {}

\* "Kill the process with the given pid": a process does not start its life
\* killed by a call that was made before it existed.
BornUnkilled ==
    [][\A q \in Slot : state[q] = "UNUSED" /\ state'[q] = "EMBRYO" => ~ killed'[q]]_vars

\* "init exiting": the machine has stopped.
Panicked == pc[initproc] = "panic"

\* scheduler() serves every runnable process.
Scheduled == \A p \in Slot : state[p] = "RUNNABLE" ~> (state[p] # "RUNNABLE" \/ Panicked)

\* If init keeps calling wait() (init.c's loop), every zombie it inherits is freed.
OrphanReaped ==
    SF_vars(\E c \in CPU : syscall(c, initproc) /\ pc'[initproc] = "wait") =>
        \A p \in Slot : (state[p] = "ZOMBIE" /\ parent[p] = initproc) ~> (state[p] = "UNUSED" \/ Panicked)

\* A killed process exits (trap's tests of killed, kill() waking a sleeper).
KilledExits == \A p \in Slot \ {initproc} : (Live(p) /\ killed[p]) ~> (~ Live(p) \/ Panicked)
=============================================================================
