---------------------------- MODULE ProcessProofs ----------------------------
(***************************************************************************)
(* The process table keeps its promises for every number of slots and of   *)
(* CPUs: one CPU per kernel stack, one fork per slot and per pid, a living *)
(* parent for every process, and no sleep in wait() beside a zombie child. *)
(***************************************************************************)
EXTENDS Process, FiniteSetTheorems, WellFoundedInduction, TLAPS

-----------------------------------------------------------------------------
\* The inductive invariant.

\* OneCpuPerStack, and what a process that has left RUNNING and still is on its CPU can be:
\* sched() has ptable.lock, and the slot is neither free nor being built.
OnCpu ==
    \A c \in CPU : proc[c] # 0 =>
        /\ \A d \in CPU \ {c} : proc[d] # proc[c]
        /\ state[proc[c]] = "RUNNING" \/ (lock = c /\ state[proc[c]] \in {"RUNNABLE", "SLEEPING", "ZOMBIE"})

\* fork's local variable: np is set between allocproc and the end of fork, of a living process
\* only; its slot is EMBRYO and nobody else's, and is a child once fork has copied the rest.
Forking ==
    \A p \in Slot :
        /\ np[p] # 0 <=> pc[p] \in {"fork_copy", "fork_run"}
        /\ np[p] # 0 => /\ Live(p) /\ state[np[p]] = "EMBRYO"
                        /\ \A q \in Slot : np[q] = np[p] => q = p
        /\ pc[p] = "fork_run" => parent[np[p]] = p

\* A slot is being built by somebody.
Built == \A q \in Slot : state[q] = "EMBRYO" => \E p \in Slot : np[p] = q

\* allocproc has given every pid in use, and to one slot.
Pids == /\ \A p \in Slot : pid[p] < nextpid
        /\ \A p, q \in Slot : p # q /\ state[p] # "UNUSED" /\ state[q] # "UNUSED" => pid[p] # pid[q]

\* init lives and has no parent; every process of the others has a living one, not itself.
Parents == /\ Live(initproc) /\ parent[initproc] = 0
           /\ \A p \in Slot : parent[p] # p
           /\ ParentAlive

\* NoMissedExit, with or without ptable.lock.
Awake == \A p, q \in Slot : state[p] = "SLEEPING" /\ chan[p] = p /\ parent[q] = p => state[q] # "ZOMBIE"

IInv == TypeOK /\ OnCpu /\ Forking /\ Built /\ Pids /\ Parents /\ Awake
-----------------------------------------------------------------------------
\* The first slot that the loops over ptable.proc find is one of those they look for.
LEMMA FirstSlot == ASSUME NEW S, S \subseteq Slot, S # {} PROVE Min(S) \in S
  <1> DEFINE R == OpToRel(<, Nat)
  <1>1. S \subseteq Nat
    BY DEF Slot
  <1>2. IsWellFoundedOn(R, Nat)
    BY Zenon, NatLessThanWellFounded
  <1> HIDE DEF R
  <1>3. PICK x \in S : \A y \in S : ~ (<<y, x>> \in R)
    BY Zenon, <1>1, <1>2, WFMin
  <1>4. \A y \in S : x =< y
    <2> SUFFICES ASSUME NEW y \in S PROVE x =< y
      OBVIOUS
    <2>1. ~ (y < x)
      BY Zenon, <1>1, <1>3 DEF R, OpToRel
    <2>2. QED
      BY <1>1, <2>1
  <1>5. QED
    BY <1>4 DEF Min

\* The scheduler picks one of the processes that it may run,
LEMMA FirstCandidate == \A c \in CPU : Candidates(c) # {} => Min(Candidates(c)) \in Candidates(c)
  BY Zenon, FirstSlot DEF Candidates

\* allocproc one of the unused slots,
LEMMA FirstUnused == Unused # {} => Min(Unused) \in Unused
  BY Zenon, FirstSlot DEF Unused

\* and wait one of the zombie children.
LEMMA FirstZombie == \A p \in Slot : Zombies(p) # {} => Min(Zombies(p)) \in Zombies(p)
  BY Zenon, FirstSlot DEF Zombies, Children

\* kill() and wakeup() touch the state of sleepers only, and make them RUNNABLE.
Wakes(st, new) == /\ new \in [Slot -> procstate]
                  /\ \A q \in Slot : new[q] = st[q] \/ (st[q] = "SLEEPING" /\ new[q] = "RUNNABLE")

\* kill makes a sleeper RUNNABLE and changes no other state.
LEMMA KillEffect ==
    ASSUME TypeOK, NEW c \in CPU, NEW p \in Slot, NEW n \in KillPids, kill(c, p, n)
    PROVE  /\ Wakes(state, state') /\ killed' \in [Slot -> BOOLEAN]
           /\ Enters(c, p) /\ pc[p] = "kill" /\ pc' = [pc EXCEPT ![p] = "sysret"]
           /\ UNCHANGED <<pid, parent, chan, ctx, np, nextpid, lock, proc, scan>>
  <1> DEFINE match == {q \in Slot : pid[q] = n}
             first == Min(match)
  <1> USE DEF TypeOK, Wakes, procstate
  <1>1. CASE match = {}
    BY Zenon, <1>1 DEF kill, Goto
  <1>2. CASE match # {}
    <2>1. /\ killed' = [killed EXCEPT ![first] = TRUE]
          /\ state' = [state EXCEPT ![first] = IF @ = "SLEEPING" THEN "RUNNABLE" ELSE @]
      BY Zenon, <1>2 DEF kill
    <2> HIDE DEF first
    <2>2. Wakes(state, state') /\ killed' \in [Slot -> BOOLEAN]
      BY Zenon, <2>1
    <2>3. QED
      BY Zenon, <2>2 DEF kill, Goto
  <1>3. QED
    BY Zenon, <1>1, <1>2

\* wakeup1 wakes only sleepers.
LEMMA WakeupEffect == ASSUME NEW st \in [Slot -> procstate], NEW ch PROVE Wakes(st, wakeup1(st, ch))
  BY DEF Wakes, wakeup1, procstate

\* userinit leaves one process, which nobody runs.
LEMMA InitInv == Init => IInv
  <1> USE ProcessAssumption DEF Init, Slot, initproc, Device
  <1> SUFFICES ASSUME Init PROVE IInv
    OBVIOUS
  <1>1. TypeOK
    BY DEF TypeOK, procstate
  <1>2. OnCpu /\ Forking /\ Built
    BY DEF OnCpu, Forking, Built
  <1>3. Pids /\ Parents /\ Awake
    BY DEF Pids, Parents, ParentAlive, Live, Awake
  <1>4. QED
    BY <1>1, <1>2, <1>3 DEF IInv

\* Every step keeps the types of the variables.
LEMMA TypeStep == ASSUME TypeOK, [Next]_vars PROVE TypeOK'
  <1> USE ProcessAssumption DEF TypeOK, procstate, Goto, ptab
  <1>1. ASSUME NEW c \in CPU, sched_acquire(c) \/ sched_release(c) \/ swtch(c) PROVE TypeOK'
    BY <1>1 DEF sched_acquire, sched_release, swtch
  <1>2. ASSUME NEW c \in CPU, sched_pick(c) PROVE TypeOK'
    <2>1. Min(Candidates(c)) \in Slot
      BY Zenon, <1>2, FirstCandidate DEF sched_pick, Candidates
    <2>2. NextScan(Min(Candidates(c))) \in 1 .. NPROC + 1
      BY <2>1 DEF NextScan, Slot
    <2>3. QED
      BY <1>2, <2>1, <2>2 DEF sched_pick
  <1>3. ASSUME NEW c \in CPU, NEW p \in Slot, resume(c, p) \/ yield(c, p) PROVE TypeOK'
    BY <1>3 DEF resume, yield, YieldLock
  <1>4. ASSUME NEW c \in CPU, NEW p \in Slot, syscall(c, p) \/ trap_exit(c, p) \/ sysret(c, p) PROVE TypeOK'
    BY <1>4 DEF syscall, trap_exit, sysret
  <1>4a. ASSUME NEW c \in CPU, NEW p \in Slot, fault(c, p) PROVE TypeOK'
    BY <1>4a DEF fault
  <1>5. ASSUME NEW c \in CPU, NEW p \in Slot, fork_alloc(c, p) PROVE TypeOK'
    <2>1. Min(Unused) \in Slot
      BY Zenon, <1>5, FirstUnused DEF fork_alloc, Unused
    <2>2. QED
      BY <1>5, <2>1 DEF fork_alloc, NextPid
  <1>6. ASSUME NEW c \in CPU, NEW p \in Slot, fork_full(c, p) \/ fork_fail(c, p) \/ fork_copy(c, p) \/ fork_run(c, p)
        PROVE  TypeOK'
    BY <1>6 DEF fork_full, fork_fail, fork_copy, fork_run
  <1>7. ASSUME NEW c \in CPU, NEW p \in Slot, exit_init(c, p) \/ exit(c, p) PROVE TypeOK'
    <2>1. ExitWakeups(p) \in [Slot -> procstate]
      BY DEF ExitWakeups, wakeup1
    <2>2. Adopted(p) \in [Slot -> Slot \cup {0}]
      BY DEF Adopted, initproc, Slot
    <2>3. QED
      BY <1>7, <2>1, <2>2 DEF exit_init, exit
  <1>8. ASSUME NEW c \in CPU, NEW p \in Slot, wait_reap(c, p) PROVE TypeOK'
    <2>1. Min(Zombies(p)) \in Slot
      BY Zenon, <1>8, FirstZombie DEF wait_reap, Zombies, Children
    <2>2. QED
      BY <1>8, <2>1 DEF wait_reap
  <1>9. ASSUME NEW c \in CPU, NEW p \in Slot, wait_none(c, p) \/ wait_sleep(c, p) PROVE TypeOK'
    BY <1>9 DEF wait_none, wait_sleep
  <1>10. ASSUME NEW c \in CPU, NEW p \in Slot, NEW n \in KillPids, kill(c, p, n) PROVE TypeOK'
    <2>1. /\ state' \in [Slot -> procstate] /\ killed' \in [Slot -> BOOLEAN] /\ pc' = [pc EXCEPT ![p] = "sysret"]
          /\ UNCHANGED <<pid, parent, chan, ctx, np, nextpid, proc, scan, lock>>
      BY Zenon, <1>10, KillEffect DEF Wakes
    <2>2. QED
      BY <2>1
  <1>11. ASSUME NEW c \in CPU, NEW p \in Slot, block(c, p) \/ sleep(c, p) PROVE TypeOK'
    BY <1>11 DEF block, sleep, YieldLock
  <1>12. CASE device
    BY <1>12 DEF device, wakeup1
  <1>13. CASE UNCHANGED vars
    BY <1>13 DEF vars
  <1>14. QED
    BY Zenon, <1>1, <1>2, <1>3, <1>4, <1>4a, <1>5, <1>6, <1>7, <1>8, <1>9, <1>10, <1>11, <1>12, <1>13 DEF Next, Scheduler, Kernel
-----------------------------------------------------------------------------
\* What the assumption says of the slots.
LEMMA SlotFacts == 0 \notin Slot /\ initproc \in Slot /\ initproc # 0 /\ Device \notin Slot
  BY ProcessAssumption DEF Slot, initproc, Device

\* Who runs in the kernel without having come from the scheduler is RUNNING.
LEMMA Running == ASSUME TypeOK, OnCpu, NEW c \in CPU, NEW p \in Slot, Runs(c, p) \/ Enters(c, p)
                 PROVE  state[p] = "RUNNING"
  BY ProcessAssumption, SlotFacts DEF TypeOK, OnCpu, Runs, Enters

\* A step that only moves the process inside the kernel, or marks it killed.
Moves(c, p) == \/ syscall(c, p) \/ fault(c, p) \/ trap_exit(c, p) \/ sysret(c, p)
               \/ fork_full(c, p) \/ exit_init(c, p) \/ block(c, p)

\* Such a step changes no state, no lock and no CPU, and where it leaves the process.
LEMMA MovesEffect ==
    ASSUME TypeOK, NEW c \in CPU, NEW p \in Slot, Moves(c, p)
    PROVE  /\ UNCHANGED <<state, pid, parent, chan, ctx, np, nextpid, lock, proc, scan>>
           /\ pc[p] \notin {"fork_copy", "fork_run"}
           /\ \E l \in {"user", "fork", "wait", "kill", "block", "sleep", "sysret", "exit", "panic"} :
                 pc' = [pc EXCEPT ![p] = l]
  <1> USE DEF Goto, ptab
  <1>1. CASE syscall(c, p)
    BY Zenon, <1>1 DEF syscall
  <1>2. CASE fault(c, p)
    <2>1. pc' = [pc EXCEPT ![p] = "user"]
      BY <1>2 DEF fault, TypeOK
    <2>2. QED
      BY Zenon, <1>2, <2>1 DEF fault
  <1>3. CASE trap_exit(c, p) \/ sysret(c, p)
    BY <1>3 DEF trap_exit, sysret
  <1>4. CASE fork_full(c, p) \/ exit_init(c, p)
    BY <1>4 DEF fork_full, exit_init
  <1>5. CASE block(c, p)
    BY Zenon, <1>5 DEF block
  <1>6. QED
    BY <1>1, <1>2, <1>3, <1>4, <1>5 DEF Moves

\* scheduler() finds a RUNNABLE process and runs it.
LEMMA PickEffect ==
    ASSUME NEW c \in CPU, sched_pick(c)
    PROVE  \E q \in Slot : /\ proc[c] = 0 /\ lock = c /\ state[q] = "RUNNABLE"
                           /\ proc' = [proc EXCEPT ![c] = q] /\ state' = [state EXCEPT ![q] = "RUNNING"]
                           /\ UNCHANGED <<pid, parent, chan, ctx, pc, np, nextpid, lock>>
  <1>1. Min(Candidates(c)) \in Slot /\ state[Min(Candidates(c))] = "RUNNABLE"
    BY Zenon, FirstCandidate DEF sched_pick, Candidates
  <1>2. QED
    BY Zenon, <1>1 DEF sched_pick

\* allocproc finds an UNUSED slot.
LEMMA AllocEffect ==
    ASSUME NEW c \in CPU, NEW p \in Slot, fork_alloc(c, p)
    PROVE  \E q \in Slot : /\ Enters(c, p) /\ pc[p] = "fork" /\ state[q] = "UNUSED" /\ nextpid <= MaxPid
                           /\ state' = [state EXCEPT ![q] = "EMBRYO"] /\ pid' = [pid EXCEPT ![q] = nextpid]
                           /\ np' = [np EXCEPT ![p] = q] /\ nextpid' = nextpid + 1
                           /\ pc' = [pc EXCEPT ![p] = "fork_copy"]
                           /\ UNCHANGED <<parent, chan, ctx, lock, proc>>
  <1>1. Min(Unused) \in Slot /\ state[Min(Unused)] = "UNUSED"
    BY Zenon, FirstUnused DEF fork_alloc, Unused
  <1>2. QED
    BY Zenon, <1>1 DEF fork_alloc, Goto, NextPid

\* The state that fork() works in after allocproc.
LEMMA ForkFacts ==
    ASSUME TypeOK, OnCpu, Forking, NEW c \in CPU, NEW p \in Slot, fork_fail(c, p) \/ fork_copy(c, p) \/ fork_run(c, p)
    PROVE  /\ state[p] = "RUNNING" /\ pc[p] \in {"fork_copy", "fork_run"}
           /\ np[p] \in Slot /\ state[np[p]] = "EMBRYO" /\ np[np[p]] = 0
  <1>1. pc[p] \in {"fork_copy", "fork_run"} /\ (Runs(c, p) \/ Enters(c, p))
    BY Zenon DEF fork_fail, fork_copy, fork_run
  <1>2. np[p] \in Slot /\ state[np[p]] = "EMBRYO"
    BY <1>1, SlotFacts DEF Forking, TypeOK
  <1>3. np[np[p]] = 0
    BY <1>2 DEF Forking, Live
  <1>4. QED
    BY Zenon, <1>1, <1>2, <1>3, Running

\* exit() leaves the process a ZOMBIE, and wakes its parent and, with a zombie to inherit, init.
LEMMA ExitEffect ==
    ASSUME TypeOK, NEW c \in CPU, NEW p \in Slot, exit(c, p)
    PROVE  /\ Enters(c, p) /\ pc[p] = "exit" /\ p # initproc /\ lock' = c
           /\ pc' = [pc EXCEPT ![p] = "dead"]
           /\ state' \in [Slot -> procstate] /\ state'[p] = "ZOMBIE"
           /\ \A q \in Slot \ {p} :
                 /\ state'[q] = state[q] \/ (state[q] = "SLEEPING" /\ state'[q] = "RUNNABLE")
                 /\ state[q] = "SLEEPING" /\ chan[q] = parent[p] => state'[q] = "RUNNABLE"
                 /\ state[q] = "SLEEPING" /\ chan[q] = initproc /\ ZombieChild(p) => state'[q] = "RUNNABLE"
           /\ parent' \in [Slot -> Slot \cup {0}]
           /\ \A q \in Slot : parent'[q] = IF parent[q] = p THEN initproc ELSE parent[q]
           /\ UNCHANGED <<pid, chan, np, nextpid, proc>>
  <1> USE SlotFacts DEF TypeOK, procstate
  <1>1. /\ ExitWakeups(p) \in [Slot -> procstate]
        /\ \A q \in Slot :
              /\ ExitWakeups(p)[q] = state[q] \/ (state[q] = "SLEEPING" /\ ExitWakeups(p)[q] = "RUNNABLE")
              /\ state[q] = "SLEEPING" /\ chan[q] = parent[p] => ExitWakeups(p)[q] = "RUNNABLE"
              /\ state[q] = "SLEEPING" /\ chan[q] = initproc /\ ZombieChild(p) => ExitWakeups(p)[q] = "RUNNABLE"
    BY DEF ExitWakeups, wakeup1
  <1>2. /\ Adopted(p) \in [Slot -> Slot \cup {0}]
        /\ \A q \in Slot : Adopted(p)[q] = IF parent[q] = p THEN initproc ELSE parent[q]
    BY DEF Adopted
  <1>3. /\ Enters(c, p) /\ pc[p] = "exit" /\ p # initproc /\ lock' = c
        /\ pc' = [pc EXCEPT ![p] = "dead"] /\ UNCHANGED <<pid, chan, np, nextpid, proc>>
        /\ parent' = Adopted(p) /\ state' = [ExitWakeups(p) EXCEPT ![p] = "ZOMBIE"]
    BY Zenon DEF exit, Goto
  <1>4. QED
    BY <1>1, <1>2, <1>3

\* wait() frees one of its zombie children.
LEMMA ReapEffect ==
    ASSUME NEW c \in CPU, NEW p \in Slot, wait_reap(c, p)
    PROVE  \E q \in Slot : /\ proc[c] = p /\ pc[p] = "wait" /\ state[p] = "RUNNING" /\ (lock = c \/ lock = NoCPU)
                           /\ state[q] = "ZOMBIE" /\ parent[q] = p
                           /\ state' = [state EXCEPT ![q] = "UNUSED"] /\ pid' = [pid EXCEPT ![q] = 0]
                           /\ parent' = [parent EXCEPT ![q] = 0] /\ chan' = [chan EXCEPT ![p] = 0]
                           /\ lock' = NoCPU /\ pc' = [pc EXCEPT ![p] = "sysret"]
                           /\ UNCHANGED <<np, nextpid, proc>>
  <1>1. LET q == Min(Zombies(p)) IN q \in Slot /\ state[q] = "ZOMBIE" /\ parent[q] = p
    BY Zenon, FirstZombie DEF wait_reap, Zombies, Children
  <1>2. QED
    BY Zenon, <1>1 DEF wait_reap, Waits, Goto

\* A process that a CPU executes stays that CPU's until swtch.
LEMMA OnCpuStep == ASSUME IInv, [Next]_vars PROVE OnCpu'
  <1> USE ProcessAssumption, SlotFacts DEF IInv, TypeOK, OnCpu, Enters
  <1>1. ASSUME NEW c \in CPU, sched_acquire(c) \/ sched_release(c) \/ swtch(c) PROVE OnCpu'
    BY <1>1 DEF sched_acquire, sched_release, swtch, ptab
  <1>2. ASSUME NEW c \in CPU, sched_pick(c) PROVE OnCpu'
    BY <1>2, PickEffect
  <1>3. ASSUME NEW c \in CPU, NEW p \in Slot, resume(c, p) \/ yield(c, p) PROVE OnCpu'
    BY <1>3 DEF resume, yield, YieldLock
  <1>4. ASSUME NEW c \in CPU, NEW p \in Slot, Moves(c, p) PROVE OnCpu'
    BY <1>4, MovesEffect
  <1>5. ASSUME NEW c \in CPU, NEW p \in Slot, fork_alloc(c, p) PROVE OnCpu'
    BY SMTT(20), <1>5, AllocEffect
  <1>6. ASSUME NEW c \in CPU, NEW p \in Slot, fork_fail(c, p) \/ fork_copy(c, p) \/ fork_run(c, p) PROVE OnCpu'
    BY <1>6, ForkFacts DEF fork_fail, fork_copy, fork_run
  <1>7. ASSUME NEW c \in CPU, NEW p \in Slot, exit(c, p) PROVE OnCpu'
    BY <1>7, ExitEffect
  <1>8. ASSUME NEW c \in CPU, NEW p \in Slot, wait_reap(c, p) PROVE OnCpu'
    BY <1>8, ReapEffect
  <1>9. ASSUME NEW c \in CPU, NEW p \in Slot, wait_none(c, p) \/ wait_sleep(c, p) PROVE OnCpu'
    BY <1>9 DEF wait_none, wait_sleep, Waits
  <1>10. ASSUME NEW c \in CPU, NEW p \in Slot, NEW n \in KillPids, kill(c, p, n) PROVE OnCpu'
    BY <1>10, KillEffect DEF Wakes
  <1>11. ASSUME NEW c \in CPU, NEW p \in Slot, sleep(c, p) PROVE OnCpu'
    BY <1>11 DEF sleep, YieldLock
  <1>12. CASE device
    BY <1>12, WakeupEffect DEF device, Wakes
  <1>13. CASE UNCHANGED vars
    BY <1>13 DEF vars
  <1>14. QED
    BY ZenonT(40), <1>1, <1>2, <1>3, <1>4, <1>5, <1>6, <1>7, <1>8, <1>9, <1>10, <1>11, <1>12, <1>13
    DEF Next, Scheduler, Kernel, Moves

\* A slot under construction stays with its fork.
LEMMA ForkingStep == ASSUME IInv, [Next]_vars PROVE Forking'
  <1>a. /\ state \in [Slot -> procstate] /\ parent \in [Slot -> Slot \cup {0}] /\ np \in [Slot -> Slot \cup {0}]
        /\ pc \in [Slot -> {"user", "fork", "fork_copy", "fork_run", "wait", "kill", "block", "sleep",
                           "sysret", "exit", "dead", "panic"}]
    BY Zenon DEF IInv, TypeOK
  <1> USE <1>a, SlotFacts DEF IInv, Forking, Live
  <1>1. ASSUME NEW c \in CPU, sched_acquire(c) \/ sched_release(c) \/ swtch(c) PROVE Forking'
    BY <1>1 DEF sched_acquire, sched_release, swtch, ptab
  <1>2. ASSUME NEW c \in CPU, sched_pick(c) PROVE Forking'
    BY SMTT(20), <1>2, PickEffect
  <1>3. ASSUME NEW c \in CPU, NEW p \in Slot, resume(c, p) \/ yield(c, p) PROVE Forking'
    BY <1>3, Running DEF resume, yield, Goto
  <1>4. ASSUME NEW c \in CPU, NEW p \in Slot, Moves(c, p) PROVE Forking'
    BY <1>4, MovesEffect
  <1>5. ASSUME NEW c \in CPU, NEW p \in Slot, fork_alloc(c, p) PROVE Forking'
    BY SMTT(20), <1>5, AllocEffect, Running
  <1>6. ASSUME NEW c \in CPU, NEW p \in Slot, fork_fail(c, p) \/ fork_copy(c, p) \/ fork_run(c, p) PROVE Forking'
    BY <1>6, ForkFacts DEF fork_fail, fork_copy, fork_run, Goto
  <1>7. ASSUME NEW c \in CPU, NEW p \in Slot, exit(c, p) PROVE Forking'
    <2>1. state[p] = "RUNNING"
      BY <1>7, Running DEF exit
    <2>2. np[p] = 0 /\ \A q \in Slot : pc'[q] \in {"fork_copy", "fork_run"} <=> pc[q] \in {"fork_copy", "fork_run"}
      BY <1>7, ExitEffect
    <2>3. \A q \in Slot : pc'[q] = "fork_run" => pc[q] = "fork_run"
      BY <1>7, ExitEffect
    <2>4. \A q \in Slot : /\ state[q] = "EMBRYO" => state'[q] = "EMBRYO"
                          /\ q # p /\ Live(q) => Live(q)'
      BY <2>1, <1>7, ExitEffect
    <2>5. \A q \in Slot : parent[q] # p => parent'[q] = parent[q]
      BY <1>7, ExitEffect
    <2>6. np' = np
      BY <1>7, ExitEffect
    <2>7. QED
      BY SMTT(20), <2>2, <2>3, <2>4, <2>5, <2>6
  <1>8. ASSUME NEW c \in CPU, NEW p \in Slot, wait_reap(c, p) PROVE Forking'
    BY SMTT(20), <1>8, ReapEffect
  <1>9. ASSUME NEW c \in CPU, NEW p \in Slot, wait_none(c, p) \/ wait_sleep(c, p) PROVE Forking'
    BY <1>9 DEF wait_none, wait_sleep, Waits, Goto
  <1>10. ASSUME NEW c \in CPU, NEW p \in Slot, NEW n \in KillPids, kill(c, p, n) PROVE Forking'
    BY SMTT(20), <1>10, KillEffect DEF Wakes
  <1>11. ASSUME NEW c \in CPU, NEW p \in Slot, sleep(c, p) PROVE Forking'
    BY <1>11, Running DEF sleep, Goto
  <1>12. CASE device
    BY <1>12, WakeupEffect DEF device, Wakes
  <1>13. CASE UNCHANGED vars
    BY <1>13 DEF vars
  <1>14. QED
    BY Zenon, <1>1, <1>2, <1>3, <1>4, <1>5, <1>6, <1>7, <1>8, <1>9, <1>10, <1>11, <1>12, <1>13
    DEF Next, Scheduler, Kernel, Moves

\* An EMBRYO slot has its fork.
LEMMA BuiltStep == ASSUME IInv, [Next]_vars PROVE Built'
  <1>a. state \in [Slot -> procstate] /\ np \in [Slot -> Slot \cup {0}]
    BY Zenon DEF IInv, TypeOK
  <1> USE <1>a, SlotFacts DEF IInv, Built
  <1>1. ASSUME NEW c \in CPU, sched_acquire(c) \/ sched_release(c) \/ swtch(c) PROVE Built'
    BY <1>1 DEF sched_acquire, sched_release, swtch, ptab
  <1>2. ASSUME NEW c \in CPU, sched_pick(c) PROVE Built'
    BY SMTT(20), <1>2, PickEffect
  <1>3. ASSUME NEW c \in CPU, NEW p \in Slot, resume(c, p) \/ yield(c, p) PROVE Built'
    BY <1>3, Running DEF resume, yield, Goto
  <1>4. ASSUME NEW c \in CPU, NEW p \in Slot, Moves(c, p) PROVE Built'
    BY <1>4, MovesEffect
  <1>5. ASSUME NEW c \in CPU, NEW p \in Slot, fork_alloc(c, p) PROVE Built'
    <2>1. PICK q \in Slot : /\ pc[p] = "fork" /\ state' = [state EXCEPT ![q] = "EMBRYO"]
                            /\ np' = [np EXCEPT ![p] = q]
      BY <1>5, AllocEffect
    <2>2. np[p] = 0
      BY <2>1 DEF Forking
    <2>3. QED
      BY <2>1, <2>2
  <1>6. ASSUME NEW c \in CPU, NEW p \in Slot, fork_fail(c, p) \/ fork_copy(c, p) \/ fork_run(c, p) PROVE Built'
    BY SMTT(20), <1>6, ForkFacts DEF fork_fail, fork_copy, fork_run, Goto
  <1>7. ASSUME NEW c \in CPU, NEW p \in Slot, exit(c, p) PROVE Built'
    BY <1>7, ExitEffect
  <1>8. ASSUME NEW c \in CPU, NEW p \in Slot, wait_reap(c, p) PROVE Built'
    BY <1>8, ReapEffect
  <1>9. ASSUME NEW c \in CPU, NEW p \in Slot, wait_none(c, p) \/ wait_sleep(c, p) PROVE Built'
    BY SMTT(20), <1>9 DEF wait_none, wait_sleep, Waits, Goto
  <1>10. ASSUME NEW c \in CPU, NEW p \in Slot, NEW n \in KillPids, kill(c, p, n) PROVE Built'
    BY SMTT(20), <1>10, KillEffect DEF Wakes
  <1>11. ASSUME NEW c \in CPU, NEW p \in Slot, sleep(c, p) PROVE Built'
    BY <1>11, Running DEF sleep, Goto
  <1>12. CASE device
    BY <1>12, WakeupEffect DEF device, Wakes
  <1>13. CASE UNCHANGED vars
    BY <1>13 DEF vars
  <1>14. QED
    BY ZenonT(40), <1>1, <1>2, <1>3, <1>4, <1>5, <1>6, <1>7, <1>8, <1>9, <1>10, <1>11, <1>12, <1>13
    DEF Next, Scheduler, Kernel, Moves

\* A pid in use is given once.
LEMMA PidsStep == ASSUME IInv, [Next]_vars PROVE Pids'
  <1>a. state \in [Slot -> procstate] /\ pid \in [Slot -> 0 .. MaxPid] /\ nextpid \in 1 .. MaxPid + 1
    BY Zenon DEF IInv, TypeOK
  <1> USE <1>a, ProcessAssumption, SlotFacts DEF IInv, Pids
  <1>1. ASSUME NEW c \in CPU, sched_acquire(c) \/ sched_release(c) \/ swtch(c) PROVE Pids'
    BY <1>1 DEF sched_acquire, sched_release, swtch, ptab
  <1>2. ASSUME NEW c \in CPU, sched_pick(c) PROVE Pids'
    BY SMTT(20), <1>2, PickEffect
  <1>3. ASSUME NEW c \in CPU, NEW p \in Slot, resume(c, p) \/ yield(c, p) PROVE Pids'
    BY <1>3, Running DEF resume, yield, Goto
  <1>4. ASSUME NEW c \in CPU, NEW p \in Slot, Moves(c, p) PROVE Pids'
    BY <1>4, MovesEffect
  <1>5. ASSUME NEW c \in CPU, NEW p \in Slot, fork_alloc(c, p) PROVE Pids'
    BY SMTT(20), <1>5, AllocEffect, Running
  <1>6. ASSUME NEW c \in CPU, NEW p \in Slot, fork_fail(c, p) \/ fork_copy(c, p) \/ fork_run(c, p) PROVE Pids'
    BY <1>6, ForkFacts DEF fork_fail, fork_copy, fork_run, Goto
  <1>7. ASSUME NEW c \in CPU, NEW p \in Slot, exit(c, p) PROVE Pids'
    <2>1. state[p] = "RUNNING"
      BY SMTT(20), <1>7, Running DEF exit
    <2>2. \A q \in Slot : state'[q] # "UNUSED" => state[q] # "UNUSED"
      BY SMTT(20), <2>1, <1>7, ExitEffect
    <2>3. UNCHANGED <<pid, nextpid>>
      BY <1>7, ExitEffect
    <2>4. QED
      BY SMTT(20), <2>2, <2>3
  <1>8. ASSUME NEW c \in CPU, NEW p \in Slot, wait_reap(c, p) PROVE Pids'
    <2>1. PICK q \in Slot :
             /\ state[q] = "ZOMBIE" /\ parent[q] = p /\ state[p] = "RUNNING"
             /\ state' = [state EXCEPT ![q] = "UNUSED"] /\ pid' = [pid EXCEPT ![q] = 0]
             /\ parent' = [parent EXCEPT ![q] = 0] /\ UNCHANGED nextpid
      BY SMTT(20), <1>8, ReapEffect

    <2>2. QED
      BY <2>1
  <1>9. ASSUME NEW c \in CPU, NEW p \in Slot, wait_none(c, p) \/ wait_sleep(c, p) PROVE Pids'
    BY <1>9 DEF wait_none, wait_sleep, Waits, Goto
  <1>10. ASSUME NEW c \in CPU, NEW p \in Slot, NEW n \in KillPids, kill(c, p, n) PROVE Pids'
    BY SMTT(20), <1>10, KillEffect DEF Wakes
  <1>11. ASSUME NEW c \in CPU, NEW p \in Slot, sleep(c, p) PROVE Pids'
    BY <1>11, Running DEF sleep, Goto
  <1>12. CASE device
    BY <1>12, WakeupEffect DEF device, Wakes
  <1>13. CASE UNCHANGED vars
    BY <1>13 DEF vars
  <1>14. QED
    BY ZenonT(40), <1>1, <1>2, <1>3, <1>4, <1>5, <1>6, <1>7, <1>8, <1>9, <1>10, <1>11, <1>12, <1>13
    DEF Next, Scheduler, Kernel, Moves

\* Nobody who may still be waited for loses their parent.
LEMMA ParentsStep == ASSUME IInv, [Next]_vars PROVE Parents'
  <1>a. /\ state \in [Slot -> procstate] /\ parent \in [Slot -> Slot \cup {0}]
    BY Zenon DEF IInv, TypeOK
  <1> USE <1>a, SlotFacts DEF IInv, Live, Parents, ParentAlive
  <1>1. ASSUME NEW c \in CPU, sched_acquire(c) \/ sched_release(c) \/ swtch(c) PROVE Parents'
    BY <1>1 DEF sched_acquire, sched_release, swtch, ptab
  <1>2. ASSUME NEW c \in CPU, sched_pick(c) PROVE Parents'
    BY SMTT(20), <1>2, PickEffect
  <1>3. ASSUME NEW c \in CPU, NEW p \in Slot, resume(c, p) \/ yield(c, p) PROVE Parents'
    BY <1>3, Running DEF resume, yield, Goto
  <1>4. ASSUME NEW c \in CPU, NEW p \in Slot, Moves(c, p) PROVE Parents'
    BY SMTT(20), <1>4, MovesEffect
  <1>5. ASSUME NEW c \in CPU, NEW p \in Slot, fork_alloc(c, p) PROVE Parents'
    BY SMTT(20), <1>5, AllocEffect, Running
  <1>6. ASSUME NEW c \in CPU, NEW p \in Slot, fork_fail(c, p) \/ fork_copy(c, p) \/ fork_run(c, p) PROVE Parents'
    <2>1. /\ state[p] = "RUNNING" /\ np[p] \in Slot /\ state[np[p]] = "EMBRYO"
          /\ pc[p] = "fork_run" => parent[np[p]] = p
      BY Zenon, <1>6, ForkFacts DEF Forking
    <2>2. CASE fork_fail(c, p)
      BY <2>1, <2>2 DEF fork_fail
    <2>3. CASE fork_copy(c, p)
      BY <2>1, <2>3 DEF fork_copy
    <2>4. CASE fork_run(c, p)
      BY <2>1, <2>4 DEF fork_run
    <2>5. QED
      BY Zenon, <1>6, <2>2, <2>3, <2>4
  <1>7. ASSUME NEW c \in CPU, NEW p \in Slot, exit(c, p) PROVE Parents'
    <2>1. state[p] = "RUNNING"
      BY SMTT(20), <1>7, Running DEF exit
    <2>2. \A q \in Slot : q # p => (Live(q) <=> Live(q)') /\ (state'[q] = "ZOMBIE" <=> state[q] = "ZOMBIE")
      BY SMTT(20), <1>7, ExitEffect
    <2>3. p # initproc /\ \A q \in Slot : parent'[q] = IF parent[q] = p THEN initproc ELSE parent[q]
      BY <1>7, ExitEffect
    <2>4. QED
      BY SMTT(20), <2>1, <2>2, <2>3
  <1>8. ASSUME NEW c \in CPU, NEW p \in Slot, wait_reap(c, p) PROVE Parents'
    <2>1. PICK q \in Slot :
             /\ state[q] = "ZOMBIE" /\ parent[q] = p /\ state[p] = "RUNNING"
             /\ state' = [state EXCEPT ![q] = "UNUSED"] /\ pid' = [pid EXCEPT ![q] = 0]
             /\ parent' = [parent EXCEPT ![q] = 0] /\ UNCHANGED nextpid
      BY SMTT(20), <1>8, ReapEffect

    <2>2. q # initproc /\ q # p
      BY <2>1
    <2>3. QED
      BY SMTT(20), <2>1, <2>2
  <1>9. ASSUME NEW c \in CPU, NEW p \in Slot, wait_none(c, p) \/ wait_sleep(c, p) PROVE Parents'
    BY SMTT(20), <1>9 DEF wait_none, wait_sleep, Waits, Goto
  <1>10. ASSUME NEW c \in CPU, NEW p \in Slot, NEW n \in KillPids, kill(c, p, n) PROVE Parents'
    BY SMTT(20), <1>10, KillEffect DEF Wakes
  <1>11. ASSUME NEW c \in CPU, NEW p \in Slot, sleep(c, p) PROVE Parents'
    BY SMTT(20), <1>11, Running DEF sleep, Goto
  <1>12. CASE device
    BY <1>12, WakeupEffect DEF device, Wakes
  <1>13. CASE UNCHANGED vars
    BY <1>13 DEF vars
  <1>14. QED
    BY ZenonT(40), <1>1, <1>2, <1>3, <1>4, <1>5, <1>6, <1>7, <1>8, <1>9, <1>10, <1>11, <1>12, <1>13
    DEF Next, Scheduler, Kernel, Moves

\* A parent asleep in wait() has no zombie child.
LEMMA AwakeStep == ASSUME IInv, [Next]_vars PROVE Awake'
  <1>a. /\ state \in [Slot -> procstate] /\ parent \in [Slot -> Slot \cup {0}]
        /\ chan \in [Slot -> Slot \cup {0, Device}]
    BY Zenon DEF IInv, TypeOK
  <1> USE <1>a, SlotFacts DEF IInv, Awake
  <1>1. ASSUME NEW c \in CPU, sched_acquire(c) \/ sched_release(c) \/ swtch(c) PROVE Awake'
    BY <1>1 DEF sched_acquire, sched_release, swtch, ptab
  <1>2. ASSUME NEW c \in CPU, sched_pick(c) PROVE Awake'
    BY SMTT(20), <1>2, PickEffect
  <1>3. ASSUME NEW c \in CPU, NEW p \in Slot, resume(c, p) \/ yield(c, p) PROVE Awake'
    BY SMTT(20), <1>3, Running DEF resume, yield, Goto
  <1>4. ASSUME NEW c \in CPU, NEW p \in Slot, Moves(c, p) PROVE Awake'
    BY SMTT(20), <1>4, MovesEffect
  <1>5. ASSUME NEW c \in CPU, NEW p \in Slot, fork_alloc(c, p) PROVE Awake'
    BY SMTT(20), <1>5, AllocEffect, Running
  <1>6. ASSUME NEW c \in CPU, NEW p \in Slot, fork_fail(c, p) \/ fork_copy(c, p) \/ fork_run(c, p) PROVE Awake'
    <2>1. np[p] \in Slot /\ state[np[p]] = "EMBRYO" /\ state[p] = "RUNNING"
      BY Zenon, <1>6, ForkFacts
    <2>2. CASE fork_fail(c, p) \/ fork_run(c, p)
      BY <2>1, <2>2 DEF fork_fail, fork_run
    <2>3. CASE fork_copy(c, p)
      BY <2>1, <2>3 DEF fork_copy
    <2>4. QED
      BY Zenon, <1>6, <2>2, <2>3
  <1>7. ASSUME NEW c \in CPU, NEW p \in Slot, exit(c, p) PROVE Awake'
    <2>1. state[p] = "RUNNING"
      BY <1>7, Running DEF exit
    <2>2. ASSUME NEW q \in Slot, NEW r \in Slot, state'[q] = "SLEEPING", chan[q] = q, parent'[r] = q, state'[r] = "ZOMBIE"
          PROVE  FALSE
      <3>1. q # p /\ state[q] = "SLEEPING"
        BY SMTT(20), <2>2, <1>7, ExitEffect
      <3>2. CASE r = p
        <4>1. p # initproc /\ q = IF parent[r] = p THEN initproc ELSE parent[r]
          BY <2>2, <1>7, ExitEffect
        <4>2. parent[p] # p
          BY Zenon DEF Parents
        <4>3. q = parent[p] /\ state'[q] = "RUNNABLE"
          BY <3>1, <3>2, <4>1, <4>2, <2>2, <1>7, ExitEffect
        <4>4. QED
          BY <4>3, <2>2
      <3>3. CASE r # p
        <4>1. state[r] = "ZOMBIE" /\ q = IF parent[r] = p THEN initproc ELSE parent[r]
          BY <3>3, <2>2, <1>7, ExitEffect
        <4>2. CASE parent[r] = p
          <5>1. ZombieChild(p)
            BY Zenon, <4>1, <4>2 DEF ZombieChild
          <5>2. QED
            BY <3>1, <4>1, <4>2, <5>1, <2>2, <1>7, ExitEffect
        <4>3. CASE parent[r] # p
          BY <3>1, <4>1, <4>3, <2>2
        <4>4. QED
          BY Zenon, <4>2, <4>3
      <3>4. QED
        BY SMTT(20), <3>2, <3>3
    <2>3. chan' = chan
      BY SMTT(20), <1>7, ExitEffect
    <2>4. QED
      BY SMTT(20), <2>2, <2>3
  <1>8. ASSUME NEW c \in CPU, NEW p \in Slot, wait_reap(c, p) PROVE Awake'
    BY SMTT(20), <1>8, ReapEffect
  <1>9. ASSUME NEW c \in CPU, NEW p \in Slot, wait_none(c, p) \/ wait_sleep(c, p) PROVE Awake'
    BY SMTT(20), <1>9 DEF wait_none, wait_sleep, Waits, Zombies, Children
  <1>10. ASSUME NEW c \in CPU, NEW p \in Slot, NEW n \in KillPids, kill(c, p, n) PROVE Awake'
    BY SMTT(20), <1>10, KillEffect DEF Wakes
  <1>11. ASSUME NEW c \in CPU, NEW p \in Slot, sleep(c, p) PROVE Awake'
    BY SMTT(20), <1>11, Running DEF sleep, Goto
  <1>12. CASE device
    BY SMTT(20), <1>12, WakeupEffect DEF device, Wakes
  <1>13. CASE UNCHANGED vars
    BY <1>13 DEF vars
  <1>14. QED
    BY ZenonT(40), <1>1, <1>2, <1>3, <1>4, <1>5, <1>6, <1>7, <1>8, <1>9, <1>10, <1>11, <1>12, <1>13
    DEF Next, Scheduler, Kernel, Moves
-----------------------------------------------------------------------------
\* The invariant is inductive.
THEOREM Invariance == Spec => []IInv
  <1>1. IInv /\ [Next]_vars => IInv'
    <2> SUFFICES ASSUME IInv, [Next]_vars PROVE IInv'
      OBVIOUS
    <2>1. TypeOK' /\ OnCpu' /\ Forking' /\ Built'
      BY Zenon, TypeStep, OnCpuStep, ForkingStep, BuiltStep DEF IInv
    <2>2. Pids' /\ Parents' /\ Awake'
      BY Zenon, PidsStep, ParentsStep, AwakeStep
    <2>3. QED
      BY Zenon, <2>1, <2>2 DEF IInv
  <1>2. QED
    BY InitInv, <1>1, PTL DEF Spec

\* Every variable of the process table keeps its type, whatever the CPUs do.
THEOREM ProcessTypes == Spec => []TypeOK
  <1>1. IInv => TypeOK
    BY Zenon DEF IInv
  <1>2. QED
    BY Invariance, <1>1, PTL

\* No kernel stack is ever used by two CPUs: scheduler(), sched(), yield(), sleep(), exit() and
\* wait() hand ptable.lock over so that a process that may be picked, or freed, has left its CPU.
THEOREM StackSafe == Spec => []OneCpuPerStack
  <1>1. IInv => OneCpuPerStack
    BY Zenon DEF IInv, OnCpu, OneCpuPerStack
  <1>2. QED
    BY Invariance, <1>1, PTL

\* allocproc gives a slot and a pid to one fork only, though fork() fills the slot without the lock.
THEOREM SlotSafe == Spec => []SlotsExclusive
  <1>1. IInv => SlotsExclusive
    <2> SUFFICES ASSUME IInv PROVE SlotsExclusive
      OBVIOUS
    <2>1. ASSUME NEW q \in Slot, state[q] = "EMBRYO" PROVE Cardinality({p \in Slot : np[p] = q}) = 1
      <3>1. PICK p \in Slot : np[p] = q
        BY Zenon, <2>1 DEF IInv, Built
      <3>2. \A r \in Slot : np[r] = q => r = p
        BY Zenon, <3>1, SlotFacts DEF IInv, Forking
      <3>3. {r \in Slot : np[r] = q} = {p}
        BY Zenon, <3>1, <3>2
      <3>4. QED
        BY Zenon, <3>3, FS_Singleton
    <2>2. QED
      BY Zenon, <2>1 DEF IInv, Pids, SlotsExclusive
  <1>2. QED
    BY Invariance, <1>1, PTL

\* exit() never leaves a process or a zombie without a living parent: init adopts the children.
THEOREM ParentSafe == Spec => []ParentAlive
  <1>1. IInv => ParentAlive
    BY Zenon DEF IInv, Parents
  <1>2. QED
    BY Invariance, <1>1, PTL

\* No exit() is missed by wait(): the wakeups in exit() reach every parent that sleeps, init for
\* the zombies that it inherits included.
THEOREM ExitSeen == Spec => []NoMissedExit
  <1>1. IInv => NoMissedExit
    BY DEF IInv, Awake, NoMissedExit, Zombies, Children
  <1>2. QED
    BY Invariance, <1>1, PTL
==============================================================================
