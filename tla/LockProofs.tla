----------------------------- MODULE LockProofs -----------------------------
(***************************************************************************)
(* Proofs about spin locks and sleep locks.                                *)
(*                                                                         *)
(* Spin locks exclude each other, their functions never panic, and         *)
(* interrupts come back as they were, for any number of CPUs, threads and  *)
(* locks.                                                                  *)
(*                                                                         *)
(* Sleep locks, for any set of processes: mutual exclusion, that           *)
(* holdingsleep is exact, and that no wakeup is lost.  The invariant       *)
(* ties each lock variable to where its holder is, and says of a process   *)
(* on its way to sleep what sleep's comment says: the lock is still taken  *)
(* until lk->lk is released, and from then on ptable.lock keeps the        *)
(* releaser from calling wakeup too early.                                 *)
(***************************************************************************)
EXTENDS Spinlock, Sleeplock, FiniteSetTheorems, TLAPS

-----------------------------------------------------------------------------
\* Spin locks

\* The types of the variables: those that say where everybody is, and the flags.
Places == /\ ncli \in [CPU -> Int] /\ running \in [CPU -> Context] /\ held \in [Context -> SUBSET Lock]
          /\ at \in [Context -> {"code", "spin", "record", "unlock"}] /\ want \in [Context -> Lock]
          /\ saved \in [Thread -> {"forkret", "on", "off"}]

Flags  == /\ lk \in [Lock -> [locked : BOOLEAN, cpu : CPU \cup {NoCpu}]]
          /\ eflags \in [CPU -> BOOLEAN] /\ intena \in [CPU -> BOOLEAN]
          /\ inTrap \in [Context -> BOOLEAN] /\ spanic \in BOOLEAN

\* A context runs on one CPU, a scheduler on its own; off the CPUs it has no lock and takes none.
Placed ==
    /\ \A c, d \in CPU : running[c] = running[d] => c = d
    /\ \A c \in CPU : running[c] \in Thread \cup {c}
    /\ \A k \in Context : (\A c \in CPU : running[c] # k) => at[k] = "code" /\ held[k] = {}

\* A lock that somebody is inside of is locked, and somebody else is not inside of it.
Locked ==
    /\ \A j, k \in Context : j # k => Inside(j) \cap Inside(k) = {}
    /\ \A k \in Context : \A l \in Inside(k) : lk[l].locked
    /\ \A k \in Context : /\ at[k] = "unlock" => want[k] \in held[k] /\ lk[want[k]].cpu = NoCpu
                          /\ at[k] \in {"spin", "record"} => want[k] \notin held[k]

\* lk->cpu is the CPU of the holder, and of nobody else, until release clears it.
Recorded ==
    \A c \in CPU : LET k == running[c]
                   IN  /\ \A l \in held[k] : lk[l].cpu = c \/ (at[k] = "unlock" /\ want[k] = l)
                       /\ \A l \in Lock : lk[l].cpu = c => l \in held[k]

\* ncli counts the locks of the context that runs.
Counted ==
    \A c \in CPU : LET k == running[c]
                   IN  ncli[c] = Cardinality(held[k]) + (IF at[k] \in {"spin", "record"} THEN 1 ELSE 0)

\* Interrupts are off while the CPU has a lock.
Masked == \A c \in CPU : ncli[c] # 0 => ~ eflags[c]

\* The interrupt flag once the locks of the CPU are released.
Later(c) == IF ncli[c] = 0 THEN eflags[c] ELSE intena[c]

\* Interrupts are as the thread's code wants them, or are to become so when its last lock is
\* released, or when it is switched to again.
Wanted ==
    /\ \A c \in CPU : LET k == running[c]
                      IN  k \in Thread /\ (saved[k] = "forkret" => inTrap[k]) => (Later(c) <=> ~ inTrap[k])
    /\ \A t \in Thread : (\A c \in CPU : running[c] # t)
                         => IF saved[t] = "forkret" THEN ~ inTrap[t] ELSE (saved[t] = "on" <=> ~ inTrap[t])

SInv == Places /\ Flags /\ Placed /\ Locked /\ Recorded /\ Counted /\ Masked /\ Wanted /\ NoLockPanic

-----------------------------------------------------------------------------
\* What the assumption says of the locks and the contexts.
LEMMA LockFacts == /\ Ptable \in Lock
                   /\ \A l \in Lock : l \in Int
                   /\ \A c \in CPU : c \in Context /\ c \notin Thread
                   /\ \A t \in Thread : t \in Context
  BY SpinlockAssumption DEF Lock, Context

\* The number of locks in a set of locks.
LEMMA CountFacts ==
    /\ Cardinality({}) = 0 /\ Cardinality({Ptable}) = 1
    /\ \A S \in SUBSET Lock : /\ Cardinality(S) \in Nat
                              /\ S # {} => Cardinality(S) > 0
                              /\ \A l \in Lock \ S : Cardinality(S \cup {l}) = Cardinality(S) + 1
                              /\ \A l \in S : Cardinality(S \ {l}) = Cardinality(S) - 1
  <1>1. IsFiniteSet(Lock)
    BY SpinlockAssumption, FS_Interval DEF Lock
  <1>2. Cardinality({}) = 0 /\ Cardinality({Ptable}) = 1
    BY Zenon, FS_EmptySet, FS_Singleton
  <1>3. ASSUME NEW S \in SUBSET Lock
        PROVE  /\ Cardinality(S) \in Nat
               /\ S # {} => Cardinality(S) > 0
               /\ \A l \in Lock \ S : Cardinality(S \cup {l}) = Cardinality(S) + 1
               /\ \A l \in S : Cardinality(S \ {l}) = Cardinality(S) - 1
    <2>1. IsFiniteSet(S)
      BY Zenon, <1>1, FS_Subset
    <2>2. Cardinality(S) \in Nat /\ (Cardinality(S) = 0 <=> S = {})
      BY Zenon, <2>1, FS_CardinalityType, FS_EmptySet
    <2>3. \A l \in Lock \ S : Cardinality(S \cup {l}) = Cardinality(S) + 1
      BY Zenon, <2>1, FS_AddElement
    <2>4. \A l \in S : Cardinality(S \ {l}) = Cardinality(S) - 1
      BY Zenon, <2>1, FS_RemoveElement
    <2>5. QED
      BY <2>2, <2>3, <2>4
  <1>4. QED
    BY Zenon, <1>2, <1>3

\* What acquire and release assign to a lock is of its type.
LEMMA LkTypes ==
    ASSUME Flags, NEW l \in Lock, NEW c \in CPU \cup {NoCpu}
    PROVE  /\ [lk EXCEPT ![l].locked = TRUE] \in [Lock -> [locked : BOOLEAN, cpu : CPU \cup {NoCpu}]]
           /\ [lk EXCEPT ![l].cpu = c] \in [Lock -> [locked : BOOLEAN, cpu : CPU \cup {NoCpu}]]
  BY Zenon DEF Flags

\* What ncli is when the context that runs has some lock, none, or only ptable.lock.
LEMMA HeldCounts ==
    ASSUME Places, Counted, NEW c \in CPU
    PROVE  /\ ncli[c] >= 0
           /\ held[running[c]] # {} => ncli[c] >= 1
           /\ held[running[c]] = {} /\ at[running[c]] = "code" => ncli[c] = 0
           /\ held[running[c]] = {Ptable} /\ at[running[c]] = "code" => ncli[c] = 1
  <1>1. held[running[c]] \in SUBSET Lock
    BY Zenon DEF Places
  <1>2. Cardinality(held[running[c]]) \in Nat /\ (held[running[c]] # {} => Cardinality(held[running[c]]) > 0)
    BY Zenon, <1>1, CountFacts
  <1>3. /\ held[running[c]] = {} => Cardinality(held[running[c]]) = 0
        /\ held[running[c]] = {Ptable} => Cardinality(held[running[c]]) = 1
    BY Zenon, CountFacts
  <1>4. ncli[c] = Cardinality(held[running[c]]) + (IF at[running[c]] \in {"spin", "record"} THEN 1 ELSE 0)
    BY Zenon DEF Counted
  <1>5. QED
    BY <1>2, <1>3, <1>4

\* Initially every CPU is in its scheduler and no lock is taken.
LEMMA SpinInitInv == SInit => SInv
  <1> SUFFICES ASSUME SInit PROVE SInv
    BY Zenon
  <1> USE SpinlockAssumption, LockFacts, CountFacts DEF SInit
  <1>1. Places
    BY DEF Places
  <1>1a. Flags
    BY Zenon DEF Flags
  <1>2. Placed /\ Locked
    BY DEF Placed, Locked, Inside
  <1>3. Recorded /\ Counted /\ Masked
    BY DEF Recorded, Counted, Masked
  <1>4. Wanted /\ NoLockPanic
    BY DEF Wanted, NoLockPanic
  <1>5. QED
    BY Zenon, <1>1, <1>1a, <1>2, <1>3, <1>4 DEF SInv

\* Every step keeps the types of the variables.
LEMMA PlacesStep == ASSUME SInv, [SNext]_svars PROVE Places'
  <1> USE SpinlockAssumption, LockFacts DEF SInv, Places
  <1>1. ASSUME NEW c \in CPU, NEW l \in Lock, acquire(c, l) PROVE Places'
    BY <1>1 DEF acquire, pushcli, MayTake
  <1>2. ASSUME NEW c \in CPU, xchg(c) PROVE Places'
    BY <1>2 DEF xchg, Free
  <1>3. ASSUME NEW c \in CPU, record(c) PROVE Places'
    BY <1>3 DEF record
  <1>4. ASSUME NEW c \in CPU, NEW l \in Lock, release(c, l) PROVE Places'
    BY <1>4 DEF release
  <1>5. ASSUME NEW c \in CPU, unlock(c) PROVE Places'
    BY <1>5 DEF unlock, popcli
  <1>6. ASSUME NEW c \in CPU, interrupt(c) PROVE Places'
    BY <1>6 DEF interrupt
  <1>7. ASSUME NEW c \in CPU, iret(c) PROVE Places'
    BY <1>7 DEF iret
  <1>8. ASSUME NEW c \in CPU, forkret(c) PROVE Places'
    BY <1>8 DEF forkret
  <1>9. ASSUME NEW c \in CPU, sched(c) PROVE Places'
    BY <1>9 DEF sched
  <1>10. ASSUME NEW c \in CPU, NEW t \in Thread, scheduler(c, t) PROVE Places'
    BY <1>10 DEF scheduler
  <1>11. ASSUME NEW c \in CPU, sti(c) PROVE Places'
    BY <1>11 DEF sti
  <1>12. CASE UNCHANGED svars
    BY <1>12 DEF svars
  <1>13. QED
    BY Zenon, <1>1, <1>2, <1>3, <1>4, <1>5, <1>6, <1>7, <1>8, <1>9, <1>10, <1>11, <1>12 DEF SNext

\* And of the flags.
LEMMA FlagsStep == ASSUME SInv, [SNext]_svars PROVE Flags'
  <1> USE SpinlockAssumption, LockFacts DEF SInv, Places, Flags
  <1>1. ASSUME NEW c \in CPU, NEW l \in Lock, acquire(c, l) PROVE Flags'
    BY Zenon, <1>1 DEF acquire, pushcli, MayTake, holding, popcliPanics
  <1>2. ASSUME NEW c \in CPU, xchg(c) PROVE Flags'
    <2>1. running[c] \in Context /\ want[running[c]] \in Lock
      BY Zenon
    <2>2. lk' \in [Lock -> [locked : BOOLEAN, cpu : CPU \cup {NoCpu}]]
      BY Zenon, <1>2, <2>1, LkTypes DEF xchg
    <2>3. QED
      BY Zenon, <1>2, <2>2 DEF xchg
  <1>3. ASSUME NEW c \in CPU, record(c) PROVE Flags'
    <2>1. running[c] \in Context /\ want[running[c]] \in Lock
      BY Zenon
    <2>2. lk' \in [Lock -> [locked : BOOLEAN, cpu : CPU \cup {NoCpu}]]
      BY Zenon, <1>3, <2>1, LkTypes DEF record
    <2>3. QED
      BY Zenon, <1>3, <2>2 DEF record
  <1>4. ASSUME NEW c \in CPU, NEW l \in Lock, release(c, l) PROVE Flags'
    BY ZenonT(40), <1>4 DEF release, holding, popcliPanics
  <1>5. ASSUME NEW c \in CPU, unlock(c) PROVE Flags'
    BY ZenonT(40), <1>5 DEF unlock, popcli, holding, popcliPanics
  <1>6. ASSUME NEW c \in CPU, interrupt(c) PROVE Flags'
    BY Zenon, <1>6 DEF interrupt, holding, popcliPanics
  <1>7. ASSUME NEW c \in CPU, iret(c) PROVE Flags'
    BY Zenon, <1>7 DEF iret, holding, popcliPanics
  <1>8. ASSUME NEW c \in CPU, forkret(c) PROVE Flags'
    BY Zenon, <1>8 DEF forkret, holding, popcliPanics
  <1>9. ASSUME NEW c \in CPU, sched(c) PROVE Flags'
    BY Zenon, <1>9 DEF sched, holding, popcliPanics
  <1>10. ASSUME NEW c \in CPU, NEW t \in Thread, scheduler(c, t) PROVE Flags'
    <2>1. Restored(c, t) \in BOOLEAN
      BY Zenon DEF Restored
    <2>2. intena' \in [CPU -> BOOLEAN]
      BY Zenon, <1>10, <2>1 DEF scheduler
    <2>3. QED
      BY Zenon, <1>10, <2>2 DEF scheduler
  <1>11. ASSUME NEW c \in CPU, sti(c) PROVE Flags'
    BY Zenon, <1>11 DEF sti, holding, popcliPanics
  <1>12. CASE UNCHANGED svars
    BY <1>12 DEF svars
  <1>13. QED
    BY Zenon, <1>1, <1>2, <1>3, <1>4, <1>5, <1>6, <1>7, <1>8, <1>9, <1>10, <1>11, <1>12 DEF SNext

\* sched() and scheduler() move a context with its lock, and only then.
LEMMA PlacedStep == ASSUME SInv, [SNext]_svars PROVE Placed'
  <1> USE SpinlockAssumption, LockFacts DEF SInv, Places, Flags, Placed
  <1>1. ASSUME NEW c \in CPU, NEW l \in Lock, acquire(c, l) PROVE Placed'
    BY <1>1 DEF acquire, pushcli, MayTake
  <1>2. ASSUME NEW c \in CPU, xchg(c) PROVE Placed'
    BY <1>2 DEF xchg, Free
  <1>3. ASSUME NEW c \in CPU, record(c) PROVE Placed'
    BY <1>3 DEF record
  <1>4. ASSUME NEW c \in CPU, NEW l \in Lock, release(c, l) PROVE Placed'
    BY <1>4 DEF release
  <1>5. ASSUME NEW c \in CPU, unlock(c) PROVE Placed'
    BY <1>5 DEF unlock, popcli
  <1>6. ASSUME NEW c \in CPU, interrupt(c) PROVE Placed'
    BY <1>6 DEF interrupt
  <1>7. ASSUME NEW c \in CPU, iret(c) PROVE Placed'
    BY <1>7 DEF iret
  <1>8. ASSUME NEW c \in CPU, forkret(c) PROVE Placed'
    BY <1>8 DEF forkret
  <1>9. ASSUME NEW c \in CPU, sched(c) PROVE Placed'
    BY <1>9 DEF sched
  <1>10. ASSUME NEW c \in CPU, NEW t \in Thread, scheduler(c, t) PROVE Placed'
    BY <1>10 DEF scheduler
  <1>11. ASSUME NEW c \in CPU, sti(c) PROVE Placed'
    BY <1>11 DEF sti
  <1>12. CASE UNCHANGED svars
    BY <1>12 DEF svars
  <1>13. QED
    BY Zenon, <1>1, <1>2, <1>3, <1>4, <1>5, <1>6, <1>7, <1>8, <1>9, <1>10, <1>11, <1>12 DEF SNext

\* xchg is the only way in, and the locks of two contexts are different.
LEMMA LockedStep == ASSUME SInv, [SNext]_svars PROVE Locked'
  <1> USE SpinlockAssumption, LockFacts DEF SInv, Places, Flags, Placed, Locked
  <1>1. ASSUME NEW c \in CPU, NEW l \in Lock, acquire(c, l) PROVE Locked'
    BY <1>1 DEF acquire, pushcli, MayTake, Inside
  <1>2. ASSUME NEW c \in CPU, xchg(c) PROVE Locked'
    BY <1>2 DEF xchg, Free, Inside
  <1>3. ASSUME NEW c \in CPU, record(c) PROVE Locked'
    BY <1>3 DEF record, Inside
  <1>4. ASSUME NEW c \in CPU, NEW l \in Lock, release(c, l) PROVE Locked'
    BY <1>4 DEF release, Inside
  <1>5. ASSUME NEW c \in CPU, unlock(c) PROVE Locked'
    BY <1>5 DEF unlock, popcli, Inside
  <1>6. ASSUME NEW c \in CPU, interrupt(c) PROVE Locked'
    BY <1>6 DEF interrupt, Inside
  <1>7. ASSUME NEW c \in CPU, iret(c) PROVE Locked'
    BY <1>7 DEF iret, Inside
  <1>8. ASSUME NEW c \in CPU, forkret(c) PROVE Locked'
    BY <1>8 DEF forkret, Inside
  <1>9. ASSUME NEW c \in CPU, sched(c) PROVE Locked'
    <2>0. PICK t \in Thread : t = running[c]
      BY Zenon, <1>9 DEF sched
    <2>1. t \in Thread /\ c # t /\ held[c] = {} /\ at[c] = "code" /\ held[t] = {Ptable} /\ at[t] = "code"
      BY <1>9, <2>0 DEF sched
    <2>2. /\ held'[t] = {} /\ held'[c] = {Ptable} /\ \A k \in Context \ {c, t} : held'[k] = held[k]
          /\ UNCHANGED <<lk, at, want>>
      BY <1>9, <2>0, <2>1 DEF sched
    <2>3. /\ Inside(t) = {Ptable} /\ Inside(t)' = {} /\ Inside(c)' = {Ptable}
          /\ \A k \in Context \ {c, t} : Inside(k)' = Inside(k)
      BY <2>1, <2>2 DEF Inside
    <2> HIDE DEF Flags, Inside
    <2>4. \A j, k \in Context : j # k => Inside(j)' \cap Inside(k)' = {}
      BY <2>1, <2>3
    <2>5. \A k \in Context : \A l \in Inside(k)' : lk'[l].locked
      BY <2>1, <2>2, <2>3
    <2>6. \A k \in Context : /\ at'[k] = "unlock" => want'[k] \in held'[k] /\ lk'[want'[k]].cpu = NoCpu
                             /\ at'[k] \in {"spin", "record"} => want'[k] \notin held'[k]
      BY <2>1, <2>2
    <2>7. QED
      BY Zenon, <2>4, <2>5, <2>6
  <1>10. ASSUME NEW c \in CPU, NEW t \in Thread, scheduler(c, t) PROVE Locked'
    <2>1. t \in Context /\ c # t /\ held[t] = {} /\ at[t] = "code" /\ held[c] = {Ptable} /\ at[c] = "code"
      BY <1>10 DEF scheduler
    <2>2. /\ held'[c] = {} /\ held'[t] = {Ptable} /\ \A k \in Context \ {c, t} : held'[k] = held[k]
          /\ UNCHANGED <<lk, at, want>>
      BY <1>10, <2>1 DEF scheduler
    <2>3. /\ Inside(c) = {Ptable} /\ Inside(c)' = {} /\ Inside(t)' = {Ptable}
          /\ \A k \in Context \ {c, t} : Inside(k)' = Inside(k)
      BY <2>1, <2>2 DEF Inside
    <2> HIDE DEF Flags, Inside
    <2>4. \A j, k \in Context : j # k => Inside(j)' \cap Inside(k)' = {}
      BY <2>1, <2>3
    <2>5. \A k \in Context : \A l \in Inside(k)' : lk'[l].locked
      BY <2>1, <2>2, <2>3
    <2>6. \A k \in Context : /\ at'[k] = "unlock" => want'[k] \in held'[k] /\ lk'[want'[k]].cpu = NoCpu
                             /\ at'[k] \in {"spin", "record"} => want'[k] \notin held'[k]
      BY <2>1, <2>2
    <2>7. QED
      BY Zenon, <2>4, <2>5, <2>6
  <1>11. ASSUME NEW c \in CPU, sti(c) PROVE Locked'
    BY <1>11 DEF sti, Inside
  <1>12. CASE UNCHANGED svars
    BY <1>12 DEF svars, Inside
  <1>13. QED
    BY Zenon, <1>1, <1>2, <1>3, <1>4, <1>5, <1>6, <1>7, <1>8, <1>9, <1>10, <1>11, <1>12 DEF SNext

\* lk->cpu follows the lock.
LEMMA RecordedStep == ASSUME SInv, [SNext]_svars PROVE Recorded'
  <1> USE SpinlockAssumption, LockFacts DEF SInv, Places, Flags, Placed, Locked, Inside, Recorded
  <1>1. ASSUME NEW c \in CPU, NEW l \in Lock, acquire(c, l) PROVE Recorded'
    BY <1>1 DEF acquire, pushcli, MayTake
  <1>2. ASSUME NEW c \in CPU, xchg(c) PROVE Recorded'
    BY <1>2 DEF xchg, Free
  <1>3. ASSUME NEW c \in CPU, record(c) PROVE Recorded'
    BY <1>3 DEF record
  <1>4. ASSUME NEW c \in CPU, NEW l \in Lock, release(c, l) PROVE Recorded'
    BY <1>4 DEF release
  <1>5. ASSUME NEW c \in CPU, unlock(c) PROVE Recorded'
    BY <1>5 DEF unlock, popcli
  <1>6. ASSUME NEW c \in CPU, interrupt(c) PROVE Recorded'
    BY <1>6 DEF interrupt
  <1>7. ASSUME NEW c \in CPU, iret(c) PROVE Recorded'
    BY <1>7 DEF iret
  <1>8. ASSUME NEW c \in CPU, forkret(c) PROVE Recorded'
    BY <1>8 DEF forkret
  <1>9. ASSUME NEW c \in CPU, sched(c) PROVE Recorded'
    BY <1>9 DEF sched
  <1>10. ASSUME NEW c \in CPU, NEW t \in Thread, scheduler(c, t) PROVE Recorded'
    BY <1>10 DEF scheduler
  <1>11. ASSUME NEW c \in CPU, sti(c) PROVE Recorded'
    BY <1>11 DEF sti
  <1>12. CASE UNCHANGED svars
    BY <1>12 DEF svars
  <1>13. QED
    BY Zenon, <1>1, <1>2, <1>3, <1>4, <1>5, <1>6, <1>7, <1>8, <1>9, <1>10, <1>11, <1>12 DEF SNext

\* pushcli and popcli keep count.
LEMMA CountedStep == ASSUME SInv, [SNext]_svars PROVE Counted'
  <1> USE SpinlockAssumption, LockFacts, CountFacts DEF SInv, Places, Placed, Locked, Counted
  <1>1. ASSUME NEW c \in CPU, NEW l \in Lock, acquire(c, l) PROVE Counted'
    BY <1>1 DEF acquire, pushcli, MayTake
  <1>2. ASSUME NEW c \in CPU, xchg(c) PROVE Counted'
    BY <1>2 DEF xchg, Free
  <1>3. ASSUME NEW c \in CPU, record(c) PROVE Counted'
    <2> DEFINE k == running[c]
    <2>1. k \in Context /\ \A d \in CPU \ {c} : running[d] # k
      BY Zenon
    <2>2. held[k] \in SUBSET Lock /\ want[k] \in Lock \ held[k] /\ at[k] = "record"
      BY <1>3 DEF record
    <2>3. Cardinality(held[k] \cup {want[k]}) = Cardinality(held[k]) + 1
      BY Zenon, <2>2, CountFacts
    <2> HIDE DEF k
    <2>4. /\ held' = [held EXCEPT ![k] = held[k] \cup {want[k]}] /\ at' = [at EXCEPT ![k] = "code"]
          /\ UNCHANGED <<ncli, running>>
      BY <1>3 DEF record, k
    <2>5. QED
      BY <2>1, <2>2, <2>3, <2>4 DEF k
  <1>4. ASSUME NEW c \in CPU, NEW l \in Lock, release(c, l) PROVE Counted'
    BY <1>4 DEF release
  <1>5. ASSUME NEW c \in CPU, unlock(c) PROVE Counted'
    <2> DEFINE k == running[c]
    <2>1. k \in Context /\ \A d \in CPU \ {c} : running[d] # k
      BY Zenon
    <2>2. held[k] \in SUBSET Lock /\ want[k] \in held[k] /\ at[k] = "unlock"
      BY <1>5 DEF unlock
    <2>3. Cardinality(held[k] \ {want[k]}) = Cardinality(held[k]) - 1 /\ Cardinality(held[k]) \in Nat
      BY Zenon, <2>2, CountFacts
    <2> HIDE DEF k
    <2>4. /\ held' = [held EXCEPT ![k] = held[k] \ {want[k]}] /\ at' = [at EXCEPT ![k] = "code"]
          /\ ncli' = [ncli EXCEPT ![c] = ncli[c] - 1] /\ UNCHANGED running
      BY <1>5 DEF unlock, popcli, k
    <2>5. QED
      BY <2>1, <2>2, <2>3, <2>4 DEF k
  <1>6. ASSUME NEW c \in CPU, interrupt(c) PROVE Counted'
    BY <1>6 DEF interrupt
  <1>7. ASSUME NEW c \in CPU, iret(c) PROVE Counted'
    BY <1>7 DEF iret
  <1>8. ASSUME NEW c \in CPU, forkret(c) PROVE Counted'
    BY <1>8 DEF forkret
  <1>9. ASSUME NEW c \in CPU, sched(c) PROVE Counted'
    BY SMTT(20), <1>9 DEF sched
  <1>10. ASSUME NEW c \in CPU, NEW t \in Thread, scheduler(c, t) PROVE Counted'
    <2>1. t \in Context /\ c # t /\ held[t] = {} /\ at[t] = "code" /\ held[c] = {Ptable} /\ at[c] = "code"
      BY <1>10 DEF scheduler
    <2>2. /\ held'[t] = {Ptable} /\ running'[c] = t /\ at' = at /\ ncli' = ncli
          /\ \A k \in Context \ {c, t} : held'[k] = held[k]
          /\ \A d \in CPU \ {c} : running'[d] = running[d] /\ running[d] \notin {c, t}
      BY <1>10, <2>1 DEF scheduler
    <2>3. running[c] = c
      BY <1>10 DEF scheduler
    <2>4. QED
      BY SMTT(20), <2>1, <2>2, <2>3
  <1>11. ASSUME NEW c \in CPU, sti(c) PROVE Counted'
    BY <1>11 DEF sti
  <1>12. CASE UNCHANGED svars
    BY <1>12 DEF svars
  <1>13. QED
    BY Zenon, <1>1, <1>2, <1>3, <1>4, <1>5, <1>6, <1>7, <1>8, <1>9, <1>10, <1>11, <1>12 DEF SNext

\* The counts that the next lemmas use, of every CPU.
Counts == \A c \in CPU :
              /\ ncli[c] >= 0
              /\ at[running[c]] = "unlock" => ncli[c] >= 1
              /\ held[running[c]] = {} /\ at[running[c]] = "code" => ncli[c] = 0
              /\ held[running[c]] = {Ptable} /\ at[running[c]] = "code" => ncli[c] = 1

\* ncli is the number of locks of whoever runs on the CPU.
LEMMA CountsHold == ASSUME SInv PROVE Counts
  <1>1. \A c \in CPU : at[running[c]] = "unlock" => held[running[c]] # {}
    BY Zenon DEF SInv, Places, Locked
  <1>2. QED
    BY Zenon, <1>1, HeldCounts DEF SInv, Counts

\* Interrupts stay off under a lock.
LEMMA MaskedStep == ASSUME SInv, [SNext]_svars PROVE Masked'
  <1> USE CountsHold DEF SInv, Places, Flags, Counts, Masked
  <1>1. ASSUME NEW c \in CPU, NEW l \in Lock, acquire(c, l) PROVE Masked'
    BY <1>1 DEF acquire, pushcli
  <1>2. ASSUME NEW c \in CPU, xchg(c) \/ record(c) \/ sched(c) PROVE Masked'
    BY <1>2 DEF xchg, record, sched
  <1>3. ASSUME NEW c \in CPU, NEW l \in Lock, release(c, l) PROVE Masked'
    BY <1>3 DEF release
  <1>4. ASSUME NEW c \in CPU, unlock(c) PROVE Masked'
    <2>1. ncli[c] >= 1 /\ ~ eflags[c]
      BY <1>4 DEF unlock
    <2>2. ncli' = [ncli EXCEPT ![c] = ncli[c] - 1]
      BY <1>4 DEF unlock, popcli
    <2>3. CASE eflags' = eflags
      BY <2>1, <2>2, <2>3
    <2>4. CASE ncli[c] = 1 /\ eflags' = [eflags EXCEPT ![c] = TRUE]
      BY SMTT(20), <2>2, <2>4
    <2>5. QED
      BY Zenon, <1>4, <2>3, <2>4 DEF unlock, popcli
  <1>5. ASSUME NEW c \in CPU, interrupt(c) \/ iret(c) \/ forkret(c) \/ sti(c) PROVE Masked'
    BY SMTT(20), <1>5 DEF interrupt, iret, forkret, sti
  <1>6. ASSUME NEW c \in CPU, NEW t \in Thread, scheduler(c, t) PROVE Masked'
    BY <1>6 DEF scheduler
  <1>7. CASE UNCHANGED svars
    BY <1>7 DEF svars
  <1>8. QED
    BY Zenon, <1>1, <1>2, <1>3, <1>4, <1>5, <1>6, <1>7 DEF SNext

\* Interrupts come back as the thread had them.
LEMMA WantedStep == ASSUME SInv, [SNext]_svars PROVE Wanted'
  <1> USE SpinlockAssumption, LockFacts, CountsHold DEF SInv, Places, Flags, Placed, Masked, Wanted, Counts
  <1>1. ASSUME UNCHANGED <<running, inTrap, saved>>, \A d \in CPU : Later(d)' <=> Later(d) PROVE Wanted'
    BY Zenon, <1>1
  <1>2. ASSUME NEW c \in CPU, NEW l \in Lock, acquire(c, l) PROVE Wanted'
    <2>1. /\ ncli' = [ncli EXCEPT ![c] = ncli[c] + 1]
          /\ intena' = IF ncli[c] = 0 THEN [intena EXCEPT ![c] = eflags[c]] ELSE intena
          /\ \A d \in CPU \ {c} : eflags'[d] = eflags[d]
      BY SMTT(20), <1>2 DEF acquire, pushcli
    <2>2. \A d \in CPU : Later(d)' <=> Later(d)
      BY <2>1 DEF Later
    <2>3. QED
      BY Zenon, <1>1, <1>2, <2>2 DEF acquire
  <1>3. ASSUME NEW c \in CPU, NEW l \in Lock, xchg(c) \/ record(c) \/ release(c, l) PROVE Wanted'
    <2>1. UNCHANGED <<ncli, eflags, intena, running, inTrap, saved>>
      BY Zenon, <1>3 DEF xchg, record, release
    <2>2. QED
      BY Zenon, <1>1, <2>1 DEF Later
  <1>4. ASSUME NEW c \in CPU, unlock(c) PROVE Wanted'
    <2>1. ncli' = [ncli EXCEPT ![c] = ncli[c] - 1] /\ intena' = intena /\ ncli[c] >= 1 /\ ~ eflags[c]
      BY <1>4 DEF unlock, popcli
    <2>2. eflags' = IF ncli[c] = 1 /\ intena[c] THEN [eflags EXCEPT ![c] = TRUE] ELSE eflags
      BY Zenon, <1>4 DEF unlock, popcli
    <2>3. \A d \in CPU : Later(d)' <=> Later(d)
      BY SMTT(20), <2>1, <2>2 DEF Later
    <2>4. QED
      BY Zenon, <1>1, <1>4, <2>3 DEF unlock
  <1>5. ASSUME NEW c \in CPU, interrupt(c) PROVE Wanted'
    <2>1. PICK k \in Context : k = running[c]
      BY Zenon
    <2>2. ncli[c] = 0 /\ ncli' = ncli /\ eflags' = [eflags EXCEPT ![c] = FALSE] /\ intena' = intena
      BY <1>5 DEF interrupt
    <2>3. ~ Later(c)' /\ \A d \in CPU \ {c} : Later(d)' <=> Later(d)
      BY <2>2 DEF Later
    <2>4. inTrap'[k] /\ \A j \in Context \ {k} : inTrap'[j] = inTrap[j]
      BY Zenon, <1>5, <2>1 DEF interrupt
    <2>5. running' = running /\ saved' = saved
      BY Zenon, <1>5 DEF interrupt
    <2>6. QED
      BY <2>1, <2>3, <2>4, <2>5
  <1>6. ASSUME NEW c \in CPU, iret(c) \/ forkret(c) \/ sti(c) PROVE Wanted'
    <2>1. PICK k \in Context : k = running[c]
      BY Zenon
    <2>2. ncli[c] = 0 /\ ncli' = ncli /\ eflags' = [eflags EXCEPT ![c] = TRUE] /\ intena' = intena
      BY Zenon, <1>6 DEF iret, forkret, sti
    <2>3. Later(c)' /\ \A d \in CPU \ {c} : Later(d)' <=> Later(d)
      BY SMTT(20), <2>2 DEF Later
    <2>4. ~ inTrap'[k] /\ \A j \in Context \ {k} : inTrap'[j] = inTrap[j]
      BY SMTT(20), <1>6, <2>1 DEF iret, forkret, sti
    <2>5. running' = running /\ \A t \in Thread \ {k} : saved'[t] = saved[t]
      BY Zenon, <1>6, <2>1 DEF iret, forkret, sti
    <2>6. QED
      BY SMTT(20), <2>1, <2>3, <2>4, <2>5
  <1>7. ASSUME NEW c \in CPU, sched(c) PROVE Wanted'
    <2>1. PICK t \in Thread : t = running[c]
      BY Zenon, <1>7 DEF sched
    <2>2. ncli[c] = 1 /\ (saved[t] # "forkret" \/ inTrap[t])
      BY SMTT(20), <1>7, <2>1 DEF sched
    <2>3. intena[c] <=> ~ inTrap[t]
      BY <2>1, <2>2 DEF Later
    <2>4. saved' = [saved EXCEPT ![t] = IF intena[c] THEN "on" ELSE "off"] /\ running' = [running EXCEPT ![c] = c]
      BY Zenon, <1>7, <2>1 DEF sched
    <2>5. inTrap' = inTrap /\ \A d \in CPU : Later(d)' <=> Later(d)
      BY Zenon, <1>7 DEF sched, Later
    <2>6. QED
      BY <2>1, <2>3, <2>4, <2>5
  <1>8. ASSUME NEW c \in CPU, NEW t \in Thread, scheduler(c, t) PROVE Wanted'
    <2>1. /\ running[c] = c /\ ncli[c] = 1 /\ ncli' = ncli /\ eflags' = eflags
          /\ running' = [running EXCEPT ![c] = t] /\ UNCHANGED <<inTrap, saved>>
          /\ \A d \in CPU : running[d] # t
      BY <1>8 DEF scheduler
    <2>2. intena' = [intena EXCEPT ![c] = Restored(c, t)]
      BY Zenon, <1>8 DEF scheduler
    <2>3. \A d \in CPU \ {c} : Later(d)' <=> Later(d)
      BY SMTT(20), <2>1, <2>2 DEF Later
    <2>4. Later(c)' <=> Restored(c, t)
      BY SMTT(20), <2>1, <2>2 DEF Later
    <2>5. saved[t] # "forkret" \/ inTrap[t] => (Restored(c, t) <=> ~ inTrap[t])
      BY <2>1 DEF Restored
    <2>6. QED
      BY SMTT(20), <2>1, <2>3, <2>4, <2>5
  <1>9. CASE UNCHANGED svars
    BY Zenon, <1>1, <1>9 DEF svars, Later
  <1>10. QED
    BY Zenon, <1>2, <1>3, <1>4, <1>5, <1>6, <1>7, <1>8, <1>9 DEF SNext

\* The checks of acquire, release, popcli and sched succeed.
LEMMA PanicStep == ASSUME SInv, [SNext]_svars PROVE NoLockPanic'
  <1> USE SpinlockAssumption, LockFacts, CountsHold DEF SInv, Places, Flags, Placed, Recorded, Counts, Masked, NoLockPanic
  <1>1. ASSUME NEW c \in CPU, NEW l \in Lock, acquire(c, l) PROVE NoLockPanic'
    BY SMTT(20), <1>1 DEF acquire, holding, MayTake
  <1>2. ASSUME NEW c \in CPU, xchg(c) \/ record(c) \/ interrupt(c) \/ iret(c) \/ forkret(c) \/ sti(c) PROVE NoLockPanic'
    BY <1>2 DEF xchg, record, interrupt, iret, forkret, sti
  <1>3. ASSUME NEW c \in CPU, NEW l \in Lock, release(c, l) PROVE NoLockPanic'
    BY <1>3 DEF release, holding, Locked, Inside
  <1>4. ASSUME NEW c \in CPU, unlock(c) PROVE NoLockPanic'
    <2>1. ncli[c] >= 1 /\ ~ eflags[c]
      BY <1>4 DEF unlock
    <2>2. ~ popcliPanics(c)
      BY <2>1 DEF popcliPanics
    <2>3. QED
      BY Zenon, <1>4, <2>2 DEF unlock
  <1>5. ASSUME NEW c \in CPU, sched(c) PROVE NoLockPanic'
    <2>1. ncli[c] = 1 /\ ~ eflags[c]
      BY SMTT(20), <1>5 DEF sched
    <2>2. holding(c, Ptable)
      BY SMTT(20), <1>5 DEF sched, holding, Locked, Inside
    <2>3. QED
      BY Zenon, <1>5, <2>1, <2>2 DEF sched
  <1>6. ASSUME NEW c \in CPU, NEW t \in Thread, scheduler(c, t) PROVE NoLockPanic'
    BY SMTT(20), <1>6 DEF scheduler
  <1>7. CASE UNCHANGED svars
    BY <1>7 DEF svars
  <1>8. QED
    BY Zenon, <1>1, <1>2, <1>3, <1>4, <1>5, <1>6, <1>7 DEF SNext

-----------------------------------------------------------------------------
\* The inductive invariant holds in every state that the locks can reach.
THEOREM Invariance == SSpec => []SInv
  <1>1. SInv /\ [SNext]_svars => SInv'
    BY Zenon, PlacesStep, FlagsStep, PlacedStep, LockedStep, RecordedStep, CountedStep, MaskedStep, WantedStep,
       PanicStep DEF SInv
  <1>2. QED
    BY SpinInitInv, <1>1, PTL DEF SSpec

\* acquire and release exclude: of any number of contexts on any number of CPUs, at most one
\* is inside a lock, it is on a CPU, and lk->cpu names that CPU until release clears it.
THEOREM Exclusion == SSpec => []SpinExclusive
  <1>1. SInv => SpinExclusive
    <2> SUFFICES ASSUME SInv PROVE SpinExclusive
      OBVIOUS
    <2>1. \A k \in Context : Inside(k) # {} => \E c \in CPU : running[c] = k
      BY Zenon DEF SInv, Placed, Inside
    <2>2. ASSUME NEW c \in CPU, NEW l \in held[running[c]]
          PROVE  lk[l].locked /\ (at[running[c]] = "unlock" \/ lk[l].cpu = c)
      <3>1. running[c] \in Context /\ l \in Inside(running[c])
        BY Zenon DEF SInv, Places, Inside
      <3>2. QED
        BY Zenon, <3>1 DEF SInv, Locked, Recorded
    <2>3. QED
      BY Zenon, <2>1, <2>2 DEF SInv, Locked, SpinExclusive
  <1>2. QED
    BY Invariance, <1>1, PTL

\* The checks of acquire, release, popcli and sched never fail, and a thread that has released its
\* last lock has interrupts as it had them before the first, also after sched moved it to another CPU.
THEOREM Interrupts == SSpec => []InterruptsRight
  <1>1. SInv => InterruptsRight
    <2> SUFFICES ASSUME SInv PROVE InterruptsRight
      OBVIOUS
    <2>1. ASSUME NEW c \in CPU, running[c] \in Thread, at[running[c]] = "code", held[running[c]] = {},
                 saved[running[c]] = "forkret" => inTrap[running[c]]
          PROVE  eflags[c] = ~ inTrap[running[c]]
      <3>1. ncli[c] = 0
        BY Zenon, <2>1, CountsHold DEF Counts
      <3>2. eflags[c] <=> ~ inTrap[running[c]]
        BY Zenon, <2>1, <3>1 DEF SInv, Wanted, Later
      <3>3. eflags[c] \in BOOLEAN /\ inTrap[running[c]] \in BOOLEAN
        BY Zenon DEF SInv, Places, Flags
      <3>4. QED
        BY Zenon, <3>2, <3>3
    <2>2. QED
      BY Zenon, <2>1 DEF SInv, InterruptsRight, InterruptsMatch
  <1>2. QED
    BY Invariance, <1>1, PTL

-----------------------------------------------------------------------------
\* Sleep locks

SpinInv   == \A p \in Proc : spin = p <=> pc[p] \in HasSpin
PtableInv == \A p \in Proc : ptable = p <=> pc[p] \in HasPtable
LockInv   == HoldingExact /\ (locked => pid \in Proc)
ReleaserPending == \E q \in Proc : pc[q] = "wakeup_all"
SleepInv  == \A p \in Proc :
                /\ pc[p] \in {"sleep", "sleep_release"} => locked
                /\ pc[p] = "sleep_set" => locked \/ ReleaserPending
                /\ state[p] = "SLEEPING" => pc[p] = "sched"

IInv == TypeOK /\ SpinInv /\ PtableInv /\ LockInv /\ SleepInv /\ NoLostWakeup

\* Initially no lock is held and nobody sleeps.
LEMMA InitInv == Init => IInv
  BY Zenon, SleeplockAssumption
  DEF Init, IInv, TypeOK, Control, SpinInv, PtableInv, LockInv, HoldingExact, holdingsleep, SleepInv,
      NoLostWakeup, HasSpin, HasPtable, HasLock

\* Every step keeps the types of the variables.
LEMMA TypeStep == ASSUME TypeOK, [Next]_vars PROVE TypeOK'
  <1> USE DEF TypeOK, Control, Acquiring, Sleeping, Releasing, Goto
  <1>1. ASSUME NEW p \in Proc, Enter(p) \/ kill(p) PROVE TypeOK'
    BY <1>1 DEF Enter, kill
  <1>2. ASSUME NEW p \in Proc, AcquireSpin(p) \/ MustSleep(p) \/ Take(p) PROVE TypeOK'
    BY Zenon, <1>2 DEF AcquireSpin, MustSleep, Take
  <1>3. ASSUME NEW p \in Proc, SleepAcquire(p) \/ SleepRelease(p) \/ SleepSet(p) PROVE TypeOK'
    BY <1>3 DEF SleepAcquire, SleepRelease, SleepSet
  <1>4. ASSUME NEW p \in Proc, Resume(p) \/ WakeupRelease(p) \/ ReleaseEnter(p) \/ ReleaseAcquire(p) PROVE TypeOK'
    BY <1>4 DEF Resume, WakeupRelease, ReleaseEnter, ReleaseAcquire
  <1>5. ASSUME NEW p \in Proc, Clear(p) \/ Wakeup(p) \/ Release(p) PROVE TypeOK'
    BY Zenon, <1>5 DEF Clear, Wakeup, Release, wakeup1
  <1>6. CASE UNCHANGED vars
    BY Zenon, <1>6 DEF vars
  <1>7. QED
    BY <1>1, <1>2, <1>3, <1>4, <1>5, <1>6 DEF Next, Step

\* The spin locks are held by the processes that are where they hold them.
LEMMA SpinStep == ASSUME IInv, [Next]_vars PROVE SpinInv' /\ PtableInv'
  <1> USE SleeplockAssumption DEF IInv, TypeOK, SpinInv, PtableInv, HasSpin, HasPtable, Goto
  <1>1. ASSUME NEW p \in Proc, Enter(p) \/ kill(p) PROVE SpinInv' /\ PtableInv'
    BY <1>1 DEF Enter, kill
  <1>2. ASSUME NEW p \in Proc, AcquireSpin(p) \/ MustSleep(p) \/ Take(p) PROVE SpinInv' /\ PtableInv'
    BY <1>2 DEF AcquireSpin, MustSleep, Take
  <1>3. ASSUME NEW p \in Proc, SleepAcquire(p) \/ SleepRelease(p) \/ SleepSet(p) PROVE SpinInv' /\ PtableInv'
    BY <1>3 DEF SleepAcquire, SleepRelease, SleepSet
  <1>4. ASSUME NEW p \in Proc, Resume(p) \/ WakeupRelease(p) \/ ReleaseEnter(p) \/ ReleaseAcquire(p)
        PROVE  SpinInv' /\ PtableInv'
    BY <1>4 DEF Resume, WakeupRelease, ReleaseEnter, ReleaseAcquire
  <1>5. ASSUME NEW p \in Proc, Clear(p) \/ Wakeup(p) \/ Release(p) PROVE SpinInv' /\ PtableInv'
    BY <1>5 DEF Clear, Wakeup, Release
  <1>6. CASE UNCHANGED vars
    BY SMTT(20), <1>6 DEF vars
  <1>7. QED
    BY <1>1, <1>2, <1>3, <1>4, <1>5, <1>6 DEF Next, Step

\* lk->locked and lk->pid name the process that holds the sleep lock.
LEMMA LockStep == ASSUME IInv, [Next]_vars PROVE LockInv'
  <1> USE SleeplockAssumption DEF IInv, TypeOK, LockInv, HoldingExact, holdingsleep, HasLock, Goto
  <1>1. ASSUME NEW p \in Proc, Enter(p) \/ kill(p) PROVE LockInv'
    BY <1>1 DEF Enter, kill
  <1>2. ASSUME NEW p \in Proc, AcquireSpin(p) \/ MustSleep(p) \/ Take(p) PROVE LockInv'
    BY <1>2 DEF AcquireSpin, MustSleep, Take
  <1>3. ASSUME NEW p \in Proc, SleepAcquire(p) \/ SleepRelease(p) \/ SleepSet(p) PROVE LockInv'
    BY <1>3 DEF SleepAcquire, SleepRelease, SleepSet
  <1>4. ASSUME NEW p \in Proc, Resume(p) \/ WakeupRelease(p) \/ ReleaseEnter(p) \/ ReleaseAcquire(p) PROVE LockInv'
    BY <1>4 DEF Resume, WakeupRelease, ReleaseEnter, ReleaseAcquire
  <1>5. ASSUME NEW p \in Proc, Clear(p) \/ Wakeup(p) \/ Release(p) PROVE LockInv'
    BY <1>5 DEF Clear, Wakeup, Release
  <1>6. CASE UNCHANGED vars
    BY SMTT(20), <1>6 DEF vars
  <1>7. QED
    BY Zenon, <1>1, <1>2, <1>3, <1>4, <1>5, <1>6 DEF Next, Step

\* No step loses a wakeup.  Clear leaves a releaser pending and lk->lk keeps
\* the others from testing the lock; Wakeup needs ptable.lock, so nobody is
\* between releasing lk and being SLEEPING.
LEMMA SleepStep == ASSUME IInv, [Next]_vars PROVE SleepInv' /\ NoLostWakeup'
  <1> USE SleeplockAssumption DEF IInv, TypeOK, SleepInv, NoLostWakeup, ReleaserPending, Goto
  <1>1. ASSUME NEW p \in Proc, Enter(p) \/ kill(p) PROVE SleepInv' /\ NoLostWakeup'
    BY <1>1 DEF Enter, kill
  <1>2. ASSUME NEW p \in Proc, AcquireSpin(p) \/ MustSleep(p) \/ Take(p) PROVE SleepInv' /\ NoLostWakeup'
    BY <1>2 DEF AcquireSpin, MustSleep, Take
  <1>3. ASSUME NEW p \in Proc, SleepAcquire(p) \/ SleepRelease(p) \/ SleepSet(p)
        PROVE  SleepInv' /\ NoLostWakeup'
    BY <1>3 DEF SleepAcquire, SleepRelease, SleepSet
  <1>4. ASSUME NEW p \in Proc, Resume(p) \/ WakeupRelease(p) \/ ReleaseEnter(p) \/ ReleaseAcquire(p)
        PROVE  SleepInv' /\ NoLostWakeup'
    BY <1>4 DEF Resume, WakeupRelease, ReleaseEnter, ReleaseAcquire
  <1>5. ASSUME NEW p \in Proc, Clear(p) PROVE SleepInv' /\ NoLostWakeup'
    <2>1. spin = p /\ pc'[p] = "wakeup_all"
      BY <1>5 DEF Clear, SpinInv, HasSpin
    <2>2. \A q \in Proc : pc[q] \notin {"sleep", "sleep_release"}
      BY <1>5, <2>1 DEF SpinInv, HasSpin, Clear
    <2>3. QED
      BY <1>5, <2>1, <2>2 DEF Clear
  <1>6. ASSUME NEW p \in Proc, Wakeup(p) PROVE SleepInv' /\ NoLostWakeup'
    <2>1. \A q \in Proc : pc[q] # "sleep_set" /\ state'[q] # "SLEEPING"
      BY <1>6 DEF Wakeup, wakeup1, PtableInv, HasPtable
    <2>2. \A q \in Proc : pc[q] \in {"sleep", "sleep_release"} => locked
      OBVIOUS
    <2>3. QED
      BY <1>6, <2>1, <2>2 DEF Wakeup
  <1>7. ASSUME NEW p \in Proc, Release(p) PROVE SleepInv' /\ NoLostWakeup'
    BY <1>7 DEF Release
  <1>8. CASE UNCHANGED vars
    BY <1>8 DEF vars
  <1>9. QED
    BY Zenon, <1>1, <1>2, <1>3, <1>4, <1>5, <1>6, <1>7, <1>8 DEF Next, Step

\* The invariant holds in every reachable state.
THEOREM Invariant == Spec => []IInv
  <1>1. IInv /\ [Next]_vars => IInv'
    BY TypeStep, SpinStep, LockStep, SleepStep DEF IInv
  <1>2. QED
    BY <1>1, InitInv, PTL DEF Spec

\* Two processes never hold the sleep lock at once.
THEOREM Mutex == Spec => []MutualExclusion
  <1>1. IInv => MutualExclusion
    BY DEF IInv, LockInv, HoldingExact, holdingsleep, MutualExclusion
  <1>2. QED
    BY <1>1, Invariant, PTL

\* A process never sleeps on a free lock without a wakeup to come.
THEOREM WakeupNotLost == Spec => []NoLostWakeup
  <1>1. IInv => NoLostWakeup
    BY DEF IInv
  <1>2. QED
    BY <1>1, Invariant, PTL

\* holdingsleep answers truthfully, so the panics of bwrite, brelse and iunlock
\* only stop callers that do not hold the lock.
THEOREM HoldingsleepExact == Spec => []HoldingExact
  <1>1. IInv => HoldingExact
    BY DEF IInv, LockInv
  <1>2. QED
    BY <1>1, Invariant, PTL
=============================================================================
