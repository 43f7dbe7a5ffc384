---------------------------- MODULE LogInvariant ----------------------------
(***************************************************************************)
(* Proofs about the write-ahead log, for any number of processes, blocks   *)
(* and values and any sizes that satisfy Sized.                            *)
(*                                                                         *)
(* The inductive invariant has four parts: which processes can be where    *)
(* (PhaseInv), how much of the log the admitted operations may still use   *)
(* (SpaceInv), what the buffer cache and its pins say of the disk          *)
(* (CacheInv), and how far the commit or the recovery in progress has come *)
(* (ProgressInv).                                                          *)
(***************************************************************************)
EXTENDS Log, FiniteSetTheorems, TLAPS

ASSUME SizedAssumption == Sized

Injective(s) == \A i, j \in DOMAIN s : s[i] = s[j] => i = j

HasBuffer == {"log_write", "log_append", "panic"}

PhaseInv ==
    /\ Up => \A p \in Proc : pc[p] \notin Recovering \cup {"off"}
    /\ ~ Up => \A p \in Proc \ {InitProc} : pc[p] = "off"
    /\ CommitAlone
    /\ committing => \E p \in Proc : pc[p] \in Committing
    /\ outstanding = Cardinality(Active)
    /\ \A p \in Proc : cur[p] # Nil <=> pc[p] \in HasBuffer
    /\ NoPanic

\* The reservations the running operations have not used yet.
UnspentIn(f, w) == {t \in Proc \X (1 .. MaxOpWrites) :
                      f[t[1]] \in InOp /\ t[2] > Cardinality(w[t[1]])}
Unspent == UnspentIn(pc, wrote)

Fits(n) == \/ n <= MaxOpWrites
           \/ n + 2 * (MAXOPBLOCKS - MaxOpWrites) <= LOGSIZE

SpaceInv ==
    /\ Fits(Len(lh) + Cardinality(Unspent))
    /\ Fits(Len(dhead))
    /\ \A p \in Proc : pc[p] \in InOp => wrote[p] \subseteq Range(lh)
    /\ \A p \in Proc : pc[p] \in HasBuffer => Cardinality(wrote[p] \cup {cur[p]}) <= MaxOpWrites

CacheInv ==
    /\ \A b \in Block : b \notin dirty /\ ~ Locked(b) => cached[b] \in {Nil, disk[b]}
    /\ \A b \in dirty : cached[b] # Nil
    /\ \A p \in Proc : pc[p] \in HasBuffer => cached[cur[p]] # Nil

Installed(n) == \A i \in 1 .. n : disk[lh[i]] = dlog[i]
Logged(S) == \A i \in S : cached[lh[i]] = dlog[i]

ProgressInv ==
    /\ Injective(lh) /\ Injective(dhead)
    /\ Up /\ (\A p \in Proc : pc[p] \notin {"install_trans", "clear_head"})
         => dhead = << >> /\ dirty = Range(lh)
    /\ Up /\ outstanding = 0 /\ ~ committing => lh = << >>
    /\ \A p \in Proc :
         /\ pc[p] = "write_log" => tail[p] < Len(lh) /\ Logged(1 .. tail[p])
         /\ pc[p] = "write_head" => lh # << >> /\ Logged(1 .. Len(lh))
         /\ pc[p] = "install_trans" =>
              /\ dhead = lh /\ tail[p] < Len(lh)
              /\ dirty = {lh[i] : i \in (tail[p] + 1) .. Len(lh)}
              /\ Installed(tail[p]) /\ Logged((tail[p] + 1) .. Len(lh))
         /\ pc[p] = "clear_head" => dhead = lh /\ dirty = {} /\ Installed(Len(lh))
         /\ pc[p] = "commit_done" => lh = << >>
    /\ ~ Up => /\ dirty = {} /\ outstanding = 0 /\ ~ committing
               /\ pc[InitProc] = "read_head" => lh = << >>
               /\ pc[InitProc] = "recover_trans" =>
                    lh = dhead /\ tail[InitProc] < Len(lh) /\ Installed(tail[InitProc])
               /\ pc[InitProc] = "recover_clear" => lh = dhead /\ Installed(Len(lh))

IInv == TypeOK /\ PhaseInv /\ SpaceInv /\ CacheInv /\ ProgressInv

-----------------------------------------------------------------------------
\* The reservations are finitely many, and at most MaxOpWrites per operation
\* that holds one.
LEMMA UnspentBound ==
    ASSUME NEW f, NEW w, NEW S \in SUBSET Proc,
           \A p \in Proc : f[p] \in InOp => p \in S
    PROVE  /\ IsFiniteSet(UnspentIn(f, w))
           /\ Cardinality(UnspentIn(f, w)) \in Nat
           /\ Cardinality(UnspentIn(f, w)) <= Cardinality(S) * MaxOpWrites
  <1>1. IsFiniteSet(S)
    BY FS_Subset, LogAssumption
  <1>2. IsFiniteSet(1 .. MaxOpWrites) /\ Cardinality(1 .. MaxOpWrites) = MaxOpWrites
    BY FS_Interval, LogAssumption
  <1>3. /\ IsFiniteSet(S \X (1 .. MaxOpWrites))
        /\ Cardinality(S \X (1 .. MaxOpWrites)) = Cardinality(S) * MaxOpWrites
    BY Zenon, <1>1, <1>2, FS_Product
  <1>4. UnspentIn(f, w) \in SUBSET (S \X (1 .. MaxOpWrites))
    BY DEF UnspentIn
  <1>5. IsFiniteSet(UnspentIn(f, w)) /\ Cardinality(UnspentIn(f, w)) <= Cardinality(S) * MaxOpWrites
    BY <1>3, <1>4, FS_Subset
  <1>6. QED
    BY <1>5, FS_CardinalityType

\* A smaller set of reservations needs no more space.
LEMMA UnspentMonotone ==
    ASSUME NEW f, NEW w, NEW g, NEW u, UnspentIn(g, u) \subseteq UnspentIn(f, w)
    PROVE  Cardinality(UnspentIn(g, u)) <= Cardinality(UnspentIn(f, w))
  BY UnspentBound, FS_Subset

\* Sized leaves room for one more block in the log, whatever is in it.
LEMMA FitsBound ==
    ASSUME NEW n \in Nat, NEW k \in Nat, Fits(n + k)
    PROVE  n + 2 <= NLOG
  BY LogAssumption, SizedAssumption DEF Fits, Sized

\* The header never has more entries than the log has blocks, less one.
LEMMA LenBound ==
    ASSUME IInv
    PROVE  /\ Len(lh) \in Nat /\ Len(lh) + 2 <= NLOG
           /\ Len(dhead) \in Nat /\ Len(dhead) + 2 <= NLOG
  <1>1. Len(lh) \in Nat /\ Len(dhead) \in Nat
    BY DEF IInv, TypeOK
  <1>2. Cardinality(Unspent) \in Nat
    BY UnspentBound DEF Unspent
  <1>3. Len(lh) + 2 <= NLOG
    BY <1>1, <1>2, FitsBound DEF IInv, SpaceInv
  <1>4. Fits(Len(dhead) + 0)
    BY <1>1 DEF IInv, SpaceInv
  <1>5. Len(dhead) + 2 <= NLOG
    BY <1>1, <1>4, FitsBound
  <1>6. QED
    BY <1>1, <1>3, <1>5

\* Outside the operations, nothing is reserved and nothing is locked.
LEMMA Quiet ==
    ASSUME IInv, Active = {}
    PROVE  /\ outstanding = 0
           /\ \A p \in Proc : cur[p] = Nil
           /\ \A b \in Block : ~ Locked(b)
  <1>1. outstanding = 0
    BY FS_EmptySet DEF IInv, PhaseInv
  <1>2. \A p \in Proc : cur[p] = Nil
    BY DEF IInv, PhaseInv, Active, InOp, HasBuffer
  <1>3. QED
    BY <1>1, <1>2, LogAssumption DEF Locked

-----------------------------------------------------------------------------
\* The facts about the unspent reservations that a step needs when it does
\* not change which processes are in an operation.
LEMMA SameActive ==
    ASSUME TypeOK, TypeOK', wrote' = wrote,
           \A p \in Proc : pc'[p] \in InOp <=> pc[p] \in InOp
    PROVE  Active' = Active /\ Unspent' = Unspent
  BY DEF Active, Unspent, UnspentIn

\* The machine boots in a state that satisfies the invariant.
LEMMA InitInv == Init => IInv
  <1> SUFFICES ASSUME Init PROVE IInv
    OBVIOUS
  <1>1. TypeOK
    <2>1. << >> \in Seq(Block)
      OBVIOUS
    <2>2. pc \in [Proc -> Control]
      BY DEF Init, Control, Recovering
    <2>3. QED
      BY Zenon, <2>1, <2>2, LogAssumption DEF Init, TypeOK
  <1>2. Active = {} /\ Unspent = {}
    BY LogAssumption DEF Init, Active, Unspent, UnspentIn, InOp
  <1>3. PhaseInv
    BY <1>2, FS_EmptySet, LogAssumption
    DEF Init, PhaseInv, Up, Recovering, CommitAlone, Committing, NoPanic, HasBuffer
  <1>4. SpaceInv
    BY <1>2, FS_EmptySet, LogAssumption DEF Init, SpaceInv, Fits, HasBuffer, InOp
  <1>5. CacheInv
    BY LogAssumption DEF Init, CacheInv, HasBuffer
  <1>6. ProgressInv
    BY LogAssumption DEF Init, ProgressInv, Up, Recovering, Injective, Installed, Logged
  <1>7. QED
    BY <1>1, <1>3, <1>4, <1>5, <1>6 DEF IInv

\* begin_op going to sleep preserves the invariant.
LEMMA SleepInv ==
    ASSUME IInv, NEW p \in Proc, begin_op_sleep(p)
    PROVE  IInv'
  <1> USE DEF IInv, begin_op_sleep, onDisk, inLog, inCache
  <1>1. TypeOK'
    BY DEF TypeOK, Control
  <1>2. Active' = Active /\ Unspent' = Unspent
    BY <1>1, SameActive DEF TypeOK, InOp
  <1>3. PhaseInv'
    BY <1>2, LogAssumption DEF TypeOK, PhaseInv, Up, Recovering, CommitAlone, Committing, NoPanic, HasBuffer
  <1>4. SpaceInv'
    BY Zenon, <1>2 DEF TypeOK, SpaceInv, Fits, HasBuffer, InOp
  <1>5. CacheInv'
    BY DEF TypeOK, CacheInv, HasBuffer, Locked
  <1>6. ProgressInv'
    BY LogAssumption DEF TypeOK, PhaseInv, ProgressInv, Up, Recovering, Injective, Installed, Logged
  <1>7. QED
    BY <1>1, <1>3, <1>4, <1>5, <1>6

\* log_write's unlocked tests preserve the invariant and never panic.
LEMMA LogWriteInv ==
    ASSUME IInv, NEW p \in Proc, log_write(p)
    PROVE  IInv'
  <1> USE DEF IInv, log_write, onDisk, inLog, inCache
  <1>1. TypeOK'
    BY DEF TypeOK, Control, InOp
  <1>2. Active' = Active /\ Unspent' = Unspent
    BY <1>1, SameActive DEF TypeOK, InOp
  <1>3. pc' = [pc EXCEPT ![p] = "log_append"]
    <2>1. Active # {} /\ IsFiniteSet(Active) /\ Cardinality(Active) # 0
      BY FS_EmptySet, FS_Subset, LogAssumption DEF Active, InOp
    <2>2. Len(lh) \in Nat /\ Len(lh) + 2 <= NLOG
      BY LenBound
    <2>3. ~ (Len(lh) >= LOGSIZE) /\ ~ (Len(lh) >= NLOG - 1)
      BY <2>2, LogAssumption, SizedAssumption DEF Sized
    <2>4. ~ (outstanding < 1)
      BY <2>1 DEF TypeOK, PhaseInv
    <2>5. QED
      BY Zenon, <2>3, <2>4
  <1>4. PhaseInv'
    BY <1>2, <1>3, LogAssumption DEF TypeOK, PhaseInv, Up, Recovering, CommitAlone, Committing, NoPanic, HasBuffer
  <1>5. SpaceInv'
    BY <1>2, <1>3 DEF TypeOK, SpaceInv, Fits, HasBuffer, InOp
  <1>6. CacheInv'
    BY <1>3 DEF TypeOK, CacheInv, HasBuffer, Locked
  <1>7. ProgressInv'
    BY <1>3, LogAssumption DEF TypeOK, PhaseInv, ProgressInv, Up, Recovering, Injective, Installed, Logged
  <1>8. QED
    BY <1>1, <1>4, <1>5, <1>6, <1>7

\* bget recycling an unpinned buffer preserves the invariant.
LEMMA EvictInv ==
    ASSUME IInv, NEW b \in Block, evict(b)
    PROVE  IInv'
  <1> USE DEF IInv, evict, onDisk, inLog
  <1>1. TypeOK'
    BY DEF TypeOK
  <1>2. Active' = Active /\ Unspent' = Unspent
    BY <1>1, SameActive DEF TypeOK
  <1>3. PhaseInv'
    BY <1>2 DEF PhaseInv, Up, CommitAlone, NoPanic
  <1>4. SpaceInv'
    BY <1>2 DEF SpaceInv
  <1>5. CacheInv'
    BY DEF TypeOK, CacheInv, HasBuffer, Locked
  <1>6. ProgressInv'
    <2>1. \A p \in Proc, i \in DOMAIN lh :
            \/ pc[p] \in {"write_log", "write_head"}
            \/ pc[p] = "install_trans" /\ i > tail[p]
            => lh[i] \in dirty
      <3> SUFFICES ASSUME NEW p \in Proc, NEW i \in DOMAIN lh,
                          \/ pc[p] \in {"write_log", "write_head"}
                          \/ pc[p] = "install_trans" /\ i > tail[p]
                   PROVE  lh[i] \in dirty
        OBVIOUS
      <3>1. CASE pc[p] = "install_trans"
        <4>1. i \in (tail[p] + 1) .. Len(lh)
          BY <3>1 DEF TypeOK
        <4>2. dirty = {lh[j] : j \in (tail[p] + 1) .. Len(lh)}
          BY <3>1 DEF ProgressInv
        <4>3. QED
          BY <4>1, <4>2
      <3>2. CASE pc[p] \in {"write_log", "write_head"}
        <4>1. \A q \in Proc : pc[q] \notin {"install_trans", "clear_head"}
          BY <3>2 DEF PhaseInv, CommitAlone, Committing
        <4>2. Up
          BY <3>2 DEF PhaseInv, Up, Recovering
        <4>3. QED
          BY <4>1, <4>2 DEF ProgressInv, Range
      <3>3. QED
        BY <3>1, <3>2
    <2>2. \A p \in Proc, i \in DOMAIN lh :
            \/ pc[p] \in {"write_log", "write_head"}
            \/ pc[p] = "install_trans" /\ i > tail[p]
            => cached'[lh[i]] = cached[lh[i]]
      BY <2>1 DEF TypeOK
    <2>3. QED
      BY <2>2 DEF TypeOK, ProgressInv, Up, Injective, Installed, Logged
  <1>7. QED
    BY <1>1, <1>3, <1>4, <1>5, <1>6

\* A change to a locked buffer preserves the invariant.
LEMMA ModifyInv ==
    ASSUME IInv, NEW p \in Proc, NEW b \in Block, NEW v \in Value, modify(p, b, v)
    PROVE  IInv'
  <1> USE DEF IInv, modify, onDisk, inLog
  <1>1. TypeOK'
    BY DEF TypeOK, Control, InOp
  <1>2. Active' = Active /\ Unspent' = Unspent
    BY Zenon, <1>1, SameActive DEF TypeOK, InOp
  <1>3. p \in Active /\ Up /\ \A q \in Proc : pc[q] \notin Committing
    BY Zenon, LogAssumption DEF TypeOK, PhaseInv, Up, Recovering, CommitAlone, Active, InOp
  <1>4. PhaseInv'
    BY <1>2, <1>3, LogAssumption
    DEF TypeOK, PhaseInv, Up, Recovering, CommitAlone, Committing, NoPanic, HasBuffer
  <1>5. SpaceInv'
    BY Zenon, <1>2 DEF TypeOK, SpaceInv, Fits, HasBuffer, InOp
  <1>6. CacheInv'
    <2>1. v # Nil /\ cur[p] = Nil /\ cur'[p] = b
      BY Zenon, LogAssumption DEF TypeOK, PhaseInv, HasBuffer
    <2>2. \A c \in Block : ~ Locked(c)' => ~ Locked(c) /\ c # b
      BY <2>1, LogAssumption DEF TypeOK, Locked
    <2>3. \A c \in Block : c \notin dirty' /\ ~ Locked(c)' => cached'[c] \in {Nil, disk'[c]}
      BY <2>2 DEF TypeOK, CacheInv
    <2>4. \A c \in dirty' : cached'[c] # Nil
      BY <2>1 DEF TypeOK, CacheInv
    <2>5. \A q \in Proc : pc'[q] \in HasBuffer => cached'[cur'[q]] # Nil
      BY <2>1 DEF TypeOK, CacheInv, HasBuffer
    <2>6. QED
      BY Zenon, <2>3, <2>4, <2>5 DEF CacheInv
  <1>7. ProgressInv'
    <2>1. Up' /\ \A q \in Proc : pc'[q] \notin Committing
      BY <1>3, LogAssumption DEF TypeOK, Up, Recovering, Committing
    <2>2. QED
      BY <1>3, <2>1 DEF TypeOK, ProgressInv, Committing, Injective
  <1>8. QED
    BY <1>1, <1>4, <1>5, <1>6, <1>7

\* log_write's critical section preserves the invariant: a block that is
\* new in the log spends a reservation of the operation that writes it.
LEMMA LogAppendInv ==
    ASSUME IInv, NEW p \in Proc, log_append(p)
    PROVE  IInv'
  <1> DEFINE b == cur[p]
  <1> USE DEF IInv, Pin, onDisk
  <1>1. b \in Block /\ b # Nil
    BY DEF log_append, TypeOK, PhaseInv, HasBuffer
  <1>2. TypeOK'
    BY <1>1 DEF log_append, TypeOK, Control, InOp
  <1>3. Active' = Active
    BY DEF log_append, TypeOK, Active, InOp
  <1>4. p \in Active /\ Up /\ Up' /\ \A q \in Proc : pc[q] \notin Committing /\ pc'[q] \notin Committing
    BY Zenon, LogAssumption DEF log_append, TypeOK, PhaseInv, Up, Recovering, CommitAlone, Committing, Active, InOp
  <1>5. PhaseInv'
    BY <1>3, <1>4
    DEF log_append, TypeOK, PhaseInv, Recovering, CommitAlone, NoPanic, HasBuffer
  <1>6. Range(lh') = Range(lh) \cup {b}
    <2>1. CASE b \in Range(lh)
      BY <2>1 DEF log_append
    <2>2. CASE b \notin Range(lh)
      <3>1. lh' = Append(lh, b)
        BY <2>2 DEF log_append
      <3>2. /\ DOMAIN lh' = 1 .. (Len(lh) + 1) /\ DOMAIN lh = 1 .. Len(lh) /\ Len(lh) \in Nat
            /\ \A j \in 1 .. Len(lh) : lh'[j] = lh[j]
            /\ lh'[Len(lh) + 1] = b
        BY <1>1, <3>1 DEF TypeOK
      <3>3. QED
        BY <3>2 DEF Range
    <2>3. QED
      BY <2>1, <2>2
  <1>7. SpaceInv'
    <2>1. \A q \in Proc : pc'[q] \in InOp => wrote'[q] \subseteq Range(lh')
      BY <1>6 DEF log_append, TypeOK, SpaceInv, InOp
    <2>2. \A q \in Proc : pc'[q] \in HasBuffer => Cardinality(wrote'[q] \cup {cur'[q]}) <= MaxOpWrites
      BY DEF log_append, TypeOK, SpaceInv, HasBuffer
    <2>3. /\ IsFiniteSet(wrote[p]) /\ Cardinality(wrote[p]) \in Nat
          /\ Cardinality(wrote[p] \cup {b}) =
               IF b \in wrote[p] THEN Cardinality(wrote[p]) ELSE Cardinality(wrote[p]) + 1
          /\ Cardinality(wrote[p] \cup {b}) <= MaxOpWrites
      <3>1. IsFiniteSet(wrote[p])
        BY FS_Subset, LogAssumption DEF TypeOK
      <3>2. QED
        BY Zenon, <3>1, FS_AddElement, FS_CardinalityType DEF log_append, SpaceInv, HasBuffer
    <2>4. Fits(Len(lh') + Cardinality(Unspent'))
      <3>1. /\ \A q \in Proc : pc'[q] \in InOp <=> pc[q] \in InOp
            /\ \A q \in Proc \ {p} : wrote'[q] = wrote[q]
            /\ wrote'[p] = wrote[p] \cup {b}
            /\ pc[p] \in InOp
        BY DEF log_append, TypeOK, InOp
      <3>2. Unspent' \subseteq Unspent
        <4> SUFFICES ASSUME NEW t \in Unspent' PROVE t \in Unspent
          OBVIOUS
        <4>1. /\ t \in Proc \X (1 .. MaxOpWrites)
              /\ pc'[t[1]] \in InOp /\ t[2] > Cardinality(wrote'[t[1]])
          BY DEF Unspent, UnspentIn
        <4>2. Cardinality(wrote[p]) <= Cardinality(wrote'[p]) /\ Cardinality(wrote'[p]) \in Nat
          BY <2>3, <3>1
        <4>3. t[2] > Cardinality(wrote[t[1]])
          <5>1. CASE t[1] = p
            BY <2>3, <4>1, <4>2, <5>1, LogAssumption
          <5>2. CASE t[1] # p
            BY <3>1, <4>1, <5>2
          <5>3. QED
            BY <5>1, <5>2
        <4>4. QED
          BY <3>1, <4>1, <4>3 DEF Unspent, UnspentIn
      <3>3. /\ Cardinality(Unspent') <= Cardinality(Unspent)
            /\ Cardinality(Unspent') \in Nat /\ Cardinality(Unspent) \in Nat
            /\ Len(lh) \in Nat
        <4>1. Cardinality(Unspent) \in Nat /\ Cardinality(Unspent') \in Nat
          BY UnspentBound DEF Unspent
        <4>2. Cardinality(Unspent') <= Cardinality(Unspent)
          BY <3>2, UnspentMonotone DEF Unspent
        <4>3. QED
          BY <4>1, <4>2 DEF TypeOK
      <3>4. CASE b \in Range(lh)
        <4>1. lh' = lh
          BY <3>4 DEF log_append
        <4>2. QED
          BY <3>3, <4>1, LogAssumption DEF SpaceInv, Fits
      <3>5. CASE b \notin Range(lh)
        <4>1. Len(lh') = Len(lh) + 1
          BY <1>1, <3>5 DEF log_append, TypeOK
        <4>2. b \notin wrote[p]
          BY Zenon, <3>1, <3>5 DEF SpaceInv
        <4> DEFINE t == <<p, Cardinality(wrote[p]) + 1>>
        <4>3. t \in Unspent
          BY <2>3, <3>1, <4>2, LogAssumption DEF Unspent, UnspentIn
        <4>4. t \notin Unspent'
          <5>1. Cardinality(wrote'[p]) = Cardinality(wrote[p]) + 1
            BY <2>3, <3>1, <4>2
          <5>2. ASSUME t \in Unspent' PROVE Cardinality(wrote[p]) + 1 > Cardinality(wrote'[p])
            BY <5>2 DEF Unspent, UnspentIn
          <5>3. QED
            BY <2>3, <5>1, <5>2
        <4>5. IsFiniteSet(Unspent) /\ Cardinality(Unspent \ {t}) = Cardinality(Unspent) - 1
          <5>1. IsFiniteSet(Unspent)
            BY UnspentBound DEF Unspent
          <5>2. QED
            BY Zenon, <4>3, <5>1, FS_RemoveElement
        <4>6. Unspent' \in SUBSET (Unspent \ {t}) /\ IsFiniteSet(Unspent \ {t})
          BY <3>2, <4>4, <4>5, FS_RemoveElement
        <4>7. Cardinality(Unspent') <= Cardinality(Unspent) - 1
          BY <4>5, <4>6, FS_Subset
        <4>8. QED
          BY <3>3, <4>1, <4>7, LogAssumption DEF SpaceInv, Fits
      <3>6. QED
        BY <3>4, <3>5
    <2>5. Fits(Len(dhead))'
      BY DEF log_append, SpaceInv, Fits
    <2>6. QED
      BY <2>1, <2>2, <2>4, <2>5 DEF SpaceInv, Fits
  <1>8. CacheInv'
    BY <1>1, LogAssumption DEF log_append, TypeOK, CacheInv, HasBuffer, Locked
  <1>9. ProgressInv'
    <2>1. Injective(lh')
      <3>1. CASE b \in Range(lh)
        BY <3>1 DEF log_append, ProgressInv
      <3>2. CASE b \notin Range(lh)
        BY <1>1, <3>2 DEF log_append, ProgressInv, Injective, Range, TypeOK
      <3>3. QED
        BY <3>1, <3>2
    <2>2. outstanding' # 0
      <3>1. IsFiniteSet(Active)
        BY FS_Subset, LogAssumption DEF Active
      <3>2. QED
        BY <1>4, <3>1, FS_EmptySet DEF log_append, PhaseInv
    <2>3. dhead' = << >> /\ dirty' = Range(lh')
      BY <1>4, <1>6 DEF log_append, ProgressInv, Committing
    <2>4. QED
      BY Zenon, <1>4, <2>1, <2>2, <2>3 DEF log_append, ProgressInv, Committing, Injective
  <1>10. QED
    BY <1>2, <1>5, <1>7, <1>8, <1>9

\* Admitting an operation preserves the invariant: the reservations of all
\* the running operations fit in what is left of the log.
LEMMA BeginInv ==
    ASSUME IInv, NEW p \in Proc, begin_op(p)
    PROVE  IInv'
  <1> USE DEF IInv, onDisk, inCache
  <1>1. TypeOK'
    BY DEF begin_op, TypeOK, Control, InOp
  <1>2. p \notin Active /\ Active' = Active \cup {p}
    BY DEF begin_op, TypeOK, Active, InOp
  <1>3. /\ Cardinality(Active) \in Nat /\ outstanding = Cardinality(Active)
        /\ Cardinality(Active') = outstanding + 1
    <2>1. IsFiniteSet(Active)
      BY FS_Subset, LogAssumption DEF Active
    <2>2. QED
      BY <1>2, <2>1, FS_AddElement, FS_CardinalityType DEF PhaseInv
  <1>4. Up /\ Up' /\ ~ committing /\ \A q \in Proc : pc[q] \notin Committing /\ pc'[q] \notin Committing
    BY Zenon, LogAssumption DEF begin_op, MustWait, TypeOK, PhaseInv, Up, Recovering, CommitAlone, Committing
  <1>5. PhaseInv'
    BY <1>3, <1>4
    DEF begin_op, TypeOK, PhaseInv, Recovering, CommitAlone, NoPanic, HasBuffer
  <1>6. SpaceInv'
    <2>1. /\ Cardinality(Unspent') \in Nat
          /\ Cardinality(Unspent') <= (outstanding + 1) * MaxOpWrites
      <3>1. Active' \in SUBSET Proc /\ \A q \in Proc : pc'[q] \in InOp => q \in Active'
        BY DEF Active
      <3>2. QED
        BY <1>3, <3>1, UnspentBound DEF Unspent
    <2>2. Len(lh) \in Nat /\ Len(lh) + (outstanding + 1) * MAXOPBLOCKS <= LOGSIZE
      BY LogAssumption DEF begin_op, MustWait, TypeOK
    <2>3. Fits(Len(lh') + Cardinality(Unspent'))
      <3>1. CASE outstanding = 0
        <4>1. lh = << >> /\ lh' = << >>
          BY Zenon, <1>4, <3>1 DEF begin_op, ProgressInv
        <4>2. QED
          BY <2>1, <3>1, <4>1, LogAssumption DEF Fits
      <3>2. CASE outstanding # 0
        <4> DEFINE k == outstanding + 1
                   d == MAXOPBLOCKS - MaxOpWrites
        <4>1. k \in Nat /\ k >= 2 /\ d \in Nat
          BY <3>2, LogAssumption, SizedAssumption DEF TypeOK, Sized
        <4>2. k * MAXOPBLOCKS = k * MaxOpWrites + k * d
          BY <4>1, LogAssumption
        <4>3. k * d >= 2 * d
          BY <4>1
        <4>4. k * MaxOpWrites \in Nat /\ k * d \in Nat
          BY <4>1, LogAssumption
        <4>5. Len(lh) + Cardinality(Unspent') + 2 * d <= LOGSIZE
          <5> HIDE DEF k, d
          <5>1. Cardinality(Unspent') <= k * MaxOpWrites /\ Len(lh) + k * MAXOPBLOCKS <= LOGSIZE
            BY <2>1, <2>2 DEF k
          <5>2. QED
            BY <2>1, <2>2, <4>1, <4>2, <4>3, <4>4, <5>1, LogAssumption
        <4>6. QED
          BY <4>5 DEF Fits, begin_op
      <3>3. QED
        BY <3>1, <3>2
    <2>4. \A q \in Proc : pc'[q] \in InOp => wrote'[q] \subseteq Range(lh')
      BY DEF begin_op, TypeOK, SpaceInv, InOp
    <2>5. \A q \in Proc : pc'[q] \in HasBuffer => Cardinality(wrote'[q] \cup {cur'[q]}) <= MaxOpWrites
      BY Zenon DEF begin_op, TypeOK, SpaceInv, HasBuffer
    <2>6. QED
      BY Zenon, <2>3, <2>4, <2>5 DEF SpaceInv, Fits, begin_op
  <1>7. CacheInv'
    BY DEF begin_op, TypeOK, CacheInv, HasBuffer, Locked
  <1>8. ProgressInv'
    <2>1. outstanding' # 0 /\ UNCHANGED <<lh, dhead, dirty>>
      BY <1>3 DEF begin_op
    <2>2. \A q \in Proc : /\ pc[q] \notin {"write_log", "write_head", "install_trans", "clear_head", "commit_done"}
                          /\ pc'[q] \notin {"write_log", "write_head", "install_trans", "clear_head", "commit_done"}
      BY Zenon, <1>4 DEF Committing
    <2>3. \A q \in Proc : pc[q] \notin {"install_trans", "clear_head"}
      BY <2>2
    <2>4. Injective(lh') /\ Injective(dhead') /\ dhead' = << >> /\ dirty' = Range(lh')
      BY Zenon, <1>4, <2>1, <2>3 DEF ProgressInv
    <2>5. QED
      BY Zenon, <1>4, <2>1, <2>2, <2>4 DEF ProgressInv
  <1>9. QED
    BY <1>1, <1>5, <1>6, <1>7, <1>8

\* The first critical section of end_op preserves the invariant.
LEMMA EndInv ==
    ASSUME IInv, NEW p \in Proc, end_op(p)
    PROVE  IInv'
  <1> USE DEF IInv, onDisk, inCache
  <1>1. p \in Active /\ Up /\ ~ committing /\ \A q \in Proc : pc[q] \notin Committing
    BY Zenon, LogAssumption DEF end_op, TypeOK, PhaseInv, Up, Recovering, CommitAlone, Active, InOp
  <1>2. Active' = Active \ {p} /\ pc'[p] \in {"user", "write_log", "commit_done"}
    BY <1>1 DEF end_op, TypeOK, Active, InOp, Wakeup
  <1>3. /\ Cardinality(Active) \in Nat \ {0} /\ outstanding = Cardinality(Active)
        /\ Cardinality(Active') = outstanding - 1 /\ IsFiniteSet(Active')
    <2>1. IsFiniteSet(Active)
      BY FS_Subset, LogAssumption DEF Active
    <2>2. Cardinality(Active) \in Nat \ {0}
      BY <1>1, <2>1, FS_EmptySet, FS_CardinalityType
    <2>3. QED
      BY <1>1, <1>2, <2>1, <2>2, FS_RemoveElement DEF PhaseInv
  <1>4. TypeOK'
    <2>1. outstanding' \in Nat
      BY <1>3 DEF end_op
    <2>2. pc' \in [Proc -> Control]
      <3>1. CASE outstanding = 1
        BY Zenon, <1>1, <3>1 DEF end_op, TypeOK, Control, Committing
      <3>2. CASE outstanding # 1
        BY <1>1, <3>2 DEF end_op, TypeOK, Control, Wakeup
      <3>3. QED
        BY <3>1, <3>2
    <2>3. committing' \in BOOLEAN /\ tail' \in [Proc -> Nat]
      <3>1. CASE outstanding = 1
        BY <1>1, <3>1 DEF end_op, TypeOK
      <3>2. CASE outstanding # 1
        BY <1>1, <3>2 DEF end_op, TypeOK
      <3>3. QED
        BY <3>1, <3>2
    <2>4. QED
      BY <2>1, <2>2, <2>3 DEF end_op, TypeOK
  <1>5. Up' /\ \A q \in Proc \ {p} : pc'[q] \in {pc[q], "begin_op"} /\ (pc'[q] # pc[q] => pc[q] = "sleep")
    BY ZenonT(40), <1>1, LogAssumption DEF end_op, TypeOK, Up, Recovering, Wakeup
  <1>6. outstanding = 1 => Active' = {}
    BY <1>3, FS_EmptySet
  <1>7. PhaseInv'
    <2>1. /\ pc'[p] \in Committing => committing' /\ Active' = {}
          /\ committing' => pc'[p] \in Committing
      BY <1>1, <1>6 DEF end_op, TypeOK, Committing, Wakeup
    <2>2. outstanding' = Cardinality(Active')
      BY <1>3 DEF end_op
    <2>3. cur' = cur
      BY DEF end_op
    <2>4. \A q \in Proc : cur'[q] # Nil <=> pc'[q] \in HasBuffer
      BY <1>2, <1>5, <2>3 DEF end_op, PhaseInv, HasBuffer
    <2>5. \A q \in Proc : pc'[q] \notin Recovering \cup {"off", "panic"}
      BY <1>1, <1>2, <1>5 DEF PhaseInv, Recovering, NoPanic
    <2>6. \A q \in Proc \ {p} : pc'[q] \notin Committing
      BY <1>1, <1>5 DEF Committing
    <2>7. QED
      BY <1>5, <2>1, <2>2, <2>4, <2>5, <2>6 DEF PhaseInv, CommitAlone, NoPanic
  <1>8. SpaceInv'
    <2>1. Unspent' \subseteq Unspent
      BY <1>2, <1>5 DEF end_op, Unspent, UnspentIn, InOp
    <2>2. /\ Cardinality(Unspent') <= Cardinality(Unspent)
          /\ Cardinality(Unspent') \in Nat /\ Cardinality(Unspent) \in Nat
      BY <2>1, UnspentBound, UnspentMonotone DEF Unspent
    <2>3. Fits(Len(lh') + Cardinality(Unspent'))
      BY <2>2, LogAssumption DEF end_op, TypeOK, SpaceInv, Fits
    <2>4. QED
      BY ZenonT(40), <1>2, <1>5, <2>3 DEF end_op, TypeOK, SpaceInv, Fits, HasBuffer, InOp
  <1>9. CacheInv'
    BY <1>2, <1>5 DEF end_op, TypeOK, CacheInv, HasBuffer, Locked
  <1>10. ProgressInv'
    <2>1. dhead' = << >> /\ dirty' = Range(lh') /\ lh' = lh
      BY <1>1 DEF end_op, ProgressInv, Committing
    <2>2. outstanding' = 0 => committing'
      BY <1>1, <1>3 DEF end_op
    <2>3. /\ pc'[p] = "write_log" => tail'[p] < Len(lh) /\ tail'[p] = 0
          /\ pc'[p] = "commit_done" => lh = << >>
      <3>1. lh # << >> => 0 < Len(lh)
        BY DEF TypeOK
      <3>2. CASE outstanding = 1
        BY <1>1, <3>1, <3>2 DEF end_op, NothingToCommit, TypeOK
      <3>3. CASE outstanding # 1
        BY <1>1, <3>3 DEF end_op, TypeOK, Wakeup
      <3>4. QED
        BY <3>2, <3>3
    <2>4. \A q \in Proc \ {p} : pc'[q] \notin Committing
      BY <1>1, <1>5 DEF Committing
    <2>5. Injective(lh)' /\ Injective(dhead)'
      BY <2>1 DEF Injective, ProgressInv
    <2> HIDE DEF IInv
    <2>6. QED
      BY <1>2, <1>5, <2>1, <2>2, <2>3, <2>4, <2>5 DEF ProgressInv, Committing, Logged
  <1>11. QED
    BY <1>4, <1>7, <1>8, <1>9, <1>10
=============================================================================
