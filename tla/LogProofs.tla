----------------------------- MODULE LogProofs -----------------------------
(***************************************************************************)
(* The steps of a commit, of a recovery and a crash preserve the invariant *)
(* of LogInvariant, which therefore always holds; what follows from it,    *)
(* and that the log implements the atomic disk of module AtomicDisk.       *)
(***************************************************************************)
EXTENDS LogInvariant

\* A crash preserves the invariant: it only says anything of the disk.
LEMMA CrashInv ==
    ASSUME IInv, crash
    PROVE  IInv'
  <1> USE DEF IInv, crash, onDisk
  <1>1. TypeOK'
    <2>1. << >> \in Seq(Block)
      OBVIOUS
    <2>2. pc' \in [Proc -> Control]
      BY DEF Control, Recovering
    <2>3. QED
      BY Zenon, <2>1, <2>2, LogAssumption DEF TypeOK
  <1>2. Active' = {} /\ Unspent' = {}
    BY LogAssumption DEF Active, Unspent, UnspentIn, InOp
  <1>3. PhaseInv'
    BY <1>2, FS_EmptySet, LogAssumption
    DEF PhaseInv, Up, Recovering, CommitAlone, Committing, NoPanic, HasBuffer
  <1>4. SpaceInv'
    BY <1>2, FS_EmptySet, LogAssumption DEF SpaceInv, Fits, HasBuffer, InOp
  <1>5. CacheInv'
    BY LogAssumption DEF CacheInv, HasBuffer
  <1>6. ProgressInv'
    BY LogAssumption DEF ProgressInv, Up, Recovering, Injective, Installed, Logged
  <1>7. QED
    BY <1>1, <1>3, <1>4, <1>5, <1>6

\* read_head preserves the invariant.
LEMMA ReadHeadInv ==
    ASSUME IInv, NEW p \in Proc, read_head(p)
    PROVE  IInv'
  <1> USE DEF IInv, read_head, onDisk, inCache
  <1>1. TypeOK'
    BY DEF TypeOK, Control, Recovering
  <1>2. p = InitProc /\ ~ Up /\ ~ Up'
    BY LogAssumption DEF TypeOK, PhaseInv, Up, Recovering
  <1>3. Active' = {} /\ Active = {} /\ Unspent' = {}
    BY Zenon, <1>2 DEF TypeOK, PhaseInv, Active, Unspent, UnspentIn, InOp
  <1>4. PhaseInv'
    BY <1>2, <1>3, FS_EmptySet
    DEF TypeOK, PhaseInv, Recovering, CommitAlone, Committing, NoPanic, HasBuffer, ProgressInv
  <1>5. SpaceInv'
    BY <1>2, <1>3, FS_EmptySet DEF TypeOK, PhaseInv, SpaceInv, Fits, HasBuffer, InOp
  <1>6. CacheInv'
    BY DEF TypeOK, CacheInv, HasBuffer, Locked
  <1>7. ProgressInv'
    BY <1>2 DEF TypeOK, PhaseInv, ProgressInv, Injective, Installed, Logged
  <1>8. QED
    BY <1>1, <1>4, <1>5, <1>6, <1>7

\* The end of recover_from_log preserves the invariant.
LEMMA RecoverClearInv ==
    ASSUME IInv, NEW p \in Proc, recover_clear(p)
    PROVE  IInv'
  <1> USE DEF IInv, recover_clear, inCache
  <1>1. TypeOK'
    <2>1. << >> \in Seq(Block)
      OBVIOUS
    <2>2. pc' \in [Proc -> Control]
      BY DEF Control
    <2>3. QED
      BY <2>1, <2>2 DEF TypeOK
  <1>2. p = InitProc /\ ~ Up /\ Up'
    BY LogAssumption DEF TypeOK, PhaseInv, Up, Recovering
  <1>3. Active' = {} /\ Active = {} /\ Unspent' = {}
    BY Zenon, <1>2 DEF TypeOK, PhaseInv, Active, Unspent, UnspentIn, InOp
  <1>4. \A q \in Proc : cur[q] = Nil
    BY <1>3, Quiet
  <1>5. PhaseInv'
    BY <1>2, <1>3, <1>4, FS_EmptySet
    DEF PhaseInv, Recovering, CommitAlone, Committing, NoPanic, HasBuffer, ProgressInv
  <1>6. SpaceInv'
    BY <1>3, FS_EmptySet, LogAssumption DEF SpaceInv, Fits, HasBuffer, InOp
  <1>7. CacheInv'
    BY DEF CacheInv, HasBuffer, Locked
  <1>8. ProgressInv'
    BY <1>2 DEF ProgressInv, Injective, Range
  <1>9. QED
    BY <1>1, <1>5, <1>6, <1>7, <1>8

\* The commit point, write_head, preserves the invariant.
LEMMA WriteHeadInv ==
    ASSUME IInv, NEW p \in Proc, write_head(p)
    PROVE  IInv'
  <1> USE DEF IInv, write_head, inLog, inCache
  <1>1. TypeOK'
    BY DEF TypeOK, Control, Committing
  <1>2. Active' = Active /\ Unspent' = Unspent
    BY <1>1, SameActive DEF TypeOK, InOp
  <1>3. Up /\ Up' /\ Active = {} /\ committing
    BY Zenon, LogAssumption DEF TypeOK, PhaseInv, Up, Recovering, CommitAlone, Committing
  <1>4. PhaseInv'
    BY <1>2, <1>3 DEF TypeOK, PhaseInv, Recovering, CommitAlone, Committing, NoPanic, HasBuffer
  <1>5. SpaceInv'
    <2>1. Unspent = {}
      BY <1>3 DEF Unspent, UnspentIn, Active
    <2>2. Fits(Len(lh))
      BY <2>1, FS_EmptySet DEF SpaceInv, TypeOK
    <2>3. QED
      BY <1>2, <2>2 DEF TypeOK, SpaceInv, Fits, HasBuffer, InOp
  <1>6. CacheInv'
    BY DEF TypeOK, CacheInv, HasBuffer, Locked
  <1>7. ProgressInv'
    <2>1. \A q \in Proc \ {p} : pc[q] \notin Committing
      BY DEF PhaseInv, CommitAlone, Committing
    <2>2. dirty = Range(lh) /\ lh # << >> /\ Logged(1 .. Len(lh))
      BY <1>3, <2>1 DEF ProgressInv, Committing
    <2>3. dirty = {lh[i] : i \in 1 .. Len(lh)}
      BY <2>2 DEF TypeOK, Range
    <2>4. 0 < Len(lh)
      BY <2>2 DEF TypeOK
    <2>5. QED
      BY <1>3, <2>1, <2>2, <2>3, <2>4 DEF TypeOK, ProgressInv, Injective, Installed, Logged, Committing
  <1>8. QED
    BY <1>1, <1>4, <1>5, <1>6, <1>7

\* Erasing the log at the end of commit preserves the invariant.
LEMMA ClearHeadInv ==
    ASSUME IInv, NEW p \in Proc, clear_head(p)
    PROVE  IInv'
  <1> USE DEF IInv, clear_head, inCache
  <1>1. TypeOK'
    <2>1. << >> \in Seq(Block)
      OBVIOUS
    <2>2. QED
      BY <2>1 DEF TypeOK, Control, Committing
  <1>2. Active' = Active /\ Unspent' = Unspent
    BY <1>1, SameActive DEF TypeOK, InOp
  <1>3. Up /\ Up' /\ Active = {} /\ committing
    BY Zenon, LogAssumption DEF TypeOK, PhaseInv, Up, Recovering, CommitAlone, Committing
  <1>4. \A q \in Proc \ {p} : pc[q] \notin Committing
    BY DEF PhaseInv, CommitAlone, Committing
  <1>5. PhaseInv'
    BY <1>2, <1>3 DEF TypeOK, PhaseInv, Recovering, CommitAlone, Committing, NoPanic, HasBuffer
  <1>6. SpaceInv'
    <2>1. Unspent = {} /\ \A q \in Proc : pc'[q] \notin InOp \cup HasBuffer
      BY <1>2, <1>3 DEF Unspent, UnspentIn, Active, InOp, HasBuffer
    <2>2. QED
      BY <1>2, <2>1, FS_EmptySet, LogAssumption DEF SpaceInv, Fits
  <1>7. CacheInv'
    BY DEF TypeOK, CacheInv, HasBuffer, Locked
  <1>8. ProgressInv'
    BY <1>3, <1>4 DEF TypeOK, ProgressInv, Injective, Committing, Range
  <1>9. QED
    BY <1>1, <1>5, <1>6, <1>7, <1>8

\* The second critical section of end_op preserves the invariant.
LEMMA CommitDoneInv ==
    ASSUME IInv, NEW p \in Proc, commit_done(p)
    PROVE  IInv'
  <1> USE DEF IInv, commit_done, Wakeup, onDisk, inCache
  <1>1. TypeOK'
    BY Zenon DEF TypeOK, Control
  <1>2. Active' = Active /\ Unspent' = Unspent
    BY <1>1, SameActive DEF TypeOK, InOp
  <1>3. Up /\ Up' /\ Active = {} /\ committing
    BY Zenon, LogAssumption DEF TypeOK, PhaseInv, Up, Recovering, CommitAlone, Committing
  <1>4. \A q \in Proc : pc'[q] \notin Committing
    BY DEF TypeOK, PhaseInv, CommitAlone, Committing
  <1>5. PhaseInv'
    BY <1>2, <1>3, <1>4 DEF TypeOK, PhaseInv, Recovering, CommitAlone, NoPanic, HasBuffer
  <1>6. SpaceInv'
    BY <1>2 DEF TypeOK, SpaceInv, Fits, HasBuffer, InOp
  <1>7. CacheInv'
    BY DEF TypeOK, CacheInv, HasBuffer, Locked
  <1>8. ProgressInv'
    <2>1. \A q \in Proc \ {p} : pc[q] \notin Committing
      BY DEF PhaseInv, CommitAlone, Committing
    <2>2. QED
      BY <1>3, <1>4, <2>1 DEF TypeOK, ProgressInv, Injective, Committing
  <1>9. QED
    BY <1>1, <1>5, <1>6, <1>7, <1>8

\* An iteration of write_log preserves the invariant.
LEMMA WriteLogInv ==
    ASSUME IInv, NEW p \in Proc, write_log(p)
    PROVE  IInv'
  <1> DEFINE i == tail[p] + 1
             b == lh[i]
  <1> USE DEF IInv, inLog
  <1>1. /\ i \in 1 .. Len(lh) /\ i \in LogSlots /\ b \in Block
        /\ \A j \in 1 .. tail[p] : j # i
    <2>1. i \in 1 .. Len(lh) /\ \A j \in 1 .. tail[p] : j # i
      BY DEF write_log, TypeOK, ProgressInv
    <2>2. QED
      BY <2>1, LenBound, LogAssumption DEF TypeOK, LogSlots
  <1>2. Up /\ Active = {} /\ committing /\ \A q \in Proc \ {p} : pc[q] \notin Committing
    BY LogAssumption DEF write_log, PhaseInv, Up, Recovering, CommitAlone, Committing
  <1>3. dhead = << >> /\ dirty = Range(lh) /\ b \in dirty
    BY <1>1, <1>2 DEF write_log, ProgressInv, Committing, Range, TypeOK
  <1>4. cached[b] # Nil /\ View[b] = cached[b]
    BY <1>1, <1>3 DEF CacheInv, View
  <1>5. cached' = cached /\ dlog' = [dlog EXCEPT ![i] = cached[b]]
    BY ZenonT(40), <1>1, <1>4 DEF write_log, TypeOK
  <1>6. TypeOK'
    <2>1. cached[b] \in Value
      BY <1>1, <1>4 DEF TypeOK
    <2>2. QED
      BY <1>1, <1>5, <2>1 DEF write_log, TypeOK, Control, Committing
  <1>7. Active' = Active /\ Unspent' = Unspent
    BY <1>6, SameActive DEF write_log, TypeOK, InOp
  <1>8. PhaseInv'
    BY <1>2, <1>7, LogAssumption
    DEF write_log, TypeOK, PhaseInv, Up, Recovering, CommitAlone, Committing, NoPanic, HasBuffer
  <1>9. SpaceInv'
    BY <1>7 DEF write_log, TypeOK, SpaceInv, Fits, HasBuffer, InOp
  <1>10. CacheInv'
    BY <1>5 DEF write_log, TypeOK, CacheInv, HasBuffer, Locked
  <1>11. ProgressInv'
    <2>1. /\ lh' = lh /\ tail'[p] = i
          /\ \A j \in 1 .. i : cached'[lh[j]] = dlog'[j]
      <3>1. \A j \in 1 .. tail[p] : cached[lh[j]] = dlog[j]
        BY DEF write_log, ProgressInv, Logged
      <3>2. \A j \in 1 .. i : j \in LogSlots /\ (j = i \/ j \in 1 .. tail[p])
        BY <1>1, LogAssumption DEF TypeOK, LogSlots
      <3>3. QED
        BY <1>1, <1>5, <3>1, <3>2 DEF write_log, TypeOK
    <2>2. Up' /\ \A q \in Proc \ {p} : pc'[q] = pc[q]
      BY <1>2, LogAssumption DEF write_log, TypeOK, Up, Recovering
    <2> DEFINE unchanged == dhead' = dhead /\ dirty' = dirty /\ committing' = committing /\ Injective(lh)
    <2>3. CASE i < Len(lh)
      <3>1. pc' = pc /\ unchanged
        BY <2>3 DEF write_log, inCache, onDisk, ProgressInv
      <3> HIDE DEF IInv
      <3>2. QED
        BY <1>2, <1>3, <2>1, <2>2, <2>3, <3>1 DEF write_log, ProgressInv, Committing, Injective, Logged
    <2>4. CASE ~ (i < Len(lh))
      <3>1. i = Len(lh) /\ lh # << >>
        BY <1>1, <2>4 DEF TypeOK
      <3>2. QED
        <4>1. pc'[p] = "write_head" /\ unchanged
          BY <2>4 DEF write_log, inCache, onDisk, ProgressInv, TypeOK
        <4> HIDE DEF IInv
        <4>2. QED
          BY <1>2, <1>3, <2>1, <2>2, <3>1, <4>1 DEF ProgressInv, Committing, Injective, Logged
    <2>5. QED
      BY <2>3, <2>4
  <1>12. QED
    BY ZenonT(40), <1>6, <1>8, <1>9, <1>10, <1>11

\* install_trans(p) while a commit is in progress.
LEMMA InstallInv ==
    ASSUME IInv, NEW p \in Proc, install_trans(p), pc[p] = "install_trans"
    PROVE  IInv'
  <1> DEFINE i == tail[p] + 1
             b == lh[i]
  <1> USE DEF IInv, inLog
  <1>1. /\ i \in 1 .. Len(lh) /\ i \in LogSlots /\ b \in Block
        /\ \A j \in 1 .. Len(lh) : lh[j] = b => j = i
    <2>1. i \in 1 .. Len(lh)
      <3>1. tail[p] < Len(lh)
        BY Zenon DEF ProgressInv
      <3>2. QED
        BY <3>1 DEF TypeOK
    <2>2. Injective(lh)
      BY Zenon DEF ProgressInv
    <2>3. i \in LogSlots
      BY <2>1, LenBound, LogAssumption DEF TypeOK, LogSlots
    <2>4. b \in Block /\ DOMAIN lh = 1 .. Len(lh)
      BY <2>1 DEF TypeOK
    <2>5. QED
      BY Zenon, <2>1, <2>2, <2>3, <2>4 DEF Injective
  <1>2. Up /\ Active = {} /\ committing /\ \A q \in Proc \ {p} : pc[q] \notin Committing
    BY LogAssumption DEF PhaseInv, Up, Recovering, CommitAlone, Committing
  <1>3. dlog[i] \in Value /\ cached[b] = dlog[i]
    BY <1>1 DEF TypeOK, ProgressInv, Logged
  <1>4. cached' = cached
    BY <1>1, <1>3 DEF install_trans, TypeOK
  <1>5. TypeOK'
    BY <1>1, <1>3, <1>4 DEF install_trans, TypeOK, Control, Committing
  <1>6. Active' = Active /\ Unspent' = Unspent
    BY <1>5, SameActive DEF install_trans, TypeOK, InOp
  <1>7. PhaseInv'
    BY <1>2, <1>6, LogAssumption
    DEF install_trans, TypeOK, PhaseInv, Up, Recovering, CommitAlone, Committing, NoPanic, HasBuffer
  <1>8. SpaceInv'
    BY <1>6 DEF install_trans, TypeOK, SpaceInv, Fits, HasBuffer, InOp
  <1>9. CacheInv'
    BY <1>1, <1>3, <1>4 DEF install_trans, TypeOK, CacheInv, HasBuffer, Locked
  <1>10. ProgressInv'
    <2>1. /\ lh' = lh /\ tail'[p] = i
          /\ \A j \in 1 .. i : disk'[lh[j]] = dlog'[j]
      <3>1. \A j \in 1 .. tail[p] : disk[lh[j]] = dlog[j]
        BY DEF ProgressInv, Installed
      <3>2. \A j \in 1 .. i : lh[j] \in Block /\ j \in 1 .. Len(lh) /\ (j = i \/ j \in 1 .. tail[p])
        BY <1>1 DEF TypeOK
      <3>3. QED
        BY <1>1, <3>1, <3>2 DEF install_trans, TypeOK
    <2>2. \A j \in (i + 1) .. Len(lh) : cached'[lh[j]] = dlog'[j]
      BY <1>1, <1>4 DEF install_trans, TypeOK, ProgressInv, Logged
    <2>3. dirty' = {lh[j] : j \in (i + 1) .. Len(lh)}
      <3>1. dirty = {lh[j] : j \in i .. Len(lh)} /\ dirty' = dirty \ {b}
        BY DEF install_trans, ProgressInv
      <3>2. Injective(lh) /\ DOMAIN lh = 1 .. Len(lh) /\ Len(lh) \in Nat
        BY DEF ProgressInv, TypeOK
      <3>3. \A j \in i .. Len(lh) : lh[j] = b <=> j = i
        BY <1>1, <3>2 DEF Injective
      <3>4. \A j : j \in (i + 1) .. Len(lh) <=> j \in i .. Len(lh) /\ j # i
        BY <1>1, <3>2
      <3>5. QED
        BY Zenon, <3>1, <3>3, <3>4
    <2>4. Up' /\ \A q \in Proc \ {p} : pc'[q] = pc[q]
      BY <1>2, LogAssumption DEF install_trans, TypeOK, Up, Recovering
    <2> DEFINE unchanged == dhead' = lh /\ committing' = committing /\ Injective(lh)
    <2>5. CASE i < Len(lh)
      <3>1. pc' = pc /\ unchanged
        BY ZenonT(40), <2>5 DEF install_trans, ProgressInv
      <3> HIDE DEF IInv
      <3>2. QED
        BY <1>2, <2>1, <2>2, <2>3, <2>4, <2>5, <3>1 DEF ProgressInv, Committing, Injective, Installed, Logged
    <2>6. CASE ~ (i < Len(lh))
      <3>1. i = Len(lh) /\ dirty' = {}
        <4>1. i = Len(lh) /\ (i + 1) .. Len(lh) = {}
          BY <1>1, <2>6 DEF TypeOK
        <4>2. QED
          BY Zenon, <2>3, <4>1
      <3>2. QED
        <4>1. pc'[p] = "clear_head" /\ unchanged
          BY <2>6 DEF install_trans, ProgressInv, TypeOK
        <4> HIDE DEF IInv
        <4>2. QED
          BY <1>2, <2>1, <2>4, <3>1, <4>1 DEF ProgressInv, Committing, Injective, Installed, Logged
    <2>7. QED
      BY <2>5, <2>6
  <1>11. QED
    BY Zenon, <1>5, <1>7, <1>8, <1>9, <1>10

\* install_trans(p) while the machine recovers.
LEMMA RecoverInv ==
    ASSUME IInv, NEW p \in Proc, install_trans(p), pc[p] = "recover_trans"
    PROVE  IInv'
  <1> DEFINE i == tail[p] + 1
             b == lh[i]
  <1> USE DEF IInv, inLog
  <1>1. p = InitProc /\ ~ Up /\ ~ Up' /\ pc'[p] \in {"recover_trans", "recover_clear"}
    BY Zenon, LogAssumption DEF install_trans, TypeOK, PhaseInv, Up, Recovering
  <1>2. /\ i \in 1 .. Len(lh) /\ i \in LogSlots /\ b \in Block
        /\ \A j \in 1 .. Len(lh) : lh[j] = b => j = i
    <2>1. i \in 1 .. Len(lh)
      <3>1. tail[p] < Len(lh)
        BY Zenon, <1>1 DEF ProgressInv
      <3>2. QED
        BY <3>1 DEF TypeOK
    <2>2. Injective(lh)
      BY Zenon DEF ProgressInv
    <2>3. i \in LogSlots
      BY <2>1, LenBound, LogAssumption DEF TypeOK, LogSlots
    <2>4. b \in Block /\ DOMAIN lh = 1 .. Len(lh)
      BY <2>1 DEF TypeOK
    <2>5. QED
      BY Zenon, <2>1, <2>2, <2>3, <2>4 DEF Injective
  <1>3. dlog[i] \in Value
    BY <1>2 DEF TypeOK
  <1>4. TypeOK'
    BY <1>2, <1>3 DEF install_trans, TypeOK, Control, Recovering
  <1>5. Active' = Active /\ Unspent' = Unspent
    BY ZenonT(40), <1>4, SameActive DEF install_trans, TypeOK, InOp
  <1>6. PhaseInv'
    BY <1>1, <1>5
    DEF install_trans, TypeOK, PhaseInv, Recovering, CommitAlone, Committing, NoPanic, HasBuffer
  <1>7. SpaceInv'
    BY <1>5 DEF install_trans, TypeOK, SpaceInv, Fits, HasBuffer, InOp
  <1>8. CacheInv'
    <2>1. dirty = {} /\ dirty' = {}
      BY <1>1 DEF install_trans, ProgressInv
    <2>2. \A q \in Proc : pc'[q] \notin HasBuffer
      BY <1>1 DEF PhaseInv, HasBuffer, install_trans, TypeOK
    <2>3. QED
      BY <1>2, <2>1, <2>2 DEF install_trans, TypeOK, CacheInv, Locked
  <1>9. ProgressInv'
    <2>1. /\ lh' = lh /\ tail'[p] = i
          /\ \A j \in 1 .. i : disk'[lh[j]] = dlog'[j]
      <3>1. \A j \in 1 .. tail[p] : disk[lh[j]] = dlog[j]
        BY Zenon, <1>1 DEF ProgressInv, Installed
      <3>2. \A j \in 1 .. i : lh[j] \in Block /\ j \in 1 .. Len(lh) /\ (j = i \/ j \in 1 .. tail[p])
        BY <1>2 DEF TypeOK
      <3>3. QED
        BY <1>2, <3>1, <3>2 DEF install_trans, TypeOK
    <2>2. \A q \in Proc \ {p} : pc'[q] = "off"
      BY <1>1 DEF install_trans, TypeOK, PhaseInv
    <2> DEFINE unchanged ==
          /\ dhead' = lh /\ Injective(lh) /\ dirty' = {} /\ outstanding' = 0 /\ ~ committing'
    <2>3. CASE i < Len(lh)
      <3>1. pc' = pc /\ unchanged
        BY ZenonT(40), <1>1, <2>3 DEF install_trans, ProgressInv
      <3> HIDE DEF IInv
      <3>2. QED
        BY <1>1, <2>1, <2>2, <2>3, <3>1 DEF ProgressInv, Injective, Installed
    <2>4. CASE ~ (i < Len(lh))
      <3>1. i = Len(lh)
        BY <1>2, <2>4 DEF TypeOK
      <3>2. QED
        <4>1. pc'[p] = "recover_clear" /\ unchanged
          BY <1>1, <2>4 DEF install_trans, ProgressInv, TypeOK
        <4> HIDE DEF IInv
        <4>2. QED
          BY <1>1, <2>1, <2>2, <3>1, <4>1 DEF ProgressInv, Injective, Installed
    <2>5. QED
      BY <2>3, <2>4
  <1>10. QED
    BY <1>4, <1>6, <1>7, <1>8, <1>9

\* The invariant is inductive.
LEMMA NextInv == IInv /\ [Next]_vars => IInv'
  <1> SUFFICES ASSUME IInv, [Next]_vars PROVE IInv'
    OBVIOUS
  <1>1. ASSUME NEW p \in Proc, Step(p) PROVE IInv'
    <2>1. ASSUME install_trans(p) PROVE IInv'
      BY Zenon, <2>1, InstallInv, RecoverInv DEF install_trans
    <2>2. QED
      BY <1>1, <2>1, ReadHeadInv, RecoverClearInv, SleepInv, BeginInv, ModifyInv, LogWriteInv,
         LogAppendInv, EndInv, WriteLogInv, WriteHeadInv, ClearHeadInv, CommitDoneInv DEF Step
  <1>2. ASSUME UNCHANGED vars PROVE IInv'
    <2>1. TypeOK'
      BY <1>2 DEF vars, IInv, TypeOK
    <2>2. Active' = Active /\ Up' = Up /\ Unspent' = Unspent /\ CommitAlone' = CommitAlone
      BY Zenon, <1>2 DEF vars, Active, Up, Unspent, CommitAlone
    <2>3. PhaseInv'
      BY Zenon, <1>2, <2>2 DEF vars, IInv, PhaseInv, NoPanic
    <2>4. SpaceInv'
      BY Zenon, <1>2, <2>2 DEF vars, IInv, SpaceInv
    <2>5. CacheInv'
      BY ZenonT(40), <1>2, <2>2 DEF vars, IInv, CacheInv, Locked
    <2>6. ProgressInv'
      <3>1. \A n : Installed(n)' = Installed(n) /\ Logged(n)' = Logged(n)
        BY Zenon, <1>2 DEF vars, Installed, Logged
      <3>2. QED
        BY <1>2, <2>2, <3>1 DEF vars, IInv, ProgressInv, Injective, Installed, Logged
    <2>7. QED
      BY <2>1, <2>3, <2>4, <2>5, <2>6 DEF IInv
  <1>3. QED
    BY <1>1, <1>2, EvictInv, CrashInv DEF Next

\* The inductive invariant holds in every reachable state.
THEOREM Invariant == Spec => []IInv
  <1>1. QED
    BY InitInv, NextInv, PTL DEF Spec

\* The log's variables keep their types; in particular outstanding is never
\* negative and write_log only writes blocks of the log.
THEOREM TypeCorrect == Spec => []TypeOK
  <1>1. IInv => TypeOK
    BY DEF IInv
  <1>2. QED
    BY <1>1, Invariant, PTL

\* No process panics in log_write or end_op, and log_write never makes the log
\* longer than the disk has room for, whatever operations run concurrently.
THEOREM SpaceSafe == Spec => [](NoPanic /\ LogFits)
  <1>1. IInv => NoPanic /\ LogFits
    <2> SUFFICES ASSUME IInv PROVE NoPanic /\ LogFits
      OBVIOUS
    <2>1. NoPanic
      BY DEF IInv, PhaseInv
    <2>2. LogFits
      BY LenBound, LogAssumption DEF LogFits
    <2>3. QED
      BY <2>1, <2>2
  <1>2. QED
    BY <1>1, Invariant, PTL

\* A commit runs alone: no system call is active and there is one committer.
THEOREM CommitsAlone == Spec => []CommitAlone
  <1>1. IInv => CommitAlone
    BY DEF IInv, PhaseInv
  <1>2. QED
    BY <1>1, Invariant, PTL

\* When the log is quiescent everything written so far is on disk.
THEOREM Durability == Spec => []QuiescentDurable
  <1>1. IInv => QuiescentDurable
    <2> SUFFICES ASSUME IInv, Up, outstanding = 0, ~ committing
                 PROVE  lh = << >> /\ Durable = View
      BY DEF QuiescentDurable
    <2>1. lh = << >>
      BY DEF IInv, ProgressInv
    <2>2. Active = {}
      <3>1. IsFiniteSet(Active)
        BY FS_Subset, LogAssumption DEF Active
      <3>2. QED
        BY Zenon, <3>1, FS_EmptySet DEF IInv, PhaseInv
    <2>3. dhead = << >> /\ dirty = {}
      <3>1. \A p \in Proc : pc[p] \notin {"install_trans", "clear_head"}
        BY DEF IInv, PhaseInv, CommitAlone, Committing
      <3>2. dhead = << >> /\ dirty = Range(lh)
        BY <3>1 DEF IInv, ProgressInv
      <3>3. QED
        BY <2>1, <3>2 DEF Range
    <2>4. \A b \in Block : cached[b] \in {Nil, disk[b]}
      BY Zenon, <2>2, <2>3, Quiet DEF IInv, CacheInv
    <2>5. QED
      BY <2>1, <2>3, <2>4 DEF Durable, View
  <1>2. QED
    BY <1>1, Invariant, PTL

-----------------------------------------------------------------------------
\* What recovery would rebuild, entry by entry.
LEMMA DurableAt ==
    ASSUME IInv
    PROVE  /\ \A i \in DOMAIN dhead : Durable[dhead[i]] = dlog[i]
           /\ \A b \in Block : (\A i \in DOMAIN dhead : dhead[i] # b) => Durable[b] = disk[b]
  <1>1. ASSUME NEW i \in DOMAIN dhead PROVE Durable[dhead[i]] = dlog[i]
    <2>1. dhead[i] \in Block
      BY DEF IInv, TypeOK
    <2>2. (CHOOSE j \in DOMAIN dhead : dhead[j] = dhead[i]) = i
      BY DEF IInv, ProgressInv, Injective
    <2>3. QED
      BY Zenon, <2>1, <2>2 DEF Durable
  <1>2. QED
    BY Zenon, <1>1 DEF Durable

\* Once every block of the log is installed, the log is not needed.
LEMMA InstalledDurable ==
    ASSUME IInv, dhead = lh, Installed(Len(lh))
    PROVE  Durable = disk
  <1>1. ASSUME NEW b \in Block PROVE Durable[b] = disk[b]
    <2>1. DOMAIN dhead = 1 .. Len(lh)
      BY DEF IInv, TypeOK
    <2>2. CASE \E i \in DOMAIN dhead : dhead[i] = b
      BY <2>1, <2>2, DurableAt DEF Installed
    <2>3. CASE \A i \in DOMAIN dhead : dhead[i] # b
      BY Zenon, <2>3, DurableAt
    <2>4. QED
      BY Zenon, <2>2, <2>3
  <1>2. QED
    BY <1>1 DEF Durable, IInv, TypeOK

\* An initial state of the log is an initial state of the atomic disk.
LEMMA InitRefines == Init => Abstract!Init
  <1> SUFFICES ASSUME Init PROVE Abstract!Init
    OBVIOUS
  <1>1. ~ Up /\ Active = {}
    BY LogAssumption DEF Init, Up, Recovering, Active, InOp
  <1>2. Durable = disk
    BY DEF Init, Durable
  <1>3. QED
    BY <1>1, <1>2 DEF Abstract!Init, Mem, Init

\* The steps in which neither a reader nor a reboot can see a difference.
Invisible == Durable' = Durable /\ Mem' = Mem /\ Active' = Active

\* Installing a logged block is invisible to readers and to a reboot.
LEMMA InstallInvisible ==
    ASSUME IInv, NEW p \in Proc, install_trans(p)
    PROVE  Invisible
  <1> DEFINE i == tail[p] + 1
             b == lh[i]
  <1> USE DEF IInv, inLog
  <1>1. /\ i \in DOMAIN lh /\ lh = dhead /\ b \in Block
        /\ pc[p] = "install_trans" => cached[b] = dlog[i]
        /\ dlog[i] # Nil
    <2>1. pc[p] = "recover_trans" => p = InitProc /\ ~ Up
      BY Zenon, LogAssumption DEF PhaseInv, Up, Recovering
    <2>2. i \in 1 .. Len(lh) /\ lh = dhead /\ (pc[p] = "install_trans" => cached[b] = dlog[i])
      <3>1. CASE pc[p] = "install_trans"
        BY <3>1 DEF TypeOK, ProgressInv, Logged
      <3>2. CASE pc[p] = "recover_trans"
        BY <2>1, <3>2 DEF TypeOK, ProgressInv
      <3>3. QED
        BY <3>1, <3>2 DEF install_trans
    <2>3. i \in LogSlots
      BY <2>2, LenBound, LogAssumption DEF TypeOK, LogSlots
    <2>4. QED
      BY <2>2, <2>3, LogAssumption DEF TypeOK
  <1>2. Active' = Active
    BY DEF install_trans, TypeOK, Active, InOp
  <1>3. Durable' = Durable
    BY <1>1 DEF install_trans, Durable, TypeOK
  <1>4. Mem' = Mem
    <2>1. CASE pc[p] = "install_trans"
      <3>1. Up /\ Up'
        BY <2>1, LogAssumption DEF install_trans, TypeOK, PhaseInv, Up, Recovering
      <3>2. cached' = cached
        BY <1>1, <2>1 DEF install_trans, TypeOK
      <3>3. View' = View
        BY <1>1, <2>1, <3>2 DEF install_trans, View, TypeOK
      <3>4. QED
        BY <3>1, <3>3 DEF Mem
    <2>2. CASE pc[p] = "recover_trans"
      <3>1. ~ Up /\ ~ Up'
        BY Zenon, <2>2, LogAssumption DEF install_trans, TypeOK, PhaseInv, Up, Recovering
      <3>2. QED
        BY <1>3, <3>1 DEF Mem
    <2>3. QED
      BY <2>1, <2>2 DEF install_trans
  <1>5. QED
    BY <1>2, <1>3, <1>4 DEF Invisible

\* Ending a recovery is invisible: the log has been installed by then.
LEMMA RecoverClearInvisible ==
    ASSUME IInv, NEW p \in Proc, recover_clear(p)
    PROVE  Invisible
  <1> USE DEF IInv, inCache
  <1>1. p = InitProc /\ ~ Up /\ Up'
    BY LogAssumption DEF recover_clear, TypeOK, PhaseInv, Up, Recovering
  <1>2. Active' = {} /\ Active = {}
    BY Zenon, <1>1 DEF recover_clear, TypeOK, PhaseInv, Active, InOp
  <1>3. Durable = disk
    BY Zenon, <1>1, InstalledDurable DEF recover_clear, ProgressInv
  <1>4. Durable' = disk
    BY DEF recover_clear, Durable, TypeOK
  <1>5. View' = disk
    <2>1. \A b \in Block : cached[b] \in {Nil, disk[b]}
      BY Zenon, <1>1, <1>2, Quiet DEF CacheInv, ProgressInv
    <2>2. QED
      BY <2>1 DEF recover_clear, View, TypeOK
  <1>6. QED
    BY <1>1, <1>2, <1>3, <1>4, <1>5 DEF Invisible, Mem

\* Erasing an installed log is invisible.
LEMMA ClearHeadInvisible ==
    ASSUME IInv, NEW p \in Proc, clear_head(p)
    PROVE  Invisible
  <1> USE DEF IInv, inCache
  <1>1. Up /\ Up' /\ Active' = Active
    BY Zenon, LogAssumption DEF clear_head, TypeOK, PhaseInv, Up, Recovering, Active, InOp
  <1>2. Durable = disk
    BY Zenon, InstalledDurable DEF clear_head, ProgressInv
  <1>3. Durable' = disk
    BY DEF clear_head, Durable, TypeOK
  <1>4. View' = View
    BY DEF clear_head, View
  <1>5. QED
    BY <1>1, <1>2, <1>3, <1>4 DEF Invisible, Mem

\* Filling the log is invisible as long as its header is empty.
LEMMA WriteLogInvisible ==
    ASSUME IInv, NEW p \in Proc, write_log(p)
    PROVE  Invisible
  <1> USE DEF IInv, inLog
  <1>1. Up /\ Up' /\ Active' = Active
    BY LogAssumption DEF write_log, TypeOK, PhaseInv, Up, Recovering, Active, InOp
  <1>2. dhead = << >>
    BY Zenon, <1>1 DEF write_log, PhaseInv, CommitAlone, Committing, ProgressInv
  <1>3. Durable' = Durable
    BY <1>2 DEF write_log, Durable
  <1>4. View' = View
    BY DEF write_log, View, TypeOK
  <1>5. QED
    BY <1>1, <1>3, <1>4 DEF Invisible, Mem

\* Recycling an unpinned buffer is invisible: it equals the disk.
LEMMA EvictInvisible ==
    ASSUME IInv, NEW b \in Block, evict(b)
    PROVE  Invisible
  <1> USE DEF IInv, onDisk, inLog
  <1>1. cached[b] = disk[b]
    BY DEF evict, CacheInv
  <1>2. View' = View
    BY <1>1, LogAssumption DEF evict, View, TypeOK
  <1>3. QED
    BY Zenon, <1>2 DEF evict, Invisible, Mem, Up, Durable, Active

\* The steps that change no block are invisible.
LEMMA OthersInvisible ==
    ASSUME IInv, NEW p \in Proc,
           read_head(p) \/ begin_op_sleep(p) \/ log_write(p) \/ log_append(p) \/ commit_done(p)
    PROVE  Invisible
  <1> USE DEF IInv, read_head, begin_op_sleep, log_write, log_append, commit_done, Wakeup,
              onDisk, inLog, inCache
  <1>1. Active' = Active
    BY DEF TypeOK, Active, InOp
  <1>2. Up' = Up
    BY LogAssumption DEF TypeOK, PhaseInv, Up, Recovering
  <1>3. Durable' = Durable
    BY Zenon DEF Durable
  <1>4. View' = View
    BY DEF View
  <1>5. QED
    BY <1>1, <1>2, <1>3, <1>4 DEF Invisible, Mem

\* The commit point: the header makes durable exactly what readers see.
LEMMA WriteHeadCommits ==
    ASSUME IInv, IInv', NEW p \in Proc, write_head(p)
    PROVE  Abstract!Commit
  <1> USE DEF inLog, inCache
  <1>1. Up /\ Up' /\ Active = {} /\ Active' = {} /\ \A q \in Proc \ {p} : pc[q] \notin Committing
    BY Zenon, LogAssumption
    DEF IInv, write_head, TypeOK, PhaseInv, Up, Recovering, CommitAlone, Committing, Active, InOp
  <1>2. View' = View
    BY DEF write_head, View
  <1>3. /\ dirty = Range(lh) /\ dhead' = lh /\ DOMAIN lh = 1 .. Len(lh)
        /\ \A i \in DOMAIN lh : lh[i] \in Block /\ cached[lh[i]] = dlog[i] /\ cached[lh[i]] # Nil
    <2>1. dirty = Range(lh) /\ DOMAIN lh = 1 .. Len(lh) /\ \A i \in DOMAIN lh : cached[lh[i]] = dlog[i]
      <3>1. dirty = Range(lh)
        BY Zenon, <1>1 DEF IInv, write_head, ProgressInv, Committing
      <3>2. DOMAIN lh = 1 .. Len(lh)
        BY DEF IInv, TypeOK
      <3>3. \A i \in 1 .. Len(lh) : cached[lh[i]] = dlog[i]
        BY Zenon DEF IInv, write_head, ProgressInv, Logged
      <3>4. QED
        BY <3>1, <3>2, <3>3
    <2>2. QED
      BY ZenonT(40), <2>1 DEF IInv, CacheInv, write_head, Range, TypeOK
  <1>4. ASSUME NEW b \in Block PROVE Durable'[b] = View[b]
    <2>1. CASE \E i \in DOMAIN lh : lh[i] = b
      <3>1. PICK i \in DOMAIN lh : lh[i] = b
        BY <2>1
      <3>2. (CHOOSE j \in DOMAIN lh : lh[j] = b) = i
        BY Zenon, <3>1 DEF IInv, ProgressInv, Injective
      <3>3. Durable'[b] = dlog[i]
        BY Zenon, <1>3, <3>1, <3>2 DEF write_head, Durable
      <3>4. QED
        BY <1>3, <3>1, <3>3 DEF View
    <2>2. CASE ~ \E i \in DOMAIN lh : lh[i] = b
      <3>1. Durable'[b] = disk[b]
        BY Zenon, <1>3, <2>2 DEF write_head, Durable
      <3>2. b \notin dirty /\ ~ Locked(b)
        BY <1>1, <1>3, <2>2, Quiet DEF Range
      <3>3. QED
        BY Zenon, <3>1, <3>2 DEF IInv, CacheInv, View
    <2>3. QED
      BY <2>1, <2>2
  <1>5. Durable' = View
    BY <1>4 DEF Durable, View
  <1>6. QED
    BY <1>1, <1>2, <1>5 DEF Abstract!Commit, Mem

\* Every step of the log is a step of the atomic disk or is invisible.
LEMMA StepRefines == IInv /\ IInv' /\ [Next]_vars => [Abstract!Next]_(Abstract!vars)
  <1> SUFFICES ASSUME IInv, IInv', [Next]_vars PROVE [Abstract!Next]_(Abstract!vars)
    OBVIOUS
  <1>1. Invisible => UNCHANGED Abstract!vars
    BY DEF Invisible, Abstract!vars
  <1>2. ASSUME NEW p \in Proc, begin_op(p) PROVE Abstract!Begin(p)
    <2>1. p \notin Active /\ Active' = Active \cup {p}
      <3>1. pc \in [Proc -> Control] /\ pc[p] \in {"user", "begin_op"} /\ pc' = [pc EXCEPT ![p] = "op"]
        BY Zenon, <1>2 DEF IInv, begin_op, TypeOK
      <3>2. QED
        BY <3>1 DEF Active, InOp
    <2>2. Up' = Up
      BY Zenon, <1>2, LogAssumption DEF IInv, begin_op, TypeOK, Up, Recovering
    <2>3. Durable' = Durable /\ View' = View
      BY Zenon, <1>2 DEF begin_op, Durable, View, onDisk, inCache
    <2>4. QED
      BY <2>1, <2>2, <2>3 DEF Abstract!Begin, Mem
  <1>3. ASSUME NEW p \in Proc, end_op(p) PROVE Abstract!End(p)
    <2>1. p \in Active /\ ~ committing /\ Up
      BY Zenon, <1>3, LogAssumption DEF IInv, end_op, PhaseInv, CommitAlone, Active, InOp, Up, Recovering
    <2>2. Active' = Active \ {p}
      BY <1>3, <2>1 DEF IInv, end_op, TypeOK, Active, InOp, Wakeup
    <2>3. Up'
      BY ZenonT(40), <1>3, <2>1, LogAssumption DEF IInv, end_op, TypeOK, Up, Recovering, Wakeup
    <2>4. Durable' = Durable /\ View' = View
      BY Zenon, <1>3 DEF end_op, Durable, View, onDisk, inCache
    <2>5. QED
      BY <2>1, <2>2, <2>3, <2>4 DEF Abstract!End, Mem
  <1>4. ASSUME NEW p \in Proc, NEW b \in Block, NEW v \in Value, modify(p, b, v)
        PROVE  Abstract!Write(p, b, v)
    <2>1. Up /\ Up' /\ p \in Active /\ Active' = Active
      BY ZenonT(40), <1>4, LogAssumption DEF IInv, modify, TypeOK, PhaseInv, Up, Recovering, Active, InOp
    <2>2. Durable' = Durable
      BY Zenon, <1>4 DEF modify, Durable, onDisk
    <2>3. View' = [View EXCEPT ![b] = v]
      BY Zenon, <1>4, LogAssumption DEF IInv, modify, TypeOK, View, onDisk
    <2>4. QED
      BY <2>1, <2>2, <2>3 DEF Abstract!Write, Mem
  <1>5. ASSUME crash PROVE Abstract!Crash
    <2>1. ~ Up' /\ Active' = {}
      BY <1>5, LogAssumption DEF crash, Up, Recovering, Active, InOp
    <2>2. Durable' = Durable
      BY <1>5 DEF crash, Durable, onDisk
    <2>3. QED
      BY <2>1, <2>2 DEF Abstract!Crash, Mem
  <1>6. ASSUME UNCHANGED vars PROVE Invisible
    BY <1>6 DEF vars, Invisible, Mem, Up, Durable, View, Active
  <1>7. ASSUME NEW p \in Proc, Step(p) PROVE [Abstract!Next]_(Abstract!vars)
    BY <1>1, <1>2, <1>3, <1>4, <1>7, WriteHeadCommits, InstallInvisible, RecoverClearInvisible,
       ClearHeadInvisible, WriteLogInvisible, OthersInvisible DEF Step, Abstract!Next
  <1>8. QED
    BY <1>1, <1>5, <1>6, <1>7, EvictInvisible DEF Next, Abstract!Next

\* The log implements the atomic disk of module AtomicDisk: whatever happens,
\* crashes in the middle of a commit or of a recovery included, the disk moves
\* from one committed state to the next and never shows part of an operation.
THEOREM Refinement == Spec => AtomicCommit
  <1>1. IInv /\ IInv' /\ [Next]_vars => [Abstract!Next]_(Abstract!vars)
    BY StepRefines
  <1>2. QED
    BY <1>1, InitRefines, Invariant, PTL DEF Spec, AtomicCommit, Abstract!Spec
=============================================================================
