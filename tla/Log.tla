-------------------------------- MODULE Log --------------------------------
(***************************************************************************)
(* The write-ahead log of xv6 (xv6/log.c) over the buffer cache and the    *)
(* disk, with crashes between any two disk writes.                         *)
(*                                                                         *)
(* A process runs FS system calls: begin_op, any number of block updates,  *)
(* each ending in log_write, and end_op; the last end_op commits.  A       *)
(* critical section of log.lock is one step, a disk write (one sector) is  *)
(* one step, and the two tests log_write makes BEFORE it takes the lock    *)
(* are a step of their own.  The blocks of the log are always written      *)
(* through, so their cached copies are not modelled; those of the home     *)
(* blocks are, because only B_DIRTY keeps an uncommitted one in memory.    *)
(***************************************************************************)
EXTENDS Integers, Sequences, FiniteSets, Functions

CONSTANTS Proc,         \* kernel threads that make FS system calls
          InitProc,     \* the one whose first run calls initlog (forkret)
          Block,        \* home blocks
          Value,        \* block contents
          Zero,         \* a block mkfs has cleared
          Nil,          \* no cached copy / no block
          MAXOPBLOCKS,  \* blocks begin_op reserves for an operation
          MaxOpWrites,  \* blocks an operation really writes
          LOGSIZE,      \* entries of struct logheader
          NLOG,         \* sb.nlog: blocks of the log, header included
          BSIZE         \* bytes of a block

\* The last conjunct is the test of initlog (struct logheader fits a block).
ASSUME LogAssumption ==
    /\ InitProc \in Proc /\ IsFiniteSet(Proc) /\ IsFiniteSet(Block)
    /\ Zero \in Value /\ Nil \notin Value /\ Nil \notin Block
    /\ MAXOPBLOCKS \in Nat \ {0} /\ MaxOpWrites \in Nat
    /\ LOGSIZE \in Nat /\ NLOG \in Nat \ {0}
    /\ BSIZE \in Nat /\ 4 * (LOGSIZE + 1) < BSIZE

\* What the log's size must satisfy for log_write's tests never to fail: with
\* one operation in the log it is MaxOpWrites blocks long at most, with k > 1 of them
\* begin_op has left k * (MAXOPBLOCKS - MaxOpWrites) of LOGSIZE unused.
Sized == /\ MaxOpWrites <= MAXOPBLOCKS
         /\ MaxOpWrites + 2 <= NLOG /\ NLOG <= LOGSIZE + 1
         /\ LOGSIZE + 2 <= NLOG + 2 * (MAXOPBLOCKS - MaxOpWrites)

VARIABLES disk,         \* the home blocks on disk
          dlog,         \* the log's data blocks on disk
          dhead,        \* the log's header on disk: the committed block numbers
          lh,           \* log.lh, in memory
          outstanding,  \* log.outstanding
          committing,   \* log.committing
          cached,       \* the copy the buffer cache holds of a block, or Nil
          dirty,        \* the blocks whose buffer has B_DIRTY
          pc, cur, tail, wrote  \* per process: control, locked buffer, loop index,
                                \* the blocks its operation has logged

onDisk == <<disk, dlog, dhead>>
inLog  == <<lh, outstanding, committing>>
inCache == <<cached, dirty>>
vars == <<disk, dlog, dhead, lh, outstanding, committing, cached, dirty,
          pc, cur, tail, wrote>>

LogSlots == 1 .. (NLOG - 1)

InOp       == {"op", "log_write", "log_append", "panic"}
Committing == {"write_log", "write_head", "install_trans", "clear_head", "commit_done"}
Recovering == {"read_head", "recover_trans", "recover_clear"}
Control    == {"off", "user", "sleep", "begin_op"} \cup InOp \cup Committing \cup Recovering

Active == {p \in Proc : pc[p] \in InOp}
Up     == pc[InitProc] \notin Recovering
Locked(b) == \E p \in Proc : cur[p] = b

\* What bread(b) returns: the cached copy, or else the disk's.
View == [b \in Block |-> IF cached[b] # Nil THEN cached[b] ELSE disk[b]]

\* What recover_from_log would leave in the home blocks.
Durable == [b \in Block |->
              IF \E i \in DOMAIN dhead : dhead[i] = b
              THEN dlog[CHOOSE i \in DOMAIN dhead : dhead[i] = b]
              ELSE disk[b]]

-----------------------------------------------------------------------------
\* The machine boots on a disk mkfs made: an empty header, a cleared log.
Init == /\ disk \in [Block -> Value]
        /\ dlog = [i \in LogSlots |-> Zero]
        /\ dhead = << >>
        /\ lh = << >> /\ outstanding = 0 /\ committing = FALSE
        /\ cached = [b \in Block |-> Nil] /\ dirty = {}
        /\ pc = [p \in Proc |-> IF p = InitProc THEN "read_head" ELSE "off"]
        /\ cur = [p \in Proc |-> Nil]
        /\ tail = [p \in Proc |-> 0]
        /\ wrote = [p \in Proc |-> {}]

\* Faulty variant: wakeup() forgotten.
Wakeup_Forgotten(f) == f

\* wakeup(&log): every process asleep on the log tests its condition again.
Wakeup(f) == [q \in Proc |-> IF f[q] = "sleep" THEN "begin_op" ELSE f[q]]

-----------------------------------------------------------------------------
\* initlog -> recover_from_log, by the first process.
read_head(p) ==
    /\ pc[p] = "read_head"
    /\ lh' = dhead
    /\ tail' = [tail EXCEPT ![p] = 0]
    /\ pc' = [pc EXCEPT ![p] = IF dhead = << >> THEN "recover_clear" ELSE "recover_trans"]
    /\ UNCHANGED <<onDisk, outstanding, committing, inCache, cur, wrote>>

\* One iteration of install_trans, for a commit or for a recovery.
install_trans(p) ==
    LET i == tail[p] + 1
        b == lh[i]
    IN  /\ pc[p] \in {"install_trans", "recover_trans"}
        /\ ~ Locked(b)
        /\ disk' = [disk EXCEPT ![b] = dlog[i]]
        /\ cached' = [cached EXCEPT ![b] = dlog[i]]
        /\ dirty' = dirty \ {b}
        /\ tail' = [tail EXCEPT ![p] = i]
        /\ pc' = IF i < Len(lh) THEN pc
                 ELSE [pc EXCEPT ![p] = IF pc[p] = "install_trans" THEN "clear_head"
                                                                   ELSE "recover_clear"]
        /\ UNCHANGED <<dlog, dhead, inLog, cur, wrote>>

\* log.lh.n = 0; write_head(), the end of recover_from_log: the other
\* processes are only created after it.
recover_clear(p) ==
    /\ pc[p] = "recover_clear"
    /\ lh' = << >> /\ dhead' = << >>
    /\ pc' = [q \in Proc |-> "user"]
    /\ UNCHANGED <<disk, dlog, outstanding, committing, inCache, cur, tail, wrote>>

-----------------------------------------------------------------------------
\* Faulty variants: no test of log.committing; only lh.n counted, not what the
\* operations already running may still add.
MustWait_CommitIgnored == Len(lh) + (outstanding + 1) * MAXOPBLOCKS > LOGSIZE
MustWait_NoReservation == committing \/ Len(lh) + MAXOPBLOCKS > LOGSIZE

\* The condition under which begin_op sleeps.
MustWait == committing \/ Len(lh) + (outstanding + 1) * MAXOPBLOCKS > LOGSIZE

begin_op_sleep(p) ==
    /\ pc[p] \in {"user", "begin_op"}
    /\ MustWait
    /\ pc' = [pc EXCEPT ![p] = "sleep"]
    /\ UNCHANGED <<onDisk, inLog, inCache, cur, tail, wrote>>

begin_op(p) ==
    /\ pc[p] \in {"user", "begin_op"}
    /\ ~ MustWait
    /\ outstanding' = outstanding + 1
    /\ pc' = [pc EXCEPT ![p] = "op"]
    /\ wrote' = [wrote EXCEPT ![p] = {}]
    /\ UNCHANGED <<onDisk, lh, committing, inCache, cur, tail>>

\* bp = bread(b), then the caller changes bp->data; bp stays locked.
modify(p, b, v) ==
    /\ pc[p] = "op"
    /\ ~ Locked(b)
    /\ Cardinality(wrote[p] \cup {b}) <= MaxOpWrites
    /\ cur' = [cur EXCEPT ![p] = b]
    /\ cached' = [cached EXCEPT ![b] = v]
    /\ pc' = [pc EXCEPT ![p] = "log_write"]
    /\ UNCHANGED <<onDisk, inLog, dirty, tail, wrote>>

\* The tests of log_write, made without log.lock.
log_write(p) ==
    /\ pc[p] = "log_write"
    /\ pc' = [pc EXCEPT ![p] = IF \/ Len(lh) >= LOGSIZE
                                  \/ Len(lh) >= NLOG - 1
                                  \/ outstanding < 1
                               THEN "panic" ELSE "log_append"]
    /\ UNCHANGED <<onDisk, inLog, inCache, cur, tail, wrote>>

\* Faulty variant: the buffer is not marked B_DIRTY.
Pin_Forgotten(b) == dirty

\* b->flags |= B_DIRTY.
Pin(b) == dirty \cup {b}

\* The rest of log_write, under log.lock, and the caller's brelse.
log_append(p) ==
    /\ pc[p] = "log_append"
    /\ lh' = IF cur[p] \in Range(lh) THEN lh ELSE Append(lh, cur[p])
    /\ dirty' = Pin(cur[p])
    /\ wrote' = [wrote EXCEPT ![p] = @ \cup {cur[p]}]
    /\ cur' = [cur EXCEPT ![p] = Nil]
    /\ pc' = [pc EXCEPT ![p] = "op"]
    /\ UNCHANGED <<onDisk, outstanding, committing, cached, tail>>

\* The test of commit().
NothingToCommit == lh = << >>

\* end_op up to its first release(&log.lock).
end_op(p) ==
    /\ pc[p] = "op"
    /\ outstanding' = outstanding - 1
    /\ IF committing
       THEN pc' = [pc EXCEPT ![p] = "panic"] /\ UNCHANGED <<committing, tail>>
       ELSE IF outstanding = 1
       THEN /\ committing' = TRUE
            /\ tail' = [tail EXCEPT ![p] = 0]
            /\ pc' = [pc EXCEPT ![p] = IF NothingToCommit THEN "commit_done" ELSE "write_log"]
       ELSE /\ pc' = Wakeup([pc EXCEPT ![p] = "user"])
            /\ UNCHANGED <<committing, tail>>
    /\ UNCHANGED <<onDisk, lh, inCache, cur, wrote>>

-----------------------------------------------------------------------------
\* One iteration of write_log.
write_log(p) ==
    LET i == tail[p] + 1
        b == lh[i]
    IN  /\ pc[p] = "write_log"
        /\ ~ Locked(b)
        /\ dlog' = [dlog EXCEPT ![i] = View[b]]
        /\ cached' = [cached EXCEPT ![b] = View[b]]
        /\ tail' = [tail EXCEPT ![p] = i]
        /\ pc' = IF i < Len(lh) THEN pc ELSE [pc EXCEPT ![p] = "write_head"]
        /\ UNCHANGED <<disk, dhead, inLog, dirty, cur, wrote>>

\* The commit point.
write_head(p) ==
    /\ pc[p] = "write_head"
    /\ dhead' = lh
    /\ tail' = [tail EXCEPT ![p] = 0]
    /\ pc' = [pc EXCEPT ![p] = "install_trans"]
    /\ UNCHANGED <<disk, dlog, inLog, inCache, cur, wrote>>

\* log.lh.n = 0; write_head(), the end of commit().
clear_head(p) ==
    /\ pc[p] = "clear_head"
    /\ lh' = << >> /\ dhead' = << >>
    /\ pc' = [pc EXCEPT ![p] = "commit_done"]
    /\ UNCHANGED <<disk, dlog, outstanding, committing, inCache, cur, tail, wrote>>

\* The second critical section of end_op.
commit_done(p) ==
    /\ pc[p] = "commit_done"
    /\ committing' = FALSE
    /\ pc' = Wakeup([pc EXCEPT ![p] = "user"])
    /\ UNCHANGED <<onDisk, lh, outstanding, inCache, cur, tail, wrote>>

-----------------------------------------------------------------------------
\* bget recycles the buffer of b for another block: no one has it locked
\* and it is not B_DIRTY.
evict(b) ==
    /\ cached[b] # Nil
    /\ ~ Locked(b) /\ b \notin dirty
    /\ cached' = [cached EXCEPT ![b] = Nil]
    /\ UNCHANGED <<onDisk, inLog, dirty, pc, cur, tail, wrote>>

\* Power failure: only the disk survives and the machine boots again.
crash ==
    /\ lh' = << >> /\ outstanding' = 0 /\ committing' = FALSE
    /\ cached' = [b \in Block |-> Nil] /\ dirty' = {}
    /\ pc' = [p \in Proc |-> IF p = InitProc THEN "read_head" ELSE "off"]
    /\ cur' = [p \in Proc |-> Nil]
    /\ tail' = [p \in Proc |-> 0]
    /\ wrote' = [p \in Proc |-> {}]
    /\ UNCHANGED onDisk

Step(p) == \/ read_head(p) \/ install_trans(p) \/ recover_clear(p)
           \/ begin_op_sleep(p) \/ begin_op(p)
           \/ \E b \in Block, v \in Value : modify(p, b, v)
           \/ log_write(p) \/ log_append(p) \/ end_op(p)
           \/ write_log(p) \/ write_head(p) \/ clear_head(p) \/ commit_done(p)

Next == \/ \E p \in Proc : Step(p)
        \/ \E b \in Block : evict(b)
        \/ crash

Spec == Init /\ [][Next]_vars

\* A process inside the kernel keeps running; one in user space need not make
\* a system call.  A system call is a finite loop, so it reaches end_op.
Fairness == \A p \in Proc :
    /\ WF_vars(pc[p] # "user" /\ Step(p))
    /\ SF_vars(end_op(p))

FairSpec == Spec /\ Fairness

-----------------------------------------------------------------------------
TypeOK ==
    /\ disk \in [Block -> Value]
    /\ dlog \in [LogSlots -> Value]
    /\ dhead \in Seq(Block) /\ lh \in Seq(Block)
    /\ outstanding \in Nat /\ committing \in BOOLEAN
    /\ cached \in [Block -> Value \cup {Nil}]
    /\ dirty \subseteq Block
    /\ pc \in [Proc -> Control]
    /\ cur \in [Proc -> Block \cup {Nil}]
    /\ tail \in [Proc -> Nat]
    /\ wrote \in [Proc -> SUBSET Block]

\* No process ever panics in log_write ("too big a transaction", "log_write
\* outside of trans") or in end_op ("log.committing"): the reservation that
\* begin_op makes is enough for whatever the admitted operations write.
NoPanic == \A p \in Proc : pc[p] # "panic"

\* log_write's unlocked test never lets the log grow past its blocks on disk,
\* so write_log stays inside the log area.
LogFits == Len(lh) <= NLOG - 1

\* "Log appends are synchronous": when no operation runs and no commit is in
\* progress, what a read returns is what a reboot would find.
QuiescentDurable ==
    Up /\ outstanding = 0 /\ ~ committing => lh = << >> /\ Durable = View

\* A commit only runs when no FS system call is active (log.c, header
\* comment), and only one process runs it.
CommitAlone ==
    \A p \in Proc : pc[p] \in Committing =>
        /\ Active = {} /\ committing
        /\ \A q \in Proc \ {p} : pc[q] \notin Committing

\* What the file system would read: while recovery runs nobody reads.
Mem == IF Up THEN View ELSE Durable

\* The log implements the atomic disk: a read sees the cache, a reboot what
\* recovery rebuilds, and all else the code does is invisible.
Abstract == INSTANCE AtomicDisk
    WITH mem <- Mem, durable <- Durable, active <- Active
AtomicCommit == Abstract!Spec

\* No lost wakeup: a process begin_op put to sleep is always woken, by the
\* commit it waits for or by an end_op that returned reserved space.
SleeperWakes == \A p \in Proc : pc[p] = "sleep" ~> pc[p] # "sleep"

\* A commit that starts ends (or the machine crashes), so begin_op does not
\* refuse operations for ever.
CommitEnds == committing ~> ~ committing

\* The log gets on: nobody stays asleep in begin_op, and every commit ends.
LogProgress == SleeperWakes /\ CommitEnds
=============================================================================
