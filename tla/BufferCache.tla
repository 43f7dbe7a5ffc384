---------------------------- MODULE BufferCache ----------------------------
(***************************************************************************)
(* The buffer cache and the IDE driver of xv6 (xv6/bio.c, xv6/ide.c).      *)
(*                                                                         *)
(* Processes read blocks, change them under the buffer's sleep lock, and   *)
(* either write them (bwrite) or pin them for the log (log_write sets      *)
(* B_DIRTY, a later bwrite clears it).  The disk serves one request at a   *)
(* time and interrupts; a read may fail.  A copy of a block is "current",  *)
(* "stale" (changed elsewhere since) or "lost" (it goes back to a read     *)
(* that failed).                                                           *)
(***************************************************************************)
EXTENDS Integers, Sequences, FiniteSets

CONSTANTS BProc, BNone,
          BBlock,        \* block numbers in use; dev is always ROOTDEV
          Written,       \* those that the processes change
          Unreadable,    \* those whose reads may fail
          NBUF,          \* number of buffers
          MaxPinned      \* blocks that the log pins at a time: LOGSIZE

ASSUME BufferAssumption == NBUF \in Nat /\ MaxPinned \in Nat /\ BNone \notin BProc \cup BBlock /\ IsFiniteSet(BProc)
                           /\ Written \subseteq BBlock /\ Unreadable \subseteq BBlock

VARIABLES buf,        \* bcache.buf
          lru,        \* the list, most recently used first
          idequeue,   \* buffers with a request
          active,     \* the disk works on the first of them
          bdisk,      \* the disk's copy of each block
          bpc, bcur,  \* what a process does, and its buffer
          bpanic

bvars == <<buf, lru, idequeue, active, bdisk, bpc, bcur, bpanic>>

Buffers == 1 .. NBUF

\* binit: the buffers are of device 0, which is no block of the file system.
BInit ==
    /\ buf = [i \in Buffers |-> [blockno |-> BNone, valid |-> FALSE, dirty |-> FALSE, refcnt |-> 0,
                                 data |-> "stale", owner |-> BNone]]
    /\ lru = [i \in Buffers |-> NBUF + 1 - i]
    /\ idequeue = << >> /\ active = FALSE
    /\ bdisk = [b \in BBlock |-> "current"]
    /\ bpc = [p \in BProc |-> "idle"] /\ bcur = [p \in BProc |-> 0]
    /\ bpanic = FALSE

\* Faulty variant: only buffers in use are searched.
IsCached_InUse(i, b) == buf[i].blockno = b /\ buf[i].refcnt > 0

\* bget's first loop looks for this.
IsCached(i, b) == buf[i].blockno = b

\* Faulty variant: pinned buffers are recycled.
Recyclable_Pinned(i) == buf[i].refcnt = 0

\* And its second loop, from the end of the list, for this.
Recyclable(i) == buf[i].refcnt = 0 /\ ~ buf[i].dirty

\* bget up to acquiresleep
bget(p, b) ==
    /\ bpc[p] = "idle" /\ ~ bpanic
    /\ LET cached == {n \in 1 .. NBUF : IsCached(lru[n], b)}
           free == {n \in 1 .. NBUF : Recyclable(lru[n])}
           first == lru[CHOOSE n \in cached : \A m \in cached : n <= m]
           last == lru[CHOOSE n \in free : \A m \in free : n >= m]
       IN  IF cached = {} /\ free = {}
           THEN bpanic' = TRUE /\ UNCHANGED <<buf, bpc, bcur>>
           ELSE /\ IF cached # {}
                   THEN buf' = [buf EXCEPT ![first].refcnt = @ + 1]
                   ELSE buf' = [buf EXCEPT ![last] = [@ EXCEPT !.blockno = b, !.valid = FALSE, !.dirty = FALSE,
                                                               !.refcnt = 1, !.data = "stale"]]
                /\ bcur' = [bcur EXCEPT ![p] = IF cached # {} THEN first ELSE last]
                /\ bpc' = [bpc EXCEPT ![p] = "lock"]
                /\ UNCHANGED bpanic
    /\ UNCHANGED <<lru, idequeue, active, bdisk>>

\* iderw starts the disk when its request is the first.
StartIfIdle(q) == active \/ q = << >>

\* The buffer is queued.
Queue(i) == idequeue' = Append(idequeue, i) /\ active' = StartIfIdle(idequeue)

\* bread once it has the sleep lock: iderw unless the buffer is valid
bread(p) ==
    /\ bpc[p] = "lock" /\ buf[bcur[p]].owner = BNone
    /\ buf' = [buf EXCEPT ![bcur[p]].owner = p]
    /\ IF buf[bcur[p]].valid
       THEN bpc' = [bpc EXCEPT ![p] = "held"] /\ UNCHANGED <<idequeue, active>>
       ELSE bpc' = [bpc EXCEPT ![p] = "io"] /\ Queue(bcur[p])
    /\ UNCHANGED <<lru, bdisk, bcur, bpanic>>

\* The holder changes the data: it must write or pin the buffer then.
change(p) ==
    /\ bpc[p] = "held" /\ buf[bcur[p]].blockno \in Written
    /\ bdisk' = [bdisk EXCEPT ![buf[bcur[p]].blockno] = "stale"]
    /\ bpc' = [bpc EXCEPT ![p] = "changed"]
    /\ UNCHANGED <<buf, lru, idequeue, active, bcur, bpanic>>

Pinned == {i \in Buffers : buf[i].dirty /\ \A n \in DOMAIN idequeue : idequeue[n] # i}

\* log_write: the buffer stays dirty until a bwrite
pin(p) ==
    /\ bpc[p] = "changed" /\ Cardinality(Pinned \cup {bcur[p]}) <= MaxPinned
    /\ buf' = [buf EXCEPT ![bcur[p]].dirty = TRUE]
    /\ bpc' = [bpc EXCEPT ![p] = "held"]
    /\ UNCHANGED <<lru, idequeue, active, bdisk, bcur, bpanic>>

bwrite(p) ==
    /\ bpc[p] = "changed" \/ (bpc[p] = "held" /\ buf[bcur[p]].dirty)
    /\ buf' = [buf EXCEPT ![bcur[p]].dirty = TRUE]
    /\ bpc' = [bpc EXCEPT ![p] = "io"]
    /\ Queue(bcur[p])
    /\ UNCHANGED <<lru, bdisk, bcur, bpanic>>

\* Faulty variant: the next request is not started.
StartNext_Never(q) == FALSE

\* ideintr starts the next request.
StartNext(q) == q # << >>

\* The interrupt at the end of the first request; a read that fails leaves the
\* old data, and B_VALID is set all the same.
ideintr ==
    /\ active
    /\ LET i == Head(idequeue)
           b == buf[i].blockno
       IN  /\ \E ok \in {TRUE, buf[i].dirty \/ b \notin Unreadable} :
                  buf' = [buf EXCEPT ![i] = [@ EXCEPT !.valid = TRUE, !.dirty = FALSE,
                                                      !.data = IF ~ ok THEN "lost" ELSE IF buf[i].dirty THEN buf[i].data ELSE bdisk[b]]]
           /\ bdisk' = IF buf[i].dirty THEN [bdisk EXCEPT ![b] = buf[i].data] ELSE bdisk
    /\ idequeue' = Tail(idequeue)
    /\ active' = StartNext(Tail(idequeue))
    /\ UNCHANGED <<lru, bpc, bcur, bpanic>>

\* iderw's loop ends.
Done(i) == buf[i].valid /\ ~ buf[i].dirty

\* The end of iderw: the sleeper finds its request done.
iderw(p) ==
    /\ bpc[p] = "io" /\ Done(bcur[p])
    /\ bpc' = [bpc EXCEPT ![p] = "held"]
    /\ UNCHANGED <<buf, lru, idequeue, active, bdisk, bcur, bpanic>>

\* brelse: releasesleep
brelse(p) ==
    /\ bpc[p] = "held"
    /\ buf' = [buf EXCEPT ![bcur[p]].owner = BNone]
    /\ bpc' = [bpc EXCEPT ![p] = "put"]
    /\ UNCHANGED <<lru, idequeue, active, bdisk, bcur, bpanic>>

\* Faulty variant: a buffer that others wait for keeps the reference.
Released_Kept(n) == IF n > 1 THEN n ELSE 0

\* b->refcnt--
Released(n) == n - 1

\* The list with buffer x at its front: those before it move one place back.
MovedToFront(x) ==
    LET k == CHOOSE m \in 1 .. NBUF : lru[m] = x
    IN  [m \in 1 .. NBUF |-> IF m = 1 THEN x ELSE IF m <= k THEN lru[m - 1] ELSE lru[m]]

\* brelse: the reference, and the place in the list
bput(p) ==
    /\ bpc[p] = "put"
    /\ buf' = [buf EXCEPT ![bcur[p]].refcnt = Released(@)]
    /\ lru' = IF buf[bcur[p]].refcnt = 1 THEN MovedToFront(bcur[p]) ELSE lru
    /\ bpc' = [bpc EXCEPT ![p] = "idle"] /\ bcur' = [bcur EXCEPT ![p] = 0]
    /\ UNCHANGED <<idequeue, active, bdisk, bpanic>>

BNext ==
    \/ \E p \in BProc : \/ \E b \in BBlock : bget(p, b)
                        \/ bread(p) \/ change(p) \/ pin(p) \/ bwrite(p) \/ iderw(p) \/ brelse(p) \/ bput(p)
    \/ ideintr

\* The disk answers, and a process that can run does.
BFair == WF_bvars(ideintr) /\ \A p \in BProc : WF_bvars(bread(p) \/ iderw(p))

BSpec == BInit /\ [][BNext]_bvars /\ BFair

-----------------------------------------------------------------------------
\* "At most one buffer" per block, found or recycled at any moment: what makes the
\* sleep lock of a buffer the lock of its block.
OneBufferPerBlock ==
    \A i, j \in Buffers : buf[i].blockno = buf[j].blockno /\ buf[i].blockno # BNone => i = j

\* bread returns what the last change left, also when that is pinned and not yet on
\* the disk: never a copy that was changed elsewhere since.
ReadsLatest == \A p \in BProc : bpc[p] = "held" => buf[bcur[p]].data # "stale"

\* A buffer in the driver's queue is there once, locked, with its owner waiting for it.
QueueOwned ==
    /\ \A m, n \in DOMAIN idequeue : idequeue[m] = idequeue[n] => m = n
    /\ \A n \in DOMAIN idequeue : \E p \in BProc : bcur[p] = idequeue[n] /\ bpc[p] = "io" /\ buf[idequeue[n]].owner = p

\* bget finds a buffer as long as there are more than the log pins and the
\* processes use: "bget: no buffers" is not reached.
BuffersSuffice == NBUF >= MaxPinned + Cardinality(BProc) => ~ bpanic

\* The driver's queue and the supply of buffers: requests belong to one waiting owner each, and
\* bget does not run out.
RequestsRight == QueueOwned /\ BuffersSuffice

\* Every request is served: no process sleeps in iderw for ever.
RequestServed == \A p \in BProc : []<>(bpc[p] # "io")
=============================================================================
