-------------------------- MODULE BufferCacheProofs --------------------------
(***************************************************************************)
(* One buffer per block, reads that return the latest change, requests     *)
(* with one owner each and enough buffers, for any number of processes,    *)
(* blocks and buffers.                                                     *)
(***************************************************************************)
EXTENDS BufferCache, FiniteSetTheorems, WellFoundedInduction, TLAPS

-----------------------------------------------------------------------------
(* The inductive invariant *)

Copy == {"current", "stale", "lost"}

BufType == [blockno : BBlock \cup {BNone}, valid : BOOLEAN, dirty : BOOLEAN, refcnt : Int,
            data : Copy, owner : BProc \cup {BNone}]

BTypes ==
    /\ buf \in [Buffers -> BufType]
    /\ lru \in [Buffers -> Buffers] /\ idequeue \in Seq(Buffers) /\ active \in BOOLEAN
    /\ bdisk \in [BBlock -> Copy]
    /\ bpc \in [BProc -> {"idle", "lock", "io", "held", "changed", "put"}]
    /\ bcur \in [BProc -> Buffers \cup {0}] /\ bpanic \in BOOLEAN

\* The list has every buffer.
Listed == \A i \in Buffers : \E m \in Buffers : lru[m] = i

\* The processes that have got a buffer and not yet put it
Users(i) == {p \in BProc : bcur[p] = i}

\* b->refcnt counts them, and a buffer in use is some block's.
Counted == /\ \A p \in BProc : bcur[p] = 0 <=> bpc[p] = "idle"
           /\ \A p \in BProc : bpc[p] # "idle" => buf[bcur[p]].blockno # BNone
           /\ \A i \in Buffers : buf[i].refcnt = Cardinality(Users(i))

\* The sleep lock of a buffer is with the process that is between bread and brelse.
Owners == \A i \in Buffers : \A p \in BProc :
              buf[i].owner = p <=> bcur[p] = i /\ bpc[p] \in {"io", "held", "changed"}

\* What is returned, and what is to be written, has been read.
Filled == /\ \A p \in BProc : bpc[p] \in {"held", "changed"} => buf[bcur[p]].valid
          /\ \A i \in Buffers : /\ buf[i].dirty => buf[i].valid /\ buf[i].blockno # BNone
                                /\ buf[i].valid => buf[i].data # "stale"

\* While the disk's copy of a block is out of date there is a buffer with the new one, which
\* cannot be recycled: it is dirty, or its owner has yet to write or pin it.
Kept == \A b \in BBlock : bdisk[b] = "stale" =>
            \E i \in Buffers : /\ buf[i].blockno = b
                               /\ buf[i].dirty \/ \E p \in BProc : bcur[p] = i /\ bpc[p] = "changed"

\* The disk is at work when there are requests, and a request in the queue is not yet done.
Requests == /\ active <=> idequeue # << >>
            /\ \A m \in DOMAIN idequeue : ~ Done(idequeue[m])

BInv == /\ BTypes /\ Listed /\ Counted /\ Owners /\ Filled /\ Kept /\ Requests /\ QueueOwned /\ OneBufferPerBlock
        /\ Cardinality(Pinned) <= MaxPinned /\ BuffersSuffice

-----------------------------------------------------------------------------
(* What the actions do *)

\* What the assumptions say of the buffers.
LEMMA BufferFacts == /\ NBUF \in Nat /\ MaxPinned \in Nat /\ 0 \notin Buffers /\ Buffers \subseteq Nat
                     /\ BNone \notin BProc /\ BNone \notin BBlock
  BY BufferAssumption DEF Buffers

\* A set of places in the list has a first one, ...
LEMMA FirstPlace == ASSUME NEW S, S \subseteq Nat, S # {} PROVE \E n \in S : \A m \in S : n <= m
  <1> DEFINE R == OpToRel(<, Nat)
  <1>1. IsWellFoundedOn(R, Nat)
    BY Zenon, NatLessThanWellFounded
  <1> HIDE DEF R
  <1>2. PICK n \in S : \A m \in S : ~ (<<m, n>> \in R)
    BY Zenon, <1>1, WFMin
  <1>3. ASSUME NEW m \in S PROVE n <= m
    <2>1. ~ (m < n)
      BY Zenon, <1>2 DEF R, OpToRel
    <2>2. QED
      BY <2>1
  <1>4. QED
    BY Zenon, <1>3

\* ... and a last one.
LEMMA LastPlace == ASSUME NEW S, S \subseteq Buffers, S # {} PROVE \E n \in S : \A m \in S : n >= m
  <1> DEFINE T == {NBUF - m : m \in S}
  <1>1. T \subseteq Nat /\ T # {}
    <2>1. \A m \in S : NBUF - m \in Nat
      BY BufferFacts DEF Buffers
    <2>2. QED
      BY Zenon, <2>1
  <1>2. PICK t \in T : \A u \in T : t <= u
    BY Zenon, <1>1, FirstPlace
  <1>3. PICK n \in S : t = NBUF - n
    BY <1>2
  <1>4. ASSUME NEW m \in S PROVE n >= m
    <2>1. NBUF - m \in T
      OBVIOUS
    <2>2. NBUF - n <= NBUF - m
      BY <1>2, <1>3, <2>1
    <2>3. QED
      BY <2>2, BufferFacts DEF Buffers
  <1>5. QED
    BY Zenon, <1>4

\* Of all buffers, at most i changes, to these values.
Becomes(i, bn, v, d, r, c, o) ==
    /\ \A j \in Buffers \ {i} : buf'[j] = buf[j]
    /\ buf'[i].blockno = bn /\ (buf'[i].valid <=> v) /\ (buf'[i].dirty <=> d)
    /\ buf'[i].refcnt = r /\ buf'[i].data = c /\ buf'[i].owner = o

\* Changes of one buffer keep the types and its other fields: of the reference count,
LEMMA SetRefcnt == ASSUME BTypes, NEW i \in Buffers, NEW r \in Int, buf' = [buf EXCEPT ![i].refcnt = r]
                   PROVE  /\ Becomes(i, buf[i].blockno, buf[i].valid, buf[i].dirty, r, buf[i].data, buf[i].owner)
                          /\ buf' \in [Buffers -> BufType]
  BY ZenonT(40) DEF BTypes, BufType, Becomes

\* of the holder of the sleep lock,
LEMMA SetOwner == ASSUME BTypes, NEW i \in Buffers, NEW o \in BProc \cup {BNone}, buf' = [buf EXCEPT ![i].owner = o]
                  PROVE  /\ Becomes(i, buf[i].blockno, buf[i].valid, buf[i].dirty, buf[i].refcnt, buf[i].data, o)
                         /\ buf' \in [Buffers -> BufType]
  BY Zenon DEF BTypes, BufType, Becomes

\* of the dirty flag,
LEMMA SetDirty == ASSUME BTypes, NEW i \in Buffers, buf' = [buf EXCEPT ![i].dirty = TRUE]
                  PROVE  /\ Becomes(i, buf[i].blockno, buf[i].valid, TRUE, buf[i].refcnt, buf[i].data, buf[i].owner)
                         /\ buf' \in [Buffers -> BufType]
  BY ZenonT(40) DEF BTypes, BufType, Becomes

\* at the end of a request,
LEMMA SetDone == ASSUME BTypes, NEW i \in Buffers, NEW c \in Copy,
                        buf' = [buf EXCEPT ![i] = [@ EXCEPT !.valid = TRUE, !.dirty = FALSE, !.data = c]]
                 PROVE  /\ Becomes(i, buf[i].blockno, TRUE, FALSE, buf[i].refcnt, c, buf[i].owner)
                        /\ buf' \in [Buffers -> BufType]
  <1>1. PICK r : r = [buf[i] EXCEPT !.valid = TRUE, !.dirty = FALSE, !.data = c]
    OBVIOUS
  <1>2. buf[i] \in BufType
    BY Zenon DEF BTypes
  <1>3. /\ r.blockno = buf[i].blockno /\ r.valid = TRUE /\ r.dirty = FALSE
        /\ r.refcnt = buf[i].refcnt /\ r.data = c /\ r.owner = buf[i].owner
    BY <1>1, <1>2 DEF BufType
  <1>4. r \in BufType
    BY Zenon, <1>1, <1>2 DEF BufType
  <1>5. buf' = [buf EXCEPT ![i] = r]
    BY Zenon, <1>1
  <1>6. buf'[i] = r /\ (\A j \in Buffers \ {i} : buf'[j] = buf[j]) /\ buf' \in [Buffers -> BufType]
    BY <1>4, <1>5 DEF BTypes
  <1>7. QED
    BY Zenon, <1>3, <1>6 DEF Becomes

\* and when bget gives the buffer to another block.
LEMMA SetBlock == ASSUME BTypes, NEW i \in Buffers, NEW b \in BBlock,
                         buf' = [buf EXCEPT ![i] = [@ EXCEPT !.blockno = b, !.valid = FALSE, !.dirty = FALSE,
                                                             !.refcnt = 1, !.data = "stale"]]
                  PROVE  /\ Becomes(i, b, FALSE, FALSE, 1, "stale", buf[i].owner)
                         /\ buf' \in [Buffers -> BufType]
  <1>1. PICK r : r = [buf[i] EXCEPT !.blockno = b, !.valid = FALSE, !.dirty = FALSE, !.refcnt = 1, !.data = "stale"]
    OBVIOUS
  <1>2. buf[i] \in BufType
    BY Zenon DEF BTypes
  <1>3. /\ r.blockno = b /\ r.valid = FALSE /\ r.dirty = FALSE /\ r.refcnt = 1 /\ r.data = "stale" /\ r.owner = buf[i].owner
    BY <1>1, <1>2 DEF BufType
  <1>4. r \in BufType
    <2>1. "stale" \in Copy /\ 1 \in Int
      BY DEF Copy
    <2>2. r = [blockno |-> b, valid |-> FALSE, dirty |-> FALSE, refcnt |-> 1, data |-> "stale", owner |-> buf[i].owner]
      BY Zenon, <1>1, <1>2 DEF BufType
    <2>3. buf[i].owner \in BProc \cup {BNone}
      BY <1>2 DEF BufType
    <2>4. QED
      BY Zenon, <2>1, <2>2, <2>3 DEF BufType
  <1>5. buf' = [buf EXCEPT ![i] = r]
    BY Zenon, <1>1
  <1>6. buf'[i] = r /\ (\A j \in Buffers \ {i} : buf'[j] = buf[j]) /\ buf' \in [Buffers -> BufType]
    BY <1>4, <1>5 DEF BTypes
  <1>7. QED
    BY Zenon, <1>3, <1>6 DEF Becomes

\* bget finds the block in buffer i, ...
Found(p, b, i) ==
    /\ bpc[p] = "idle" /\ buf[i].blockno = b
    /\ Becomes(i, buf[i].blockno, buf[i].valid, buf[i].dirty, buf[i].refcnt + 1, buf[i].data, buf[i].owner)
    /\ bcur' = [bcur EXCEPT ![p] = i] /\ bpc' = [bpc EXCEPT ![p] = "lock"]
    /\ UNCHANGED <<lru, idequeue, active, bdisk, bpanic>>

\* ... or recycles i, ...
Recycled(p, b, i) ==
    /\ bpc[p] = "idle" /\ (\A j \in Buffers : buf[j].blockno # b) /\ buf[i].refcnt = 0 /\ ~ buf[i].dirty
    /\ Becomes(i, b, FALSE, FALSE, 1, "stale", buf[i].owner)
    /\ bcur' = [bcur EXCEPT ![p] = i] /\ bpc' = [bpc EXCEPT ![p] = "lock"]
    /\ UNCHANGED <<lru, idequeue, active, bdisk, bpanic>>

\* ... or finds no buffer to recycle.
Exhausted(p) ==
    /\ bpc[p] = "idle" /\ \A j \in Buffers : buf[j].refcnt # 0 \/ buf[j].dirty
    /\ bpanic' = TRUE /\ UNCHANGED <<buf, lru, idequeue, active, bdisk, bpc, bcur>>

\* What bget does to the buffers: one of the kinds of change that Effects lists.
LEMMA BgetEffect ==
    ASSUME BInv, NEW p \in BProc, NEW b \in BBlock, bget(p, b)
    PROVE  /\ \/ \E i \in Buffers : Found(p, b, i) \/ Recycled(p, b, i)
              \/ Exhausted(p)
           /\ buf' \in [Buffers -> BufType]
  <1> DEFINE cached == {m \in 1 .. NBUF : IsCached(lru[m], b)}
             free == {m \in 1 .. NBUF : Recyclable(lru[m])}
             first == CHOOSE m \in cached : \A k \in cached : m <= k
             last == CHOOSE m \in free : \A k \in free : m >= k
  <1>1. BTypes /\ Listed
    BY Zenon DEF BInv
  <1>2. cached # {} => first \in cached
    <2>1. cached \subseteq Nat
      OBVIOUS
    <2>2. QED
      BY Zenon, <2>1, FirstPlace
  <1>3. free # {} => last \in free
    <2>1. free \subseteq Buffers
      BY Zenon DEF Buffers
    <2>2. QED
      BY Zenon, <2>1, LastPlace
  <1>4. /\ bpc[p] = "idle" /\ UNCHANGED <<lru, idequeue, active, bdisk>>
        /\ IF cached = {} /\ free = {}
           THEN bpanic' = TRUE /\ UNCHANGED <<buf, bpc, bcur>>
           ELSE /\ IF cached # {}
                   THEN buf' = [buf EXCEPT ![lru[first]].refcnt = @ + 1]
                   ELSE buf' = [buf EXCEPT ![lru[last]] = [@ EXCEPT !.blockno = b, !.valid = FALSE, !.dirty = FALSE,
                                                                    !.refcnt = 1, !.data = "stale"]]
                /\ bcur' = [bcur EXCEPT ![p] = IF cached # {} THEN lru[first] ELSE lru[last]]
                /\ bpc' = [bpc EXCEPT ![p] = "lock"]
                /\ UNCHANGED bpanic
    BY Zenon DEF bget
  <1>5. \A m \in 1 .. NBUF : lru[m] \in Buffers
    BY Zenon, <1>1 DEF BTypes, Buffers
  <1>6. \A m \in 1 .. NBUF : /\ m \in cached <=> buf[lru[m]].blockno = b
                             /\ m \in free <=> buf[lru[m]].refcnt = 0 /\ ~ buf[lru[m]].dirty
    BY Zenon DEF IsCached, Recyclable
  <1>7. /\ cached = {} => \A j \in Buffers : buf[j].blockno # b
        /\ free = {} => \A j \in Buffers : buf[j].refcnt # 0 \/ buf[j].dirty
    BY Zenon, <1>1, <1>6 DEF Listed, Buffers
  <1>8. cached # {} => first \in 1 .. NBUF
    BY Zenon, <1>2
  <1>9. free # {} => last \in 1 .. NBUF
    BY Zenon, <1>3
  <1> HIDE DEF cached, free, first, last
  <1>10. CASE cached = {} /\ free = {}
    BY Zenon, <1>1, <1>4, <1>7, <1>10 DEF Exhausted, BTypes
  <1>11. CASE cached # {}
    <2>1. PICK i \in Buffers : i = lru[first]
      BY Zenon, <1>5, <1>8, <1>11
    <2>2. buf[i].blockno = b
      BY Zenon, <1>2, <1>6, <1>8, <1>11, <2>1
    <2>3. buf[i].refcnt + 1 \in Int
      BY <1>1 DEF BTypes, BufType
    <2>4. buf' = [buf EXCEPT ![i].refcnt = buf[i].refcnt + 1]
      BY Zenon, <1>4, <1>11, <2>1
    <2>5. /\ Becomes(i, buf[i].blockno, buf[i].valid, buf[i].dirty, buf[i].refcnt + 1, buf[i].data, buf[i].owner)
          /\ buf' \in [Buffers -> BufType]
      BY Zenon, <1>1, <2>3, <2>4, SetRefcnt
    <2>6. QED
      BY Zenon, <1>4, <1>11, <2>1, <2>2, <2>5 DEF Found
  <1>12. CASE cached = {} /\ free # {}
    <2>1. PICK i \in Buffers : i = lru[last]
      BY Zenon, <1>5, <1>9, <1>12
    <2>2. buf[i].refcnt = 0 /\ ~ buf[i].dirty
      BY Zenon, <1>3, <1>6, <1>9, <1>12, <2>1
    <2>3. buf' = [buf EXCEPT ![i] = [@ EXCEPT !.blockno = b, !.valid = FALSE, !.dirty = FALSE, !.refcnt = 1, !.data = "stale"]]
      BY Zenon, <1>4, <1>12, <2>1
    <2>4. Becomes(i, b, FALSE, FALSE, 1, "stale", buf[i].owner) /\ buf' \in [Buffers -> BufType]
      BY Zenon, <1>1, <2>3, SetBlock
    <2>5. QED
      BY Zenon, <1>4, <1>7, <1>12, <2>1, <2>2, <2>4 DEF Recycled
  <1>13. QED
    BY Zenon, <1>10, <1>11, <1>12

\* The other actions of a process on its buffer i
Reads(p, i) ==
    /\ bcur[p] = i /\ bpc[p] = "lock" /\ buf[i].owner = BNone
    /\ Becomes(i, buf[i].blockno, buf[i].valid, buf[i].dirty, buf[i].refcnt, buf[i].data, p)
    /\ \/ buf[i].valid /\ bpc' = [bpc EXCEPT ![p] = "held"] /\ UNCHANGED <<idequeue, active>>
       \/ ~ buf[i].valid /\ bpc' = [bpc EXCEPT ![p] = "io"] /\ Queue(i)
    /\ UNCHANGED <<lru, bdisk, bcur, bpanic>>

Pins(p, i) ==
    /\ bcur[p] = i /\ bpc[p] = "changed" /\ Cardinality(Pinned \cup {i}) <= MaxPinned
    /\ Becomes(i, buf[i].blockno, buf[i].valid, TRUE, buf[i].refcnt, buf[i].data, buf[i].owner)
    /\ bpc' = [bpc EXCEPT ![p] = "held"]
    /\ UNCHANGED <<lru, idequeue, active, bdisk, bcur, bpanic>>

Writes(p, i) ==
    /\ bcur[p] = i /\ (bpc[p] = "changed" \/ bpc[p] = "held")
    /\ Becomes(i, buf[i].blockno, buf[i].valid, TRUE, buf[i].refcnt, buf[i].data, buf[i].owner)
    /\ bpc' = [bpc EXCEPT ![p] = "io"] /\ Queue(i)
    /\ UNCHANGED <<lru, bdisk, bcur, bpanic>>

Releases(p, i) ==
    /\ bcur[p] = i /\ bpc[p] = "held"
    /\ Becomes(i, buf[i].blockno, buf[i].valid, buf[i].dirty, buf[i].refcnt, buf[i].data, BNone)
    /\ bpc' = [bpc EXCEPT ![p] = "put"]
    /\ UNCHANGED <<lru, idequeue, active, bdisk, bcur, bpanic>>

Puts(p, i) ==
    /\ bcur[p] = i /\ bpc[p] = "put"
    /\ Becomes(i, buf[i].blockno, buf[i].valid, buf[i].dirty, buf[i].refcnt - 1, buf[i].data, buf[i].owner)
    /\ lru' = lru \/ lru' = MovedToFront(i)
    /\ bpc' = [bpc EXCEPT ![p] = "idle"] /\ bcur' = [bcur EXCEPT ![p] = 0]
    /\ UNCHANGED <<idequeue, active, bdisk, bpanic>>

Changes(p, i) ==
    /\ bcur[p] = i /\ bpc[p] = "held" /\ buf[i].blockno \in BBlock
    /\ bdisk' = [bdisk EXCEPT ![buf[i].blockno] = "stale"]
    /\ bpc' = [bpc EXCEPT ![p] = "changed"]
    /\ UNCHANGED <<buf, lru, idequeue, active, bcur, bpanic>>

Finishes(p, i) ==
    /\ bcur[p] = i /\ bpc[p] = "io" /\ buf[i].valid /\ ~ buf[i].dirty
    /\ bpc' = [bpc EXCEPT ![p] = "held"]
    /\ UNCHANGED <<buf, lru, idequeue, active, bdisk, bcur, bpanic>>

\* The end of the first request, which is buffer i's
Serves(i, c) ==
    /\ buf[i].blockno \in BBlock /\ \E p \in BProc : bcur[p] = i /\ bpc[p] = "io" /\ buf[i].owner = p
    /\ idequeue # << >> /\ i = Head(idequeue)
    /\ c = "lost" \/ c = IF buf[i].dirty THEN buf[i].data ELSE bdisk[buf[i].blockno]
    /\ Becomes(i, buf[i].blockno, TRUE, FALSE, buf[i].refcnt, c, buf[i].owner)
    /\ bdisk' = IF buf[i].dirty THEN [bdisk EXCEPT ![buf[i].blockno] = buf[i].data] ELSE bdisk
    /\ idequeue' = Tail(idequeue) /\ active' = (Tail(idequeue) # << >>)
    /\ UNCHANGED <<lru, bpc, bcur, bpanic>>

\* The same for the other steps of the processes.
LEMMA ProcEffects ==
    ASSUME BInv, NEW p \in BProc
    PROVE  /\ bread(p) => \E i \in Buffers : Reads(p, i) /\ buf' \in [Buffers -> BufType]
           /\ pin(p) => \E i \in Buffers : Pins(p, i) /\ buf' \in [Buffers -> BufType]
           /\ bwrite(p) => \E i \in Buffers : Writes(p, i) /\ buf' \in [Buffers -> BufType]
           /\ brelse(p) => \E i \in Buffers : Releases(p, i) /\ buf' \in [Buffers -> BufType]
           /\ bput(p) => \E i \in Buffers : Puts(p, i) /\ buf' \in [Buffers -> BufType]
  <1>1. BTypes /\ (bpc[p] # "idle" => bcur[p] \in Buffers)
    BY Zenon DEF BInv, BTypes, Counted
  <1>2. ASSUME bread(p) PROVE \E i \in Buffers : Reads(p, i) /\ buf' \in [Buffers -> BufType]
    <2>1. PICK i \in Buffers : i = bcur[p]
      BY <1>1, <1>2 DEF bread
    <2>2. buf' = [buf EXCEPT ![i].owner = p]
      BY Zenon, <1>2, <2>1 DEF bread
    <2>3. /\ Becomes(i, buf[i].blockno, buf[i].valid, buf[i].dirty, buf[i].refcnt, buf[i].data, p)
          /\ buf' \in [Buffers -> BufType]
      BY Zenon, <1>1, <2>2, SetOwner
    <2>4. QED
      BY Zenon, <1>2, <2>1, <2>3 DEF bread, Reads
  <1>3. ASSUME pin(p) PROVE \E i \in Buffers : Pins(p, i) /\ buf' \in [Buffers -> BufType]
    <2>1. PICK i \in Buffers : i = bcur[p]
      BY <1>1, <1>3 DEF pin
    <2>2. buf' = [buf EXCEPT ![i].dirty = TRUE]
      BY Zenon, <1>3, <2>1 DEF pin
    <2>3. /\ Becomes(i, buf[i].blockno, buf[i].valid, TRUE, buf[i].refcnt, buf[i].data, buf[i].owner)
          /\ buf' \in [Buffers -> BufType]
      BY Zenon, <1>1, <2>2, SetDirty
    <2>4. QED
      BY Zenon, <1>3, <2>1, <2>3 DEF pin, Pins
  <1>4. ASSUME bwrite(p) PROVE \E i \in Buffers : Writes(p, i) /\ buf' \in [Buffers -> BufType]
    <2>1. PICK i \in Buffers : i = bcur[p]
      BY <1>1, <1>4 DEF bwrite
    <2>2. buf' = [buf EXCEPT ![i].dirty = TRUE]
      BY Zenon, <1>4, <2>1 DEF bwrite
    <2>3. /\ Becomes(i, buf[i].blockno, buf[i].valid, TRUE, buf[i].refcnt, buf[i].data, buf[i].owner)
          /\ buf' \in [Buffers -> BufType]
      BY Zenon, <1>1, <2>2, SetDirty
    <2>4. QED
      BY Zenon, <1>4, <2>1, <2>3 DEF bwrite, Writes
  <1>5. ASSUME brelse(p) PROVE \E i \in Buffers : Releases(p, i) /\ buf' \in [Buffers -> BufType]
    <2>1. PICK i \in Buffers : i = bcur[p]
      BY <1>1, <1>5 DEF brelse
    <2>2. buf' = [buf EXCEPT ![i].owner = BNone]
      BY Zenon, <1>5, <2>1 DEF brelse
    <2>3. /\ Becomes(i, buf[i].blockno, buf[i].valid, buf[i].dirty, buf[i].refcnt, buf[i].data, BNone)
          /\ buf' \in [Buffers -> BufType]
      BY Zenon, <1>1, <2>2, SetOwner
    <2>4. QED
      BY Zenon, <1>5, <2>1, <2>3 DEF brelse, Releases
  <1>6. ASSUME bput(p) PROVE \E i \in Buffers : Puts(p, i) /\ buf' \in [Buffers -> BufType]
    <2>1. PICK i \in Buffers : i = bcur[p]
      BY <1>1, <1>6 DEF bput
    <2>2. buf' = [buf EXCEPT ![i].refcnt = buf[i].refcnt - 1]
      BY Zenon, <1>6, <2>1 DEF bput, Released
    <2>3. buf[i].refcnt - 1 \in Int
      BY <1>1 DEF BTypes, BufType
    <2>4. /\ Becomes(i, buf[i].blockno, buf[i].valid, buf[i].dirty, buf[i].refcnt - 1, buf[i].data, buf[i].owner)
          /\ buf' \in [Buffers -> BufType]
      BY Zenon, <1>1, <2>2, <2>3, SetRefcnt
    <2>5. QED
      BY Zenon, <1>6, <2>1, <2>4 DEF bput, Puts
  <1>7. QED
    BY Zenon, <1>2, <1>3, <1>4, <1>5, <1>6

\* The buffers in the driver's queue, and how it changes
Waiting == {idequeue[m] : m \in DOMAIN idequeue}

\* What iderw and ideintr do to the queue of the disk: a request is added, the first one leaves.
LEMMA QueueEffects ==
    ASSUME BInv
    PROVE  /\ Waiting \subseteq Buffers
           /\ idequeue # << >> => Head(idequeue) \in Waiting
           /\ \A i \in Buffers : Queue(i) => /\ idequeue' \in Seq(Buffers) /\ Waiting' = Waiting \cup {i}
                                             /\ idequeue' # << >> /\ active' = TRUE
           /\ idequeue # << >> /\ idequeue' = Tail(idequeue) =>
                  idequeue' \in Seq(Buffers) /\ Waiting' = Waiting \ {Head(idequeue)}
  <1> USE DEF Waiting
  <1>1. idequeue \in Seq(Buffers) /\ active \in BOOLEAN /\ (active <=> idequeue # << >>)
    BY Zenon DEF BInv, BTypes, Requests
  <1>2. \A m, k \in DOMAIN idequeue : idequeue[m] = idequeue[k] => m = k
    BY Zenon DEF BInv, QueueOwned
  <1>3. Waiting \subseteq Buffers
    BY <1>1
  <1>4. idequeue # << >> => Head(idequeue) \in Waiting
    BY <1>1
  <1>5. ASSUME NEW i \in Buffers, Queue(i)
        PROVE  /\ idequeue' \in Seq(Buffers) /\ Waiting' = Waiting \cup {i}
               /\ idequeue' # << >> /\ active' = TRUE
    <2>1. idequeue' = Append(idequeue, i)
      BY Zenon, <1>5 DEF Queue
    <2>2. active' = TRUE
      BY Zenon, <1>1, <1>5 DEF Queue, StartIfIdle
    <2>3. idequeue' \in Seq(Buffers) /\ idequeue' # << >>
      BY <1>1, <2>1
    <2>4. Waiting' = Waiting \cup {i}
      BY <1>1, <2>1
    <2>5. QED
      BY Zenon, <2>2, <2>3, <2>4
  <1>6. ASSUME idequeue # << >>, idequeue' = Tail(idequeue)
        PROVE  idequeue' \in Seq(Buffers) /\ Waiting' = Waiting \ {Head(idequeue)}
    <2>1. idequeue' \in Seq(Buffers)
      BY <1>1, <1>6
    <2>2. /\ DOMAIN idequeue = 1 .. Len(idequeue) /\ DOMAIN idequeue' = 1 .. Len(idequeue) - 1
          /\ Len(idequeue) \in Nat \ {0} /\ Head(idequeue) = idequeue[1]
          /\ \A m \in 1 .. Len(idequeue) - 1 : idequeue'[m] = idequeue[m + 1]
      BY <1>1, <1>6
    <2>3. \A m \in DOMAIN idequeue' : idequeue'[m] \in Waiting \ {Head(idequeue)}
      <3> SUFFICES ASSUME NEW m \in DOMAIN idequeue' PROVE idequeue'[m] \in Waiting \ {Head(idequeue)}
        OBVIOUS
      <3>1. m + 1 \in DOMAIN idequeue /\ 1 \in DOMAIN idequeue /\ m + 1 # 1 /\ idequeue'[m] = idequeue[m + 1]
        BY <2>2
      <3>2. QED
        BY Zenon, <1>2, <2>2, <3>1
    <2>4. \A x \in Waiting \ {Head(idequeue)} : \E m \in DOMAIN idequeue' : x = idequeue'[m]
      <3> SUFFICES ASSUME NEW k \in DOMAIN idequeue, idequeue[k] # Head(idequeue)
                   PROVE  \E m \in DOMAIN idequeue' : idequeue[k] = idequeue'[m]
        BY Zenon
      <3>1. k - 1 \in DOMAIN idequeue' /\ idequeue'[k - 1] = idequeue[k]
        BY <2>2
      <3>2. QED
        BY Zenon, <3>1
    <2>5. Waiting' = Waiting \ {Head(idequeue)}
      BY Zenon, <2>3, <2>4
    <2>6. QED
      BY Zenon, <2>1, <2>5
  <1>7. QED
    BY Zenon, <1>3, <1>4, <1>5, <1>6

\* ideintr ends the request of one buffer.
LEMMA ServeEffect == ASSUME BInv, ideintr
                     PROVE  (\E i \in Buffers, c \in Copy : Serves(i, c)) /\ buf' \in [Buffers -> BufType]
  <1>1. BTypes /\ idequeue # << >>
    BY Zenon DEF BInv, Requests, ideintr
  <1>2. PICK i \in Buffers : i = Head(idequeue) /\ i \in Waiting
    BY Zenon, <1>1, QueueEffects
  <1>3. PICK p \in BProc : bcur[p] = i /\ bpc[p] = "io" /\ buf[i].owner = p
    <2>1. PICK m \in DOMAIN idequeue : idequeue[m] = i
      BY Zenon, <1>2 DEF Waiting
    <2>2. QED
      BY Zenon, <2>1 DEF BInv, QueueOwned
  <1>4. buf[i].blockno \in BBlock
    <2>1. buf[i].blockno # BNone
      BY Zenon, <1>3 DEF BInv, Counted
    <2>2. QED
      BY Zenon, <1>1, <2>1 DEF BTypes, BufType
  <1>5. PICK ok \in {TRUE, buf[i].dirty \/ buf[i].blockno \notin Unreadable} :
            buf' = [buf EXCEPT ![i] = [@ EXCEPT !.valid = TRUE, !.dirty = FALSE,
                                                !.data = IF ~ ok THEN "lost" ELSE IF buf[i].dirty THEN buf[i].data ELSE bdisk[buf[i].blockno]]]
    BY Zenon, <1>2 DEF ideintr
  <1>6. buf[i].data \in Copy /\ bdisk[buf[i].blockno] \in Copy /\ "lost" \in Copy
    BY <1>1, <1>4 DEF BTypes, BufType, Copy
  <1>7. PICK c \in Copy : c = IF ~ ok THEN "lost" ELSE IF buf[i].dirty THEN buf[i].data ELSE bdisk[buf[i].blockno]
    BY Zenon, <1>6
  <1>8. buf' = [buf EXCEPT ![i] = [@ EXCEPT !.valid = TRUE, !.dirty = FALSE, !.data = c]]
    BY Zenon, <1>5, <1>7
  <1>9. Becomes(i, buf[i].blockno, TRUE, FALSE, buf[i].refcnt, c, buf[i].owner) /\ buf' \in [Buffers -> BufType]
    BY Zenon, <1>1, <1>8, SetDone
  <1>10. /\ bdisk' = IF buf[i].dirty THEN [bdisk EXCEPT ![buf[i].blockno] = buf[i].data] ELSE bdisk
         /\ idequeue' = Tail(idequeue) /\ active' = (Tail(idequeue) # << >>)
         /\ UNCHANGED <<lru, bpc, bcur, bpanic>>
    BY Zenon, <1>2 DEF ideintr, StartNext
  <1>11. c = "lost" \/ c = IF buf[i].dirty THEN buf[i].data ELSE bdisk[buf[i].blockno]
    BY Zenon, <1>7
  <1>12. QED
    BY Zenon, <1>1, <1>2, <1>3, <1>4, <1>9, <1>10, <1>11 DEF Serves

\* Every step is one of these.
Effects ==
    \/ \E p \in BProc : Exhausted(p)
    \/ \E p \in BProc, b \in BBlock, i \in Buffers : Found(p, b, i) \/ Recycled(p, b, i)
    \/ \E p \in BProc, i \in Buffers : \/ Reads(p, i) \/ Changes(p, i) \/ Pins(p, i) \/ Writes(p, i)
                                       \/ Finishes(p, i) \/ Releases(p, i) \/ Puts(p, i)
    \/ \E i \in Buffers, c \in Copy : Serves(i, c)
    \/ UNCHANGED bvars

\* Every step is of one of those kinds.
LEMMA Steps == ASSUME BInv, [BNext]_bvars PROVE Effects /\ buf' \in [Buffers -> BufType]
  <1>1. BTypes /\ \A p \in BProc : bpc[p] # "idle" => bcur[p] \in Buffers
    BY Zenon DEF BInv, BTypes, Counted
  <1>2. ASSUME NEW p \in BProc, NEW b \in BBlock, bget(p, b) PROVE Effects /\ buf' \in [Buffers -> BufType]
    BY Zenon, <1>2, BgetEffect DEF Effects
  <1>3. ASSUME NEW p \in BProc, bread(p) \/ pin(p) \/ bwrite(p) \/ brelse(p) \/ bput(p)
        PROVE  Effects /\ buf' \in [Buffers -> BufType]
    BY Zenon, <1>3, ProcEffects DEF Effects
  <1>4. ASSUME NEW p \in BProc, change(p) PROVE Effects /\ buf' \in [Buffers -> BufType]
    <2>1. PICK i \in Buffers : i = bcur[p]
      BY <1>1, <1>4 DEF change
    <2>2. Changes(p, i) /\ buf' = buf
      BY Zenon, <1>4, <2>1, BufferAssumption DEF change, Changes
    <2>3. QED
      BY Zenon, <1>1, <2>2 DEF Effects, BTypes
  <1>5. ASSUME NEW p \in BProc, iderw(p) PROVE Effects /\ buf' \in [Buffers -> BufType]
    <2>1. PICK i \in Buffers : i = bcur[p]
      BY <1>1, <1>5 DEF iderw
    <2>2. Finishes(p, i) /\ buf' = buf
      BY Zenon, <1>5, <2>1 DEF iderw, Done, Finishes
    <2>3. QED
      BY Zenon, <1>1, <2>2 DEF Effects, BTypes
  <1>6. CASE ideintr
    BY Zenon, <1>6, ServeEffect DEF Effects
  <1>7. CASE UNCHANGED bvars
    BY Zenon, <1>1, <1>7 DEF Effects, bvars, BTypes
  <1>8. QED
    BY Zenon, <1>2, <1>3, <1>4, <1>5, <1>6, <1>7 DEF BNext

-----------------------------------------------------------------------------
(* Every step preserves the invariant *)

\* A buffer without references is nobody's.
LEMMA NotUsed == ASSUME BInv, NEW i \in Buffers, buf[i].refcnt = 0 PROVE \A p \in BProc : bcur[p] # i
  <1>1. IsFiniteSet(Users(i)) /\ Cardinality(Users(i)) = 0
    BY Zenon, BufferAssumption, FS_Subset DEF BInv, Counted, Users
  <1>2. Users(i) = {}
    BY Zenon, <1>1, FS_EmptySet
  <1>3. QED
    BY Zenon, <1>2 DEF Users

\* A block is put only into one buffer.
LEMMA OneStep == ASSUME BInv, [BNext]_bvars PROVE OneBufferPerBlock'
  <1> USE BufferFacts DEF BInv, BTypes, OneBufferPerBlock
  <1>1. ASSUME NEW p \in BProc, Exhausted(p) PROVE OneBufferPerBlock'
    BY <1>1 DEF Exhausted, Becomes
  <1>2. ASSUME NEW p \in BProc, NEW b \in BBlock, NEW i \in Buffers, Found(p, b, i) PROVE OneBufferPerBlock'
    BY <1>2 DEF Found, Becomes
  <1>3. ASSUME NEW p \in BProc, NEW b \in BBlock, NEW i \in Buffers, Recycled(p, b, i) PROVE OneBufferPerBlock'
    <2>1. /\ \A j \in Buffers : buf[j].blockno # b
          /\ buf'[i].blockno = b /\ \A j \in Buffers \ {i} : buf'[j].blockno = buf[j].blockno
      BY Zenon, <1>3 DEF Recycled, Becomes
    <2>2. QED
      BY Zenon, <2>1
  <1>4. ASSUME NEW p \in BProc, NEW i \in Buffers, Reads(p, i) PROVE OneBufferPerBlock'
    BY <1>4 DEF Reads, Becomes
  <1>5. ASSUME NEW p \in BProc, NEW i \in Buffers, Changes(p, i) PROVE OneBufferPerBlock'
    BY <1>5 DEF Changes, Becomes
  <1>6. ASSUME NEW p \in BProc, NEW i \in Buffers, Pins(p, i) PROVE OneBufferPerBlock'
    BY <1>6 DEF Pins, Becomes
  <1>7. ASSUME NEW p \in BProc, NEW i \in Buffers, Writes(p, i) PROVE OneBufferPerBlock'
    BY <1>7 DEF Writes, Becomes
  <1>8. ASSUME NEW p \in BProc, NEW i \in Buffers, Finishes(p, i) PROVE OneBufferPerBlock'
    BY <1>8 DEF Finishes, Becomes
  <1>9. ASSUME NEW p \in BProc, NEW i \in Buffers, Releases(p, i) PROVE OneBufferPerBlock'
    BY <1>9 DEF Releases, Becomes
  <1>10. ASSUME NEW p \in BProc, NEW i \in Buffers, Puts(p, i) PROVE OneBufferPerBlock'
    BY <1>10 DEF Puts, Becomes
  <1>11. ASSUME NEW i \in Buffers, NEW c \in Copy, Serves(i, c) PROVE OneBufferPerBlock'
    <2>1. \A j \in Buffers : buf'[j].blockno = buf[j].blockno
      BY Zenon, <1>11 DEF Serves, Becomes
    <2>2. QED
      BY Zenon, <2>1
  <1>12. CASE UNCHANGED bvars
    BY <1>12 DEF bvars
  <1>13. QED
    BY Zenon, Steps, <1>1, <1>2, <1>3, <1>4, <1>5, <1>6, <1>7, <1>8, <1>9, <1>10, <1>11, <1>12 DEF Effects

\* The sleep lock of a buffer stays with its owner.
LEMMA OwnersStep == ASSUME BInv, [BNext]_bvars PROVE Owners'
  <1> USE BufferFacts DEF BInv, BTypes, Counted, Owners
  <1>1. ASSUME NEW p \in BProc, Exhausted(p) PROVE Owners'
    BY <1>1 DEF Exhausted, Becomes
  <1>2. ASSUME NEW p \in BProc, NEW b \in BBlock, NEW i \in Buffers, Found(p, b, i) PROVE Owners'
    BY <1>2 DEF Found, Becomes
  <1>3. ASSUME NEW p \in BProc, NEW b \in BBlock, NEW i \in Buffers, Recycled(p, b, i) PROVE Owners'
    BY <1>3, NotUsed DEF Recycled, Becomes
  <1>4. ASSUME NEW p \in BProc, NEW i \in Buffers, Reads(p, i) PROVE Owners'
    BY <1>4 DEF Reads, Becomes
  <1>5. ASSUME NEW p \in BProc, NEW i \in Buffers, Changes(p, i) PROVE Owners'
    BY <1>5 DEF Changes, Becomes
  <1>6. ASSUME NEW p \in BProc, NEW i \in Buffers, Pins(p, i) PROVE Owners'
    BY <1>6 DEF Pins, Becomes
  <1>7. ASSUME NEW p \in BProc, NEW i \in Buffers, Writes(p, i) PROVE Owners'
    BY <1>7 DEF Writes, Becomes
  <1>8. ASSUME NEW p \in BProc, NEW i \in Buffers, Finishes(p, i) PROVE Owners'
    BY <1>8 DEF Finishes, Becomes
  <1>9. ASSUME NEW p \in BProc, NEW i \in Buffers, Releases(p, i) PROVE Owners'
    BY <1>9 DEF Releases, Becomes
  <1>10. ASSUME NEW p \in BProc, NEW i \in Buffers, Puts(p, i) PROVE Owners'
    BY <1>10 DEF Puts, Becomes
  <1>11. ASSUME NEW i \in Buffers, NEW c \in Copy, Serves(i, c) PROVE Owners'
    BY SMTT(20), <1>11 DEF Serves, Becomes
  <1>12. CASE UNCHANGED bvars
    BY <1>12 DEF bvars
  <1>13. QED
    BY Zenon, Steps, <1>1, <1>2, <1>3, <1>4, <1>5, <1>6, <1>7, <1>8, <1>9, <1>10, <1>11, <1>12 DEF Effects

\* What is valid is not stale: a read finds the latest copy on the disk.
LEMMA FilledStep == ASSUME BInv, [BNext]_bvars PROVE Filled'
  <1>a. BInv /\ Kept /\ Owners /\ OneBufferPerBlock
    BY Zenon DEF BInv
  <1>b. bpc \in [BProc -> {"idle", "lock", "io", "held", "changed", "put"}] /\ bcur \in [BProc -> Buffers \cup {0}]
    BY Zenon DEF BInv, BTypes
  <1>c. \A q \in BProc : bpc[q] \in {"held", "changed"} =>
            bcur[q] \in Buffers /\ buf[bcur[q]].valid /\ buf[bcur[q]].blockno # BNone
    BY <1>b DEF BInv, Counted, Filled
  <1>d. \A j \in Buffers : (buf[j].dirty => buf[j].valid /\ buf[j].blockno # BNone) /\ (buf[j].valid => buf[j].data # "stale")
    BY Zenon DEF BInv, Filled
  <1>1. ASSUME NEW p \in BProc, Exhausted(p) PROVE Filled'
    BY Zenon, <1>1, <1>c, <1>d DEF Exhausted, Filled
  <1>2. ASSUME NEW p \in BProc, NEW b \in BBlock, NEW i \in Buffers, Found(p, b, i) PROVE Filled'
    <2>1. \A j \in Buffers : /\ buf'[j].valid <=> buf[j].valid
                             /\ buf'[j].blockno = buf[j].blockno /\ buf'[j].data = buf[j].data
                             /\ buf'[j].dirty => buf[j].dirty
      BY Zenon, <1>2 DEF Found, Becomes
    <2>2. \A q \in BProc : bpc'[q] \in {"held", "changed"} =>
              bcur'[q] = bcur[q] /\ (bpc[q] \in {"held", "changed"})
      BY <1>2, <1>b DEF Found
    <2>3. QED
      BY Zenon, <1>c, <1>d, <2>1, <2>2 DEF Filled
  <1>3. ASSUME NEW p \in BProc, NEW b \in BBlock, NEW i \in Buffers, Recycled(p, b, i) PROVE Filled'
    <2>1. \A q \in BProc : bcur[q] # i
      BY Zenon, <1>3, NotUsed DEF Recycled
    <2>2. \A j \in Buffers \ {i} : buf'[j] = buf[j]
      BY Zenon, <1>3 DEF Recycled, Becomes
    <2>3. ~ buf'[i].dirty /\ ~ buf'[i].valid
      BY Zenon, <1>3 DEF Recycled, Becomes
    <2>4. \A q \in BProc : bpc'[q] \in {"held", "changed"} => bcur'[q] = bcur[q] /\ bpc[q] \in {"held", "changed"}
      BY <1>3, <1>b DEF Recycled
    <2>5. \A q \in BProc : bpc'[q] \in {"held", "changed"} => buf'[bcur'[q]].valid
      <3> SUFFICES ASSUME NEW q \in BProc, bpc'[q] \in {"held", "changed"} PROVE buf'[bcur'[q]].valid
        BY Zenon
      <3>1. bcur'[q] = bcur[q] /\ bcur[q] \in Buffers \ {i} /\ buf[bcur[q]].valid
        BY Zenon, <1>c, <2>1, <2>4
      <3>2. QED
        BY Zenon, <2>2, <3>1
    <2>6. QED
      BY Zenon, <1>d, <2>2, <2>3, <2>5 DEF Filled
  <1>4. ASSUME NEW p \in BProc, NEW i \in Buffers, Reads(p, i) PROVE Filled'
    <2>1. \A j \in Buffers : /\ buf'[j].valid <=> buf[j].valid
                             /\ buf'[j].blockno = buf[j].blockno /\ buf'[j].data = buf[j].data
                             /\ buf'[j].dirty => buf[j].dirty
      BY Zenon, <1>4 DEF Reads, Becomes
    <2>2. bcur' = bcur /\ bcur[p] = i
      BY Zenon, <1>4 DEF Reads
    <2>3. CASE buf[i].valid /\ bpc' = [bpc EXCEPT ![p] = "held"]
      <3>1. \A q \in BProc \ {p} : bpc'[q] = bpc[q]
        BY <1>b, <2>3
      <3>2. QED
        BY ZenonT(40), <1>c, <1>d, <2>1, <2>2, <2>3, <3>1 DEF Filled
    <2>4. CASE bpc' = [bpc EXCEPT ![p] = "io"]
      <3>1. \A q \in BProc : bpc'[q] \in {"held", "changed"} => bpc[q] \in {"held", "changed"}
        BY <1>b, <2>4
      <3>2. QED
        BY Zenon, <1>c, <1>d, <2>1, <2>2, <3>1 DEF Filled
    <2>5. QED
      BY Zenon, <1>4, <2>3, <2>4 DEF Reads
  <1>5. ASSUME NEW p \in BProc, NEW i \in Buffers, Changes(p, i) PROVE Filled'
    <2>1. buf' = buf /\ bcur' = bcur
      BY Zenon, <1>5 DEF Changes
    <2>2. \A q \in BProc : bpc'[q] \in {"held", "changed"} => bpc[q] \in {"held", "changed"} \/ (bcur[q] = i /\ i \in Buffers /\ buf[i].valid)
      BY <1>5, <1>b, <1>c DEF Changes
    <2>3. QED
      BY Zenon, <1>c, <1>d, <2>1, <2>2 DEF Filled
  <1>6. ASSUME NEW p \in BProc, NEW i \in Buffers, Pins(p, i) PROVE Filled'
    <2>1. \A j \in Buffers : /\ buf'[j].valid <=> buf[j].valid
                             /\ buf'[j].blockno = buf[j].blockno /\ buf'[j].data = buf[j].data
                             /\ buf'[j].dirty => buf[j].dirty \/ j = i
      BY Zenon, <1>6 DEF Pins, Becomes
    <2>2. \A q \in BProc : bpc'[q] \in {"held", "changed"} =>
              bcur'[q] = bcur[q] /\ (bpc[q] \in {"held", "changed"})
      BY <1>6, <1>b DEF Pins
    <2>3. buf[i].valid /\ buf[i].blockno # BNone
      BY <1>6, <1>c DEF Pins
    <2>4. QED
      BY Zenon, <1>c, <1>d, <2>1, <2>2, <2>3 DEF Filled
  <1>7. ASSUME NEW p \in BProc, NEW i \in Buffers, Writes(p, i) PROVE Filled'
    <2>1. \A j \in Buffers : /\ buf'[j].valid <=> buf[j].valid
                             /\ buf'[j].blockno = buf[j].blockno /\ buf'[j].data = buf[j].data
                             /\ buf'[j].dirty => buf[j].dirty \/ j = i
      BY Zenon, <1>7 DEF Writes, Becomes
    <2>2. \A q \in BProc : bpc'[q] \in {"held", "changed"} =>
              bcur'[q] = bcur[q] /\ (bpc[q] \in {"held", "changed"})
      BY <1>7, <1>b DEF Writes
    <2>3. buf[i].valid /\ buf[i].blockno # BNone
      BY <1>7, <1>c DEF Writes
    <2>4. QED
      BY ZenonT(40), <1>c, <1>d, <2>1, <2>2, <2>3 DEF Filled
  <1>8. ASSUME NEW p \in BProc, NEW i \in Buffers, Finishes(p, i) PROVE Filled'
    <2>1. buf' = buf /\ bcur' = bcur
      BY Zenon, <1>8 DEF Finishes
    <2>2. \A q \in BProc : bpc'[q] \in {"held", "changed"} => bpc[q] \in {"held", "changed"} \/ (bcur[q] = i /\ i \in Buffers /\ buf[i].valid)
      BY <1>8, <1>b, <1>c DEF Finishes
    <2>3. QED
      BY Zenon, <1>c, <1>d, <2>1, <2>2 DEF Filled
  <1>9. ASSUME NEW p \in BProc, NEW i \in Buffers, Releases(p, i) PROVE Filled'
    <2>1. \A j \in Buffers : /\ buf'[j].valid <=> buf[j].valid
                             /\ buf'[j].blockno = buf[j].blockno /\ buf'[j].data = buf[j].data
                             /\ buf'[j].dirty => buf[j].dirty
      BY Zenon, <1>9 DEF Releases, Becomes
    <2>2. \A q \in BProc : bpc'[q] \in {"held", "changed"} =>
              bcur'[q] = bcur[q] /\ (bpc[q] \in {"held", "changed"})
      BY <1>9, <1>b DEF Releases
    <2>3. QED
      BY Zenon, <1>c, <1>d, <2>1, <2>2 DEF Filled
  <1>10. ASSUME NEW p \in BProc, NEW i \in Buffers, Puts(p, i) PROVE Filled'
    <2>1. \A j \in Buffers : /\ buf'[j].valid <=> buf[j].valid
                             /\ buf'[j].blockno = buf[j].blockno /\ buf'[j].data = buf[j].data
                             /\ buf'[j].dirty => buf[j].dirty
      BY Zenon, <1>10 DEF Puts, Becomes
    <2>2. \A q \in BProc : bpc'[q] \in {"held", "changed"} =>
              bcur'[q] = bcur[q] /\ (bpc[q] \in {"held", "changed"})
      BY <1>10, <1>b DEF Puts
    <2>3. QED
      BY Zenon, <1>c, <1>d, <2>1, <2>2 DEF Filled
  <1>11. ASSUME NEW i \in Buffers, NEW c \in Copy, Serves(i, c) PROVE Filled'
    <2>1. c # "stale"
      <3>1. ASSUME ~ buf[i].dirty, bdisk[buf[i].blockno] = "stale" PROVE FALSE
        <4>1. PICK p \in BProc : bcur[p] = i /\ bpc[p] = "io" /\ buf[i].owner = p /\ buf[i].blockno \in BBlock
          BY Zenon, <1>11 DEF Serves
        <4>2. PICK j \in Buffers : buf[j].blockno = buf[i].blockno /\ (buf[j].dirty \/ \E q \in BProc : bcur[q] = j /\ bpc[q] = "changed")
          BY Zenon, <1>a, <3>1, <4>1 DEF Kept
        <4>3. j = i
          BY Zenon, <1>a, <4>1, <4>2, BufferFacts DEF OneBufferPerBlock
        <4>4. PICK q \in BProc : bcur[q] = i /\ bpc[q] = "changed"
          BY Zenon, <3>1, <4>2, <4>3
        <4>5. buf[i].owner = q
          BY Zenon, <1>a, <4>4 DEF Owners
        <4>6. QED
          BY <4>1, <4>4, <4>5
      <3>2. buf[i].dirty => buf[i].data # "stale"
        BY Zenon, <1>d
      <3>3. c = "lost" \/ (buf[i].dirty /\ c = buf[i].data) \/ (~ buf[i].dirty /\ c = bdisk[buf[i].blockno])
        BY Zenon, <1>11 DEF Serves
      <3>4. QED
        BY <3>1, <3>2, <3>3
    <2>2. /\ \A j \in Buffers \ {i} : buf'[j] = buf[j]
          /\ buf'[i].valid /\ ~ buf'[i].dirty /\ buf'[i].data = c /\ bpc' = bpc /\ bcur' = bcur
      BY Zenon, <1>11 DEF Serves, Becomes
    <2>3. QED
      BY Zenon, <1>c, <1>d, <2>1, <2>2 DEF Filled
  <1>12. CASE UNCHANGED bvars
    BY Zenon, <1>12, <1>c, <1>d DEF bvars, Filled
  <1>13. QED
    BY Zenon, Steps, <1>1, <1>2, <1>3, <1>4, <1>5, <1>6, <1>7, <1>8, <1>9, <1>10, <1>11, <1>12 DEF Effects

\* The latest copy of a block stays in its buffer until it is on the disk.
LEMMA KeptStep == ASSUME BInv, [BNext]_bvars PROVE Kept'
  <1> USE BufferFacts DEF BInv, BTypes, Counted, Filled, Kept
  <1>1. ASSUME NEW p \in BProc, Exhausted(p) PROVE Kept'
    BY <1>1 DEF Exhausted, Becomes
  <1>2. ASSUME NEW p \in BProc, NEW b \in BBlock, NEW i \in Buffers, Found(p, b, i) PROVE Kept'
    BY <1>2 DEF Found, Becomes
  <1>3. ASSUME NEW p \in BProc, NEW b \in BBlock, NEW i \in Buffers, Recycled(p, b, i) PROVE Kept'
    <2>1. \A q \in BProc : bcur[q] # i
      BY Zenon, <1>3, NotUsed DEF Recycled
    <2>2. \A j \in Buffers \ {i} : buf'[j] = buf[j]
      BY Zenon, <1>3 DEF Recycled, Becomes
    <2>3. ~ buf[i].dirty /\ bdisk' = bdisk /\ bpc[p] = "idle"
      BY Zenon, <1>3 DEF Recycled
    <2>4. \A q \in BProc : bpc[q] = "changed" => bpc'[q] = "changed" /\ bcur'[q] = bcur[q]
      BY <1>3, <2>3 DEF Recycled
    <2>5. QED
      BY <2>1, <2>2, <2>3, <2>4
  <1>4. ASSUME NEW p \in BProc, NEW i \in Buffers, Reads(p, i) PROVE Kept'
    BY <1>4 DEF Reads, Becomes
  <1>5. ASSUME NEW p \in BProc, NEW i \in Buffers, Changes(p, i) PROVE Kept'
    BY <1>5 DEF Changes, Becomes
  <1>6. ASSUME NEW p \in BProc, NEW i \in Buffers, Pins(p, i) PROVE Kept'
    BY <1>6 DEF Pins, Becomes
  <1>7. ASSUME NEW p \in BProc, NEW i \in Buffers, Writes(p, i) PROVE Kept'
    BY <1>7 DEF Writes, Becomes
  <1>8. ASSUME NEW p \in BProc, NEW i \in Buffers, Finishes(p, i) PROVE Kept'
    BY <1>8 DEF Finishes, Becomes
  <1>9. ASSUME NEW p \in BProc, NEW i \in Buffers, Releases(p, i) PROVE Kept'
    BY <1>9 DEF Releases, Becomes
  <1>10. ASSUME NEW p \in BProc, NEW i \in Buffers, Puts(p, i) PROVE Kept'
    BY <1>10 DEF Puts, Becomes
  <1>11. ASSUME NEW i \in Buffers, NEW c \in Copy, Serves(i, c) PROVE Kept'
    <2>1. PICK p \in BProc : bcur[p] = i /\ bpc[p] = "io" /\ buf[i].owner = p
      BY Zenon, <1>11 DEF Serves
    <2>2. \A q \in BProc : bcur[q] = i => bpc[q] # "changed"
      BY <2>1 DEF Owners
    <2>3. \A j \in Buffers \ {i} : buf'[j] = buf[j]
      BY Zenon, <1>11 DEF Serves, Becomes
    <2>4. /\ bpc' = bpc /\ bcur' = bcur /\ buf[i].blockno \in BBlock
          /\ bdisk' = IF buf[i].dirty THEN [bdisk EXCEPT ![buf[i].blockno] = buf[i].data] ELSE bdisk
      BY Zenon, <1>11 DEF Serves
    <2>5. buf[i].dirty => buf[i].data # "stale"
      BY Zenon
    <2>6. \A b \in BBlock : bdisk'[b] = "stale" => bdisk[b] = "stale" /\ (buf[i].dirty => b # buf[i].blockno)
      BY <2>4, <2>5
    <2>7. QED
      BY <2>2, <2>3, <2>4, <2>6
  <1>12. CASE UNCHANGED bvars
    BY <1>12 DEF bvars
  <1>13. QED
    BY Zenon, Steps, <1>1, <1>2, <1>3, <1>4, <1>5, <1>6, <1>7, <1>8, <1>9, <1>10, <1>11, <1>12 DEF Effects

\* The list after brelse has the same buffers.
LEMMA FrontFacts == ASSUME BInv, NEW i \in Buffers
                    PROVE  /\ MovedToFront(i) \in [Buffers -> Buffers]
                           /\ \A j \in Buffers : \E m \in Buffers : MovedToFront(i)[m] = j
  <1>1. lru \in [Buffers -> Buffers] /\ Buffers = 1 .. NBUF /\ NBUF \in Nat
    BY Zenon, BufferFacts DEF BInv, BTypes, Buffers
  <1>2. \E m \in 1 .. NBUF : lru[m] = i
    BY Zenon, <1>1 DEF BInv, Listed
  <1>3. PICK k \in 1 .. NBUF : lru[k] = i /\ k = CHOOSE m \in 1 .. NBUF : lru[m] = i
    BY Zenon, <1>2
  <1>4. PICK f : f = MovedToFront(i)
    OBVIOUS
  <1>5. f = [m \in 1 .. NBUF |-> IF m = 1 THEN i ELSE IF m <= k THEN lru[m - 1] ELSE lru[m]]
    BY Zenon, <1>3, <1>4 DEF MovedToFront
  <1>6. f \in [Buffers -> Buffers]
    BY SMTT(20), <1>1, <1>5
  <1>7. ASSUME NEW j \in Buffers PROVE \E m \in Buffers : f[m] = j
    <2>1. PICK m \in 1 .. NBUF : lru[m] = j
      BY Zenon, <1>1 DEF BInv, Listed
    <2>2. CASE j = i
      BY <1>1, <1>5, <2>2
    <2>3. CASE j # i /\ m < k
      <3>1. m + 1 \in 1 .. NBUF /\ m + 1 # 1 /\ m + 1 <= k /\ (m + 1) - 1 = m
        BY <1>1, <2>3
      <3>2. f[m + 1] = j
        BY <1>5, <2>1, <3>1
      <3>3. QED
        BY Zenon, <1>1, <3>1, <3>2
    <2>4. CASE j # i /\ m >= k
      <3>1. m # k
        BY Zenon, <1>3, <2>1, <2>4
      <3>2. m # 1 /\ ~ (m <= k)
        BY <1>1, <2>4, <3>1
      <3>3. f[m] = j
        BY <1>5, <2>1, <3>2
      <3>4. QED
        BY Zenon, <1>1, <3>3
    <2>5. QED
      BY <1>1, <2>2, <2>3, <2>4
  <1>8. QED
    BY Zenon, <1>4, <1>6, <1>7

\* Every step keeps the types, and every buffer in the list.
LEMMA TypesStep == ASSUME BInv, [BNext]_bvars PROVE BTypes' /\ Listed'
  <1>1. BTypes /\ Listed /\ buf' \in [Buffers -> BufType]
    BY Zenon, Steps DEF BInv
  <1>2. ASSUME \/ lru' = lru
               \/ \E i \in Buffers : lru' = MovedToFront(i)
        PROVE  lru' \in [Buffers -> Buffers] /\ Listed'
    <2>1. CASE lru' = lru
      BY Zenon, <1>1, <2>1 DEF BTypes, Listed
    <2>2. CASE \E i \in Buffers : lru' = MovedToFront(i)
      BY Zenon, <2>2, FrontFacts DEF Listed
    <2>3. QED
      BY Zenon, <1>2, <2>1, <2>2
  <1>3. ASSUME \/ idequeue' = idequeue /\ active' = active
               \/ \E i \in Buffers : Queue(i)
               \/ idequeue # << >> /\ idequeue' = Tail(idequeue) /\ active' = (Tail(idequeue) # << >>)
        PROVE  idequeue' \in Seq(Buffers) /\ active' \in BOOLEAN
    BY Zenon, <1>1, <1>3, QueueEffects DEF BTypes
  <1>4. bpc \in [BProc -> {"idle", "lock", "io", "held", "changed", "put"}] /\ bcur \in [BProc -> Buffers \cup {0}]
    BY Zenon, <1>1 DEF BTypes
  <1>5. \A p \in BProc : \A x \in {"idle", "lock", "io", "held", "changed", "put"} :
            [bpc EXCEPT ![p] = x] \in [BProc -> {"idle", "lock", "io", "held", "changed", "put"}]
    BY <1>4
  <1>6. \A p \in BProc : \A x \in Buffers \cup {0} : [bcur EXCEPT ![p] = x] \in [BProc -> Buffers \cup {0}]
    BY <1>4
  <1>7. \A b \in BBlock : \A c \in Copy : [bdisk EXCEPT ![b] = c] \in [BBlock -> Copy]
    BY <1>1 DEF BTypes
  <1>8. "stale" \in Copy /\ \A i \in Buffers : buf[i].data \in Copy
    BY <1>1 DEF BTypes, BufType, Copy
  <1>9. ASSUME NEW p \in BProc, Exhausted(p) PROVE BTypes' /\ Listed'
    BY Zenon, <1>1, <1>2, <1>3, <1>4, <1>5, <1>6, <1>7, <1>8, <1>9 DEF Exhausted, BTypes
  <1>10. ASSUME NEW p \in BProc, NEW b \in BBlock, NEW i \in Buffers, Found(p, b, i) PROVE BTypes' /\ Listed'
    BY Zenon, <1>1, <1>2, <1>3, <1>4, <1>5, <1>6, <1>7, <1>8, <1>10 DEF Found, BTypes
  <1>11. ASSUME NEW p \in BProc, NEW b \in BBlock, NEW i \in Buffers, Recycled(p, b, i) PROVE BTypes' /\ Listed'
    BY Zenon, <1>1, <1>2, <1>3, <1>4, <1>5, <1>6, <1>7, <1>8, <1>11 DEF Recycled, BTypes
  <1>12. ASSUME NEW p \in BProc, NEW i \in Buffers, Reads(p, i) PROVE BTypes' /\ Listed'
    BY Zenon, <1>1, <1>2, <1>3, <1>4, <1>5, <1>6, <1>7, <1>8, <1>12 DEF Reads, BTypes
  <1>13. ASSUME NEW p \in BProc, NEW i \in Buffers, Changes(p, i) PROVE BTypes' /\ Listed'
    BY Zenon, <1>1, <1>2, <1>3, <1>4, <1>5, <1>6, <1>7, <1>8, <1>13 DEF Changes, BTypes
  <1>14. ASSUME NEW p \in BProc, NEW i \in Buffers, Pins(p, i) PROVE BTypes' /\ Listed'
    BY Zenon, <1>1, <1>2, <1>3, <1>4, <1>5, <1>6, <1>7, <1>8, <1>14 DEF Pins, BTypes
  <1>15. ASSUME NEW p \in BProc, NEW i \in Buffers, Writes(p, i) PROVE BTypes' /\ Listed'
    BY Zenon, <1>1, <1>2, <1>3, <1>4, <1>5, <1>6, <1>7, <1>8, <1>15 DEF Writes, BTypes
  <1>16. ASSUME NEW p \in BProc, NEW i \in Buffers, Finishes(p, i) PROVE BTypes' /\ Listed'
    BY Zenon, <1>1, <1>2, <1>3, <1>4, <1>5, <1>6, <1>7, <1>8, <1>16 DEF Finishes, BTypes
  <1>17. ASSUME NEW p \in BProc, NEW i \in Buffers, Releases(p, i) PROVE BTypes' /\ Listed'
    BY Zenon, <1>1, <1>2, <1>3, <1>4, <1>5, <1>6, <1>7, <1>8, <1>17 DEF Releases, BTypes
  <1>18. ASSUME NEW p \in BProc, NEW i \in Buffers, Puts(p, i) PROVE BTypes' /\ Listed'
    BY Zenon, <1>1, <1>2, <1>3, <1>4, <1>5, <1>6, <1>7, <1>8, <1>18 DEF Puts, BTypes
  <1>19. ASSUME NEW i \in Buffers, NEW c \in Copy, Serves(i, c) PROVE BTypes' /\ Listed'
    BY Zenon, <1>1, <1>2, <1>3, <1>4, <1>5, <1>6, <1>7, <1>8, <1>19 DEF Serves, BTypes
  <1>20. CASE UNCHANGED bvars
    BY Zenon, <1>1, <1>20 DEF bvars, BTypes, Listed
  <1>21. QED
    BY Zenon, Steps, <1>9, <1>10, <1>11, <1>12, <1>13, <1>14, <1>15, <1>16, <1>17, <1>18, <1>19, <1>20 DEF Effects

\* A process joins or leaves the users of one buffer.
LEMMA UsersFacts ==
    ASSUME BInv, NEW p \in BProc, NEW i \in Buffers
    PROVE  /\ IsFiniteSet(Users(i)) /\ Cardinality(Users(i)) \in Nat
           /\ bcur' = bcur => \A j \in Buffers : Users(j)' = Users(j)
           /\ bcur[p] = 0 /\ bcur' = [bcur EXCEPT ![p] = i] =>
                  /\ Cardinality(Users(i)') = Cardinality(Users(i)) + 1
                  /\ \A j \in Buffers \ {i} : Users(j)' = Users(j)
           /\ bcur[p] = i /\ bcur' = [bcur EXCEPT ![p] = 0] =>
                  /\ Cardinality(Users(i)') = Cardinality(Users(i)) - 1
                  /\ \A j \in Buffers \ {i} : Users(j)' = Users(j)
  <1>1. bcur \in [BProc -> Buffers \cup {0}] /\ 0 \notin Buffers
    BY Zenon, BufferFacts DEF BInv, BTypes
  <1>2. IsFiniteSet(Users(i)) /\ Cardinality(Users(i)) \in Nat
    BY Zenon, BufferAssumption, FS_Subset, FS_CardinalityType DEF Users
  <1>3. bcur' = bcur => \A j \in Buffers : Users(j)' = Users(j)
    BY Zenon DEF Users
  <1>4. ASSUME bcur[p] = 0, bcur' = [bcur EXCEPT ![p] = i]
        PROVE  /\ Cardinality(Users(i)') = Cardinality(Users(i)) + 1
               /\ \A j \in Buffers \ {i} : Users(j)' = Users(j)
    <2>1. \A q \in BProc : bcur'[q] = IF q = p THEN i ELSE bcur[q]
      BY <1>1, <1>4
    <2>2. Users(i)' = Users(i) \cup {p} /\ p \notin Users(i)
      BY <1>1, <1>4, <2>1 DEF Users
    <2>3. \A j \in Buffers \ {i} : Users(j)' = Users(j)
      BY <1>1, <1>4, <2>1 DEF Users
    <2>4. QED
      BY Zenon, <1>2, <2>2, <2>3, FS_AddElement
  <1>5. ASSUME bcur[p] = i, bcur' = [bcur EXCEPT ![p] = 0]
        PROVE  /\ Cardinality(Users(i)') = Cardinality(Users(i)) - 1
               /\ \A j \in Buffers \ {i} : Users(j)' = Users(j)
    <2>1. \A q \in BProc : bcur'[q] = IF q = p THEN 0 ELSE bcur[q]
      BY <1>1, <1>5
    <2>2. Users(i)' = Users(i) \ {p} /\ p \in Users(i)
      BY <1>1, <1>5, <2>1 DEF Users
    <2>3. \A j \in Buffers \ {i} : Users(j)' = Users(j)
      BY SMTT(20), <1>1, <1>5, <2>1 DEF Users
    <2>4. QED
      BY Zenon, <1>2, <2>2, <2>3, FS_RemoveElement
  <1>6. QED
    BY Zenon, <1>2, <1>3, <1>4, <1>5

\* The reference counts stay exact.
LEMMA CountedStep == ASSUME BInv, [BNext]_bvars PROVE Counted'
  <1>a. /\ BInv /\ (\A q \in BProc : bcur[q] = 0 <=> bpc[q] = "idle")
        /\ (\A q \in BProc : bpc[q] # "idle" => buf[bcur[q]].blockno # BNone)
        /\ (\A j \in Buffers : buf[j].refcnt = Cardinality(Users(j)))
    BY Zenon DEF BInv, Counted
  <1>b. bpc \in [BProc -> {"idle", "lock", "io", "held", "changed", "put"}] /\ bcur \in [BProc -> Buffers \cup {0}]
    BY Zenon DEF BInv, BTypes
  <1>1. ASSUME NEW p \in BProc, Exhausted(p) PROVE Counted'
    <2>1. \A j \in Buffers : buf'[j].refcnt = buf[j].refcnt /\ buf'[j].blockno = buf[j].blockno
      BY Zenon, <1>1 DEF Exhausted, Becomes
    <2>2. \A q \in BProc : bcur'[q] = bcur[q] /\ (bpc'[q] = "idle" <=> bpc[q] = "idle")
      BY <1>1, <1>b DEF Exhausted
    <2>3. \A j \in Buffers : Users(j)' = Users(j)
      BY Zenon, <2>2 DEF Users
    <2>4. \A q \in BProc : bpc'[q] # "idle" => buf'[bcur'[q]].blockno # BNone
      <3> SUFFICES ASSUME NEW q \in BProc, bpc'[q] # "idle" PROVE buf'[bcur'[q]].blockno # BNone
        BY Zenon
      <3>1. bcur[q] \in Buffers /\ bcur'[q] = bcur[q] /\ buf[bcur[q]].blockno # BNone
        BY Zenon, <1>a, <1>b, <2>2
      <3>2. QED
        BY Zenon, <2>1, <3>1
    <2>5. \A j \in Buffers : buf'[j].refcnt = Cardinality(Users(j)')
      BY Zenon, <1>a, <2>1, <2>3
    <2>6. QED
      BY Zenon, <1>a, <2>2, <2>4, <2>5 DEF Counted
  <1>2. ASSUME NEW p \in BProc, NEW b \in BBlock, NEW i \in Buffers, Found(p, b, i) PROVE Counted'
    <2>1. \A j \in Buffers : buf'[j].blockno = buf[j].blockno
      BY Zenon, <1>2 DEF Found, Becomes
    <2>2. \A q \in BProc : /\ bcur'[q] = IF q = p THEN i ELSE bcur[q]
                           /\ bpc'[q] = IF q = p THEN "lock" ELSE bpc[q]
      BY <1>2, <1>b DEF Found
    <2>3. /\ Cardinality(Users(i)') = Cardinality(Users(i)) + 1
          /\ \A j \in Buffers \ {i} : Users(j)' = Users(j)
      BY Zenon, <1>2, <1>a, UsersFacts DEF Found
    <2>4. buf'[i].refcnt = Cardinality(Users(i)') /\ \A j \in Buffers \ {i} : buf'[j].refcnt = buf[j].refcnt
      BY Zenon, <1>2, <1>a, <2>3 DEF Found, Becomes
    <2>5. \A j \in Buffers : buf'[j].refcnt = Cardinality(Users(j)')
      BY Zenon, <1>a, <2>3, <2>4
    <2>6. buf'[i].blockno = b /\ b # BNone
      BY Zenon, <1>2, BufferFacts DEF Found, Becomes
    <2>7. \A q \in BProc : bpc'[q] # "idle" => buf'[bcur'[q]].blockno # BNone
      BY <1>a, <1>b, <2>1, <2>2, <2>6
    <2>8. \A q \in BProc : bcur'[q] = 0 <=> bpc'[q] = "idle"
      BY <1>a, <1>b, <2>2, BufferFacts
    <2>9. QED
      BY Zenon, <2>7, <2>5, <2>8 DEF Counted
  <1>3. ASSUME NEW p \in BProc, NEW b \in BBlock, NEW i \in Buffers, Recycled(p, b, i) PROVE Counted'
    <2>1. \A j \in Buffers : buf'[j].blockno = buf[j].blockno \/ j = i
      BY Zenon, <1>3 DEF Recycled, Becomes
    <2>2. \A q \in BProc : /\ bcur'[q] = IF q = p THEN i ELSE bcur[q]
                           /\ bpc'[q] = IF q = p THEN "lock" ELSE bpc[q]
      BY <1>3, <1>b DEF Recycled
    <2>3. /\ Cardinality(Users(i)') = Cardinality(Users(i)) + 1
          /\ \A j \in Buffers \ {i} : Users(j)' = Users(j)
      BY Zenon, <1>3, <1>a, UsersFacts DEF Recycled
    <2>4. buf'[i].refcnt = Cardinality(Users(i)') /\ \A j \in Buffers \ {i} : buf'[j].refcnt = buf[j].refcnt
      <3>1. buf[i].refcnt = 0 /\ buf'[i].refcnt = 1 /\ \A j \in Buffers \ {i} : buf'[j] = buf[j]
        BY Zenon, <1>3 DEF Recycled, Becomes
      <3>2. Cardinality(Users(i)) = 0
        BY Zenon, <1>a, <3>1
      <3>3. QED
        BY <2>3, <3>1, <3>2
    <2>5. \A j \in Buffers : buf'[j].refcnt = Cardinality(Users(j)')
      BY Zenon, <1>a, <2>3, <2>4
    <2>6. buf'[i].blockno = b /\ b # BNone
      BY Zenon, <1>3, BufferFacts DEF Recycled, Becomes
    <2>7. \A q \in BProc : bpc'[q] # "idle" => buf'[bcur'[q]].blockno # BNone
      BY <1>a, <1>b, <2>1, <2>2, <2>6
    <2>8. \A q \in BProc : bcur'[q] = 0 <=> bpc'[q] = "idle"
      BY <1>a, <1>b, <2>2, BufferFacts
    <2>9. QED
      BY Zenon, <2>7, <2>5, <2>8 DEF Counted
  <1>4. ASSUME NEW p \in BProc, NEW i \in Buffers, Reads(p, i) PROVE Counted'
    <2>1. \A j \in Buffers : buf'[j].refcnt = buf[j].refcnt /\ buf'[j].blockno = buf[j].blockno
      BY Zenon, <1>4 DEF Reads, Becomes
    <2>2. \A q \in BProc : bcur'[q] = bcur[q] /\ (bpc'[q] = "idle" <=> bpc[q] = "idle")
      BY <1>4, <1>b DEF Reads
    <2>3. \A j \in Buffers : Users(j)' = Users(j)
      BY Zenon, <2>2 DEF Users
    <2>4. \A q \in BProc : bpc'[q] # "idle" => buf'[bcur'[q]].blockno # BNone
      <3> SUFFICES ASSUME NEW q \in BProc, bpc'[q] # "idle" PROVE buf'[bcur'[q]].blockno # BNone
        BY Zenon
      <3>1. bcur[q] \in Buffers /\ bcur'[q] = bcur[q] /\ buf[bcur[q]].blockno # BNone
        BY Zenon, <1>a, <1>b, <2>2
      <3>2. QED
        BY Zenon, <2>1, <3>1
    <2>5. \A j \in Buffers : buf'[j].refcnt = Cardinality(Users(j)')
      BY Zenon, <1>a, <2>1, <2>3
    <2>6. QED
      BY Zenon, <1>a, <2>2, <2>4, <2>5 DEF Counted
  <1>5. ASSUME NEW p \in BProc, NEW i \in Buffers, Changes(p, i) PROVE Counted'
    <2>1. \A j \in Buffers : buf'[j].refcnt = buf[j].refcnt /\ buf'[j].blockno = buf[j].blockno
      BY Zenon, <1>5 DEF Changes, Becomes
    <2>2. \A q \in BProc : bcur'[q] = bcur[q] /\ (bpc'[q] = "idle" <=> bpc[q] = "idle")
      BY SMTT(20), <1>5, <1>b DEF Changes
    <2>3. \A j \in Buffers : Users(j)' = Users(j)
      BY Zenon, <2>2 DEF Users
    <2>4. \A q \in BProc : bpc'[q] # "idle" => buf'[bcur'[q]].blockno # BNone
      <3> SUFFICES ASSUME NEW q \in BProc, bpc'[q] # "idle" PROVE buf'[bcur'[q]].blockno # BNone
        BY Zenon
      <3>1. bcur[q] \in Buffers /\ bcur'[q] = bcur[q] /\ buf[bcur[q]].blockno # BNone
        BY Zenon, <1>a, <1>b, <2>2
      <3>2. QED
        BY Zenon, <2>1, <3>1
    <2>5. \A j \in Buffers : buf'[j].refcnt = Cardinality(Users(j)')
      BY Zenon, <1>a, <2>1, <2>3
    <2>6. QED
      BY Zenon, <1>a, <2>2, <2>4, <2>5 DEF Counted
  <1>6. ASSUME NEW p \in BProc, NEW i \in Buffers, Pins(p, i) PROVE Counted'
    <2>1. \A j \in Buffers : buf'[j].refcnt = buf[j].refcnt /\ buf'[j].blockno = buf[j].blockno
      BY Zenon, <1>6 DEF Pins, Becomes
    <2>2. \A q \in BProc : bcur'[q] = bcur[q] /\ (bpc'[q] = "idle" <=> bpc[q] = "idle")
      BY SMTT(20), <1>6, <1>b DEF Pins
    <2>3. \A j \in Buffers : Users(j)' = Users(j)
      BY Zenon, <2>2 DEF Users
    <2>4. \A q \in BProc : bpc'[q] # "idle" => buf'[bcur'[q]].blockno # BNone
      <3> SUFFICES ASSUME NEW q \in BProc, bpc'[q] # "idle" PROVE buf'[bcur'[q]].blockno # BNone
        BY Zenon
      <3>1. bcur[q] \in Buffers /\ bcur'[q] = bcur[q] /\ buf[bcur[q]].blockno # BNone
        BY Zenon, <1>a, <1>b, <2>2
      <3>2. QED
        BY Zenon, <2>1, <3>1
    <2>5. \A j \in Buffers : buf'[j].refcnt = Cardinality(Users(j)')
      BY Zenon, <1>a, <2>1, <2>3
    <2>6. QED
      BY Zenon, <1>a, <2>2, <2>4, <2>5 DEF Counted
  <1>7. ASSUME NEW p \in BProc, NEW i \in Buffers, Writes(p, i) PROVE Counted'
    <2>1. \A j \in Buffers : buf'[j].refcnt = buf[j].refcnt /\ buf'[j].blockno = buf[j].blockno
      BY Zenon, <1>7 DEF Writes, Becomes
    <2>2. \A q \in BProc : bcur'[q] = bcur[q] /\ (bpc'[q] = "idle" <=> bpc[q] = "idle")
      BY SMTT(20), <1>7, <1>b DEF Writes
    <2>3. \A j \in Buffers : Users(j)' = Users(j)
      BY Zenon, <2>2 DEF Users
    <2>4. \A q \in BProc : bpc'[q] # "idle" => buf'[bcur'[q]].blockno # BNone
      <3> SUFFICES ASSUME NEW q \in BProc, bpc'[q] # "idle" PROVE buf'[bcur'[q]].blockno # BNone
        BY Zenon
      <3>1. bcur[q] \in Buffers /\ bcur'[q] = bcur[q] /\ buf[bcur[q]].blockno # BNone
        BY Zenon, <1>a, <1>b, <2>2
      <3>2. QED
        BY Zenon, <2>1, <3>1
    <2>5. \A j \in Buffers : buf'[j].refcnt = Cardinality(Users(j)')
      BY Zenon, <1>a, <2>1, <2>3
    <2>6. QED
      BY Zenon, <1>a, <2>2, <2>4, <2>5 DEF Counted
  <1>8. ASSUME NEW p \in BProc, NEW i \in Buffers, Finishes(p, i) PROVE Counted'
    <2>1. \A j \in Buffers : buf'[j].refcnt = buf[j].refcnt /\ buf'[j].blockno = buf[j].blockno
      BY Zenon, <1>8 DEF Finishes, Becomes
    <2>2. \A q \in BProc : bcur'[q] = bcur[q] /\ (bpc'[q] = "idle" <=> bpc[q] = "idle")
      BY SMTT(20), <1>8, <1>b DEF Finishes
    <2>3. \A j \in Buffers : Users(j)' = Users(j)
      BY Zenon, <2>2 DEF Users
    <2>4. \A q \in BProc : bpc'[q] # "idle" => buf'[bcur'[q]].blockno # BNone
      <3> SUFFICES ASSUME NEW q \in BProc, bpc'[q] # "idle" PROVE buf'[bcur'[q]].blockno # BNone
        BY Zenon
      <3>1. bcur[q] \in Buffers /\ bcur'[q] = bcur[q] /\ buf[bcur[q]].blockno # BNone
        BY Zenon, <1>a, <1>b, <2>2
      <3>2. QED
        BY Zenon, <2>1, <3>1
    <2>5. \A j \in Buffers : buf'[j].refcnt = Cardinality(Users(j)')
      BY Zenon, <1>a, <2>1, <2>3
    <2>6. QED
      BY Zenon, <1>a, <2>2, <2>4, <2>5 DEF Counted
  <1>9. ASSUME NEW p \in BProc, NEW i \in Buffers, Releases(p, i) PROVE Counted'
    <2>1. \A j \in Buffers : buf'[j].refcnt = buf[j].refcnt /\ buf'[j].blockno = buf[j].blockno
      BY Zenon, <1>9 DEF Releases, Becomes
    <2>2. \A q \in BProc : bcur'[q] = bcur[q] /\ (bpc'[q] = "idle" <=> bpc[q] = "idle")
      BY SMTT(20), <1>9, <1>b DEF Releases
    <2>3. \A j \in Buffers : Users(j)' = Users(j)
      BY Zenon, <2>2 DEF Users
    <2>4. \A q \in BProc : bpc'[q] # "idle" => buf'[bcur'[q]].blockno # BNone
      <3> SUFFICES ASSUME NEW q \in BProc, bpc'[q] # "idle" PROVE buf'[bcur'[q]].blockno # BNone
        BY Zenon
      <3>1. bcur[q] \in Buffers /\ bcur'[q] = bcur[q] /\ buf[bcur[q]].blockno # BNone
        BY Zenon, <1>a, <1>b, <2>2
      <3>2. QED
        BY Zenon, <2>1, <3>1
    <2>5. \A j \in Buffers : buf'[j].refcnt = Cardinality(Users(j)')
      BY Zenon, <1>a, <2>1, <2>3
    <2>6. QED
      BY Zenon, <1>a, <2>2, <2>4, <2>5 DEF Counted
  <1>10. ASSUME NEW p \in BProc, NEW i \in Buffers, Puts(p, i) PROVE Counted'
    <2>1. \A j \in Buffers : buf'[j].blockno = buf[j].blockno
      BY Zenon, <1>10 DEF Puts, Becomes
    <2>2. \A q \in BProc : /\ bcur'[q] = IF q = p THEN 0 ELSE bcur[q]
                           /\ bpc'[q] = IF q = p THEN "idle" ELSE bpc[q]
      BY <1>10, <1>b DEF Puts
    <2>3. /\ Cardinality(Users(i)') = Cardinality(Users(i)) - 1
          /\ \A j \in Buffers \ {i} : Users(j)' = Users(j)
      BY Zenon, <1>10, <1>a, UsersFacts DEF Puts
    <2>4. buf'[i].refcnt = Cardinality(Users(i)') /\ \A j \in Buffers \ {i} : buf'[j].refcnt = buf[j].refcnt
      BY Zenon, <1>10, <1>a, <2>3 DEF Puts, Becomes
    <2>5. \A j \in Buffers : buf'[j].refcnt = Cardinality(Users(j)')
      BY Zenon, <1>a, <2>3, <2>4
    <2>6. \A q \in BProc : bpc'[q] # "idle" => buf'[bcur'[q]].blockno # BNone
      BY Zenon, <1>10, <1>a, <1>b, <2>1, <2>2 DEF Puts
    <2>8. \A q \in BProc : bcur'[q] = 0 <=> bpc'[q] = "idle"
      BY <1>a, <1>b, <2>2, BufferFacts
    <2>9. QED
      BY Zenon, <2>6, <2>5, <2>8 DEF Counted
  <1>11. ASSUME NEW i \in Buffers, NEW c \in Copy, Serves(i, c) PROVE Counted'
    <2>1. \A j \in Buffers : buf'[j].refcnt = buf[j].refcnt /\ buf'[j].blockno = buf[j].blockno
      BY Zenon, <1>11 DEF Serves, Becomes
    <2>2. \A q \in BProc : bcur'[q] = bcur[q] /\ (bpc'[q] = "idle" <=> bpc[q] = "idle")
      BY <1>11, <1>b DEF Serves
    <2>3. \A j \in Buffers : Users(j)' = Users(j)
      BY Zenon, <2>2 DEF Users
    <2>4. \A q \in BProc : bpc'[q] # "idle" => buf'[bcur'[q]].blockno # BNone
      <3> SUFFICES ASSUME NEW q \in BProc, bpc'[q] # "idle" PROVE buf'[bcur'[q]].blockno # BNone
        BY Zenon
      <3>1. bcur[q] \in Buffers /\ bcur'[q] = bcur[q] /\ buf[bcur[q]].blockno # BNone
        BY Zenon, <1>a, <1>b, <2>2
      <3>2. QED
        BY Zenon, <2>1, <3>1
    <2>5. \A j \in Buffers : buf'[j].refcnt = Cardinality(Users(j)')
      BY Zenon, <1>a, <2>1, <2>3
    <2>6. QED
      BY Zenon, <1>a, <2>2, <2>4, <2>5 DEF Counted
  <1>12. CASE UNCHANGED bvars
    BY Zenon, <1>12, <1>a DEF bvars, Counted, Users
  <1>13. QED
    BY Zenon, Steps, <1>1, <1>2, <1>3, <1>4, <1>5, <1>6, <1>7, <1>8, <1>9, <1>10, <1>11, <1>12 DEF Effects

\* A request that is not done, with its owner waiting
Pending(x) == ~ Done(x) /\ \E p \in BProc : bcur[p] = x /\ bpc[p] = "io" /\ buf[x].owner = p

Distinct == \A m, n \in DOMAIN idequeue : idequeue[m] = idequeue[n] => m = n

\* Every step keeps one buffer for each block.
LEMMA DistinctStep ==
    ASSUME BInv
    PROVE  /\ \A i \in Buffers : i \notin Waiting /\ Queue(i) => Distinct'
           /\ idequeue # << >> /\ idequeue' = Tail(idequeue) => Distinct'
  <1>1. idequeue \in Seq(Buffers) /\ \A m, n \in DOMAIN idequeue : idequeue[m] = idequeue[n] => m = n
    BY Zenon DEF BInv, BTypes, QueueOwned
  <1>2. ASSUME NEW i \in Buffers, i \notin Waiting, Queue(i) PROVE Distinct'
    <2>1. idequeue' = Append(idequeue, i) /\ \A m \in DOMAIN idequeue : idequeue[m] # i
      BY Zenon, <1>2 DEF Queue, Waiting
    <2>2. QED
      BY <1>1, <2>1 DEF Distinct
  <1>3. ASSUME idequeue # << >>, idequeue' = Tail(idequeue) PROVE Distinct'
    <2>1. \A m \in DOMAIN idequeue' : m \in Nat /\ m + 1 \in DOMAIN idequeue /\ idequeue'[m] = idequeue[m + 1]
      BY <1>1, <1>3
    <2>2. ASSUME NEW m \in DOMAIN idequeue', NEW n \in DOMAIN idequeue', idequeue'[m] = idequeue'[n] PROVE m = n
      <3>1. m + 1 = n + 1
        BY Zenon, <1>1, <2>1, <2>2
      <3>2. QED
        BY <2>1, <3>1
    <2>3. QED
      BY Zenon, <2>2 DEF Distinct
  <1>4. QED
    BY Zenon, <1>2, <1>3

\* The buffers in the queue of the disk are requests that wait.
LEMMA QueueAlt == ASSUME BInv PROVE (\A x \in Waiting : Pending(x)) /\ Waiting \subseteq Buffers
  <1>1. \A m \in DOMAIN idequeue : Pending(idequeue[m])
    BY Zenon DEF BInv, Pending, Requests, QueueOwned
  <1>2. QED
    BY Zenon, <1>1, QueueEffects DEF Waiting

\* A buffer that is not yet in the queue
LEMMA NotWaiting ==
    ASSUME BInv, NEW i \in Buffers, i \in Waiting
    PROVE  /\ ~ Done(i) /\ buf[i].owner # BNone /\ buf[i].refcnt # 0
           /\ \A p \in BProc : bcur[p] = i /\ bpc[p] # "io" => bpc[p] = "lock" \/ bpc[p] = "put"
  <1>1. PICK p \in BProc : ~ Done(i) /\ bcur[p] = i /\ bpc[p] = "io" /\ buf[i].owner = p
    BY Zenon, QueueAlt DEF Pending
  <1>2. buf[i].owner # BNone
    BY Zenon, <1>1, BufferFacts
  <1>3. buf[i].refcnt # 0
    BY Zenon, <1>1, NotUsed
  <1>4. \A q \in BProc : bcur[q] = i /\ bpc[q] # "io" => bpc[q] = "lock" \/ bpc[q] = "put"
    <2> SUFFICES ASSUME NEW q \in BProc, bcur[q] = i, bpc[q] # "io" PROVE bpc[q] = "lock" \/ bpc[q] = "put"
      BY Zenon
    <2>1. q # p
      BY Zenon, <1>1
    <2>2. buf[i].owner # q
      BY Zenon, <1>1, <2>1
    <2>3. bpc[q] \notin {"io", "held", "changed"}
      <3>1. Owners
        BY Zenon DEF BInv
      <3>2. QED
        BY <2>2, <3>1 DEF Owners
    <2>4. bpc[q] # "idle" /\ bpc[q] \in {"idle", "lock", "io", "held", "changed", "put"}
      <3>1. bcur[q] # 0
        BY Zenon, BufferFacts
      <3>2. QED
        BY Zenon, <3>1 DEF BInv, BTypes, Counted
    <2>5. QED
      BY <2>3, <2>4
  <1>5. QED
    BY Zenon, <1>1, <1>2, <1>3, <1>4

\* What the queue's two invariants come to
LEMMA QueueFromWaiting ==
    ASSUME Distinct', \A x \in Waiting' : Pending(x)', active' <=> idequeue' # << >>
    PROVE  Requests' /\ QueueOwned'
  <1>1. \A x \in Waiting' : /\ ~ (buf'[x].valid /\ ~ buf'[x].dirty)
                            /\ \E p \in BProc : bcur'[p] = x /\ bpc'[p] = "io" /\ buf'[x].owner = p
    BY Zenon DEF Pending, Done
  <1>2. \A m \in DOMAIN idequeue' :
            /\ ~ (buf'[idequeue'[m]].valid /\ ~ buf'[idequeue'[m]].dirty)
            /\ \E p \in BProc : bcur'[p] = idequeue'[m] /\ bpc'[p] = "io" /\ buf'[idequeue'[m]].owner = p
    BY Zenon, <1>1 DEF Waiting
  <1>3. QED
    BY Zenon, <1>2 DEF Distinct, Requests, QueueOwned, Done

\* A step that leaves the queue alone leaves the same buffers waiting, each once.
LEMMA QueueSame == ASSUME BInv, idequeue' = idequeue, active' = active
                   PROVE  Distinct' /\ Waiting' = Waiting /\ (active' <=> idequeue' # << >>)
  <1>1. Requests /\ QueueOwned
    BY Zenon DEF BInv
  <1>2. Distinct /\ (active <=> idequeue # << >>)
    BY Zenon, <1>1 DEF Requests, QueueOwned, Distinct
  <1>3. QED
    BY <1>2 DEF Distinct, Waiting

\* The queue keeps one pending request per buffer.
LEMMA QueueStep == ASSUME BInv, [BNext]_bvars PROVE Requests' /\ QueueOwned'
  <1>a. (\A x \in Waiting : Pending(x)) /\ Waiting \subseteq Buffers
    BY Zenon, QueueAlt
  <1>b. bpc \in [BProc -> {"idle", "lock", "io", "held", "changed", "put"}] /\ bcur \in [BProc -> Buffers \cup {0}]
    BY Zenon DEF BInv, BTypes
  <1>c. \A j \in Buffers, q \in BProc : bcur[q] = j /\ bpc[q] \in {"held", "changed"} => buf[j].owner = q
    BY Zenon DEF BInv, Owners
  <1>1. ASSUME NEW p \in BProc, Exhausted(p) PROVE Requests' /\ QueueOwned'
    <2>1. Distinct' /\ Waiting' = Waiting /\ (active' <=> idequeue' # << >>)
      BY Zenon, <1>1, QueueSame DEF Exhausted
    <2>2. ASSUME NEW x \in Waiting PROVE Pending(x)'
      <3>1. PICK q \in BProc : ~ Done(x) /\ bcur[q] = x /\ bpc[q] = "io" /\ buf[x].owner = q /\ x \in Buffers
        BY Zenon, <1>a, <2>2 DEF Pending
      <3>2. buf' = buf /\ bcur' = bcur /\ bpc' = bpc
        BY Zenon, <1>1 DEF Exhausted
      <3>3. QED
        BY Zenon, <3>1, <3>2 DEF Pending, Done
    <2>3. QED
      BY Zenon, <2>1, <2>2, QueueFromWaiting
  <1>2. ASSUME NEW p \in BProc, NEW b \in BBlock, NEW i \in Buffers, Found(p, b, i) PROVE Requests' /\ QueueOwned'
    <2>1. Distinct' /\ Waiting' = Waiting /\ (active' <=> idequeue' # << >>)
      BY Zenon, <1>2, QueueSame DEF Found
    <2>2. ASSUME NEW x \in Waiting PROVE Pending(x)'
      <3>1. PICK q \in BProc : ~ Done(x) /\ bcur[q] = x /\ bpc[q] = "io" /\ buf[x].owner = q /\ x \in Buffers
        BY Zenon, <1>a, <2>2 DEF Pending
      <3>2. q # p
        BY <1>2, <3>1 DEF Found
      <3>3. bcur'[q] = bcur[q] /\ bpc'[q] = bpc[q]
        BY Zenon, <1>2, <1>b, <3>2 DEF Found
      <3>4. (buf'[x].valid <=> buf[x].valid) /\ (buf[x].dirty => buf'[x].dirty) /\ buf'[x].owner = buf[x].owner
        BY Zenon, <1>2, <3>1 DEF Found, Becomes
      <3>5. QED
        BY Zenon, <3>1, <3>3, <3>4 DEF Pending, Done
    <2>3. QED
      BY Zenon, <2>1, <2>2, QueueFromWaiting
  <1>3. ASSUME NEW p \in BProc, NEW b \in BBlock, NEW i \in Buffers, Recycled(p, b, i) PROVE Requests' /\ QueueOwned'
    <2>1. Distinct' /\ Waiting' = Waiting /\ (active' <=> idequeue' # << >>)
      BY Zenon, <1>3, QueueSame DEF Recycled
    <2>2. ASSUME NEW x \in Waiting PROVE Pending(x)'
      <3>1. PICK q \in BProc : ~ Done(x) /\ bcur[q] = x /\ bpc[q] = "io" /\ buf[x].owner = q /\ x \in Buffers
        BY Zenon, <1>a, <2>2 DEF Pending
      <3>2. q # p
        BY <1>3, <3>1 DEF Recycled
      <3>3. bcur'[q] = bcur[q] /\ bpc'[q] = bpc[q]
        BY Zenon, <1>3, <1>b, <3>2 DEF Recycled
      <3>a. x # i
        BY Zenon, <1>3, <2>2, NotWaiting DEF Recycled
      <3>4. buf'[x] = buf[x]
        BY Zenon, <1>3, <3>1, <3>a DEF Recycled, Becomes
      <3>5. QED
        BY Zenon, <3>1, <3>3, <3>4 DEF Pending, Done
    <2>3. QED
      BY Zenon, <2>1, <2>2, QueueFromWaiting
  <1>4. ASSUME NEW p \in BProc, NEW i \in Buffers, Reads(p, i) PROVE Requests' /\ QueueOwned'
    <2>a. CASE ~ buf[i].valid /\ bpc' = [bpc EXCEPT ![p] = "io"] /\ Queue(i)
      <3>1. i \notin Waiting
        BY Zenon, <1>4, NotWaiting DEF Reads
      <3>2. Distinct' /\ Waiting' = Waiting \cup {i} /\ (active' <=> idequeue' # << >>)
        BY Zenon, <1>4, <2>a, <3>1, DistinctStep, QueueEffects DEF Reads
      <3>3. bcur' = bcur /\ bcur[p] = i /\ \A q \in BProc : bpc'[q] = IF q = p THEN "io" ELSE bpc[q]
        BY <1>4, <2>a, <1>b DEF Reads
      <3>4. ASSUME NEW x \in Waiting PROVE Pending(x)'
        <4>1. PICK q \in BProc : ~ Done(x) /\ bcur[q] = x /\ bpc[q] = "io" /\ buf[x].owner = q /\ x \in Buffers
          BY Zenon, <1>a, <3>4 DEF Pending
        <4>2. x # i
          BY Zenon, <3>1, <3>4
        <4>3. buf'[x] = buf[x] /\ bcur'[q] = bcur[q] /\ bpc'[q] = "io"
          BY Zenon, <1>4, <3>3, <4>1, <4>2 DEF Reads, Becomes
        <4>4. QED
          BY Zenon, <4>1, <4>3 DEF Pending, Done
      <3>5. Pending(i)'
        <4>1. buf'[i].owner = p /\ ~ (buf'[i].valid /\ ~ buf'[i].dirty)
          BY Zenon, <1>4, <2>a DEF Reads, Becomes
        <4>2. QED
          BY Zenon, <3>3, <4>1 DEF Pending, Done
      <3>6. QED
        BY Zenon, <3>2, <3>4, <3>5, QueueFromWaiting
    <2>b. CASE buf[i].valid /\ bpc' = [bpc EXCEPT ![p] = "held"] /\ UNCHANGED <<idequeue, active>>
      <3>1. Distinct' /\ Waiting' = Waiting /\ (active' <=> idequeue' # << >>)
        BY Zenon, <2>b, QueueSame
      <3>2. ASSUME NEW x \in Waiting PROVE Pending(x)'
        <4>1. PICK q \in BProc : ~ Done(x) /\ bcur[q] = x /\ bpc[q] = "io" /\ buf[x].owner = q /\ x \in Buffers
          BY Zenon, <1>a, <3>2 DEF Pending
        <4>2. q # p
          BY <1>4, <4>1 DEF Reads
        <4>3. bcur'[q] = bcur[q] /\ bpc'[q] = bpc[q]
          BY Zenon, <1>4, <2>b, <1>b, <4>2 DEF Reads
        <4>a. x # i
          BY Zenon, <1>4, <3>2, NotWaiting DEF Reads
        <4>4. (buf'[x].valid <=> buf[x].valid) /\ (buf[x].dirty => buf'[x].dirty) /\ buf'[x].owner = buf[x].owner
          BY Zenon, <1>4, <4>1, <4>a DEF Reads, Becomes
        <4>5. QED
          BY Zenon, <4>1, <4>3, <4>4 DEF Pending, Done
      <3>3. QED
        BY Zenon, <3>1, <3>2, QueueFromWaiting
    <2>c. QED
      BY Zenon, <1>4, <2>a, <2>b DEF Reads
  <1>5. ASSUME NEW p \in BProc, NEW i \in Buffers, Changes(p, i) PROVE Requests' /\ QueueOwned'
    <2>1. Distinct' /\ Waiting' = Waiting /\ (active' <=> idequeue' # << >>)
      BY Zenon, <1>5, QueueSame DEF Changes
    <2>2. ASSUME NEW x \in Waiting PROVE Pending(x)'
      <3>1. PICK q \in BProc : ~ Done(x) /\ bcur[q] = x /\ bpc[q] = "io" /\ buf[x].owner = q /\ x \in Buffers
        BY Zenon, <1>a, <2>2 DEF Pending
      <3>2. q # p
        BY <1>5, <3>1 DEF Changes
      <3>3. bcur'[q] = bcur[q] /\ bpc'[q] = bpc[q]
        BY Zenon, <1>5, <1>b, <3>2 DEF Changes
      <3>4. buf' = buf
        BY Zenon, <1>5 DEF Changes
      <3>5. QED
        BY Zenon, <3>1, <3>3, <3>4 DEF Pending, Done
    <2>3. QED
      BY Zenon, <2>1, <2>2, QueueFromWaiting
  <1>6. ASSUME NEW p \in BProc, NEW i \in Buffers, Pins(p, i) PROVE Requests' /\ QueueOwned'
    <2>1. Distinct' /\ Waiting' = Waiting /\ (active' <=> idequeue' # << >>)
      BY Zenon, <1>6, QueueSame DEF Pins
    <2>2. ASSUME NEW x \in Waiting PROVE Pending(x)'
      <3>1. PICK q \in BProc : ~ Done(x) /\ bcur[q] = x /\ bpc[q] = "io" /\ buf[x].owner = q /\ x \in Buffers
        BY Zenon, <1>a, <2>2 DEF Pending
      <3>2. q # p
        BY <1>6, <3>1 DEF Pins
      <3>3. bcur'[q] = bcur[q] /\ bpc'[q] = bpc[q]
        BY Zenon, <1>6, <1>b, <3>2 DEF Pins
      <3>4. (buf'[x].valid <=> buf[x].valid) /\ (buf[x].dirty => buf'[x].dirty) /\ buf'[x].owner = buf[x].owner
        BY Zenon, <1>6, <3>1 DEF Pins, Becomes
      <3>5. QED
        BY Zenon, <3>1, <3>3, <3>4 DEF Pending, Done
    <2>3. QED
      BY Zenon, <2>1, <2>2, QueueFromWaiting
  <1>7. ASSUME NEW p \in BProc, NEW i \in Buffers, Writes(p, i) PROVE Requests' /\ QueueOwned'
    <2>1. i \notin Waiting
      BY <1>7, NotWaiting DEF Writes
    <2>2. Distinct' /\ Waiting' = Waiting \cup {i} /\ (active' <=> idequeue' # << >>)
      BY Zenon, <1>7, <2>1, DistinctStep, QueueEffects DEF Writes
    <2>3. bcur' = bcur /\ bcur[p] = i /\ \A q \in BProc : bpc'[q] = IF q = p THEN "io" ELSE bpc[q]
      BY <1>7, <1>b DEF Writes
    <2>4. ASSUME NEW x \in Waiting PROVE Pending(x)'
      <3>1. PICK q \in BProc : ~ Done(x) /\ bcur[q] = x /\ bpc[q] = "io" /\ buf[x].owner = q /\ x \in Buffers
        BY Zenon, <1>a, <2>4 DEF Pending
      <3>2. x # i
        BY Zenon, <2>1, <2>4
      <3>3. buf'[x] = buf[x] /\ bcur'[q] = bcur[q] /\ bpc'[q] = "io"
        BY Zenon, <1>7, <2>3, <3>1, <3>2 DEF Writes, Becomes
      <3>4. QED
        BY Zenon, <3>1, <3>3 DEF Pending, Done
    <2>5. Pending(i)'
      <3>1. buf'[i].owner = p /\ ~ (buf'[i].valid /\ ~ buf'[i].dirty)
        BY Zenon, <1>7, <1>c DEF Writes, Becomes
      <3>2. QED
        BY Zenon, <2>3, <3>1 DEF Pending, Done
    <2>6. QED
      BY Zenon, <2>2, <2>4, <2>5, QueueFromWaiting
  <1>8. ASSUME NEW p \in BProc, NEW i \in Buffers, Finishes(p, i) PROVE Requests' /\ QueueOwned'
    <2>1. Distinct' /\ Waiting' = Waiting /\ (active' <=> idequeue' # << >>)
      BY Zenon, <1>8, QueueSame DEF Finishes
    <2>2. ASSUME NEW x \in Waiting PROVE Pending(x)'
      <3>1. PICK q \in BProc : ~ Done(x) /\ bcur[q] = x /\ bpc[q] = "io" /\ buf[x].owner = q /\ x \in Buffers
        BY Zenon, <1>a, <2>2 DEF Pending
      <3>a. x # i
        BY Zenon, <1>8, <3>1 DEF Finishes, Done
      <3>2. q # p
        BY Zenon, <1>8, <3>1, <3>a DEF Finishes
      <3>3. bcur'[q] = bcur[q] /\ bpc'[q] = bpc[q]
        BY Zenon, <1>8, <1>b, <3>2 DEF Finishes
      <3>4. buf' = buf
        BY Zenon, <1>8 DEF Finishes
      <3>5. QED
        BY Zenon, <3>1, <3>3, <3>4 DEF Pending, Done
    <2>3. QED
      BY Zenon, <2>1, <2>2, QueueFromWaiting
  <1>9. ASSUME NEW p \in BProc, NEW i \in Buffers, Releases(p, i) PROVE Requests' /\ QueueOwned'
    <2>1. Distinct' /\ Waiting' = Waiting /\ (active' <=> idequeue' # << >>)
      BY Zenon, <1>9, QueueSame DEF Releases
    <2>2. ASSUME NEW x \in Waiting PROVE Pending(x)'
      <3>1. PICK q \in BProc : ~ Done(x) /\ bcur[q] = x /\ bpc[q] = "io" /\ buf[x].owner = q /\ x \in Buffers
        BY Zenon, <1>a, <2>2 DEF Pending
      <3>2. q # p
        BY <1>9, <3>1 DEF Releases
      <3>3. bcur'[q] = bcur[q] /\ bpc'[q] = bpc[q]
        BY Zenon, <1>9, <1>b, <3>2 DEF Releases
      <3>a. x # i
        BY <1>9, <2>2, NotWaiting DEF Releases
      <3>4. buf'[x] = buf[x]
        BY Zenon, <1>9, <3>1, <3>a DEF Releases, Becomes
      <3>5. QED
        BY Zenon, <3>1, <3>3, <3>4 DEF Pending, Done
    <2>3. QED
      BY Zenon, <2>1, <2>2, QueueFromWaiting
  <1>10. ASSUME NEW p \in BProc, NEW i \in Buffers, Puts(p, i) PROVE Requests' /\ QueueOwned'
    <2>1. Distinct' /\ Waiting' = Waiting /\ (active' <=> idequeue' # << >>)
      BY Zenon, <1>10, QueueSame DEF Puts
    <2>2. ASSUME NEW x \in Waiting PROVE Pending(x)'
      <3>1. PICK q \in BProc : ~ Done(x) /\ bcur[q] = x /\ bpc[q] = "io" /\ buf[x].owner = q /\ x \in Buffers
        BY Zenon, <1>a, <2>2 DEF Pending
      <3>2. q # p
        BY <1>10, <3>1 DEF Puts
      <3>3. bcur'[q] = bcur[q] /\ bpc'[q] = bpc[q]
        BY Zenon, <1>10, <1>b, <3>2 DEF Puts
      <3>4. (buf'[x].valid <=> buf[x].valid) /\ (buf[x].dirty => buf'[x].dirty) /\ buf'[x].owner = buf[x].owner
        BY Zenon, <1>10, <3>1 DEF Puts, Becomes
      <3>5. QED
        BY Zenon, <3>1, <3>3, <3>4 DEF Pending, Done
    <2>3. QED
      BY Zenon, <2>1, <2>2, QueueFromWaiting
  <1>11. ASSUME NEW i \in Buffers, NEW c \in Copy, Serves(i, c) PROVE Requests' /\ QueueOwned'
    <2>1. Waiting' = Waiting \ {i} /\ Distinct' /\ (active' <=> idequeue' # << >>)
      BY Zenon, <1>11, DistinctStep, QueueEffects DEF Serves
    <2>2. ASSUME NEW x \in Waiting \ {i} PROVE Pending(x)'
      <3>1. PICK q \in BProc : ~ Done(x) /\ bcur[q] = x /\ bpc[q] = "io" /\ buf[x].owner = q /\ x \in Buffers
        BY Zenon, <1>a, <2>2 DEF Pending
      <3>2. buf'[x] = buf[x] /\ bcur' = bcur /\ bpc' = bpc
        BY Zenon, <1>11, <2>2, <3>1 DEF Serves, Becomes
      <3>3. QED
        BY Zenon, <3>1, <3>2 DEF Pending, Done
    <2>3. QED
      BY Zenon, <2>1, <2>2, QueueFromWaiting
  <1>12. CASE UNCHANGED bvars
    <2>1. Distinct' /\ Waiting' = Waiting /\ (active' <=> idequeue' # << >>)
      BY Zenon, <1>12, QueueSame DEF bvars
    <2>2. ASSUME NEW x \in Waiting PROVE Pending(x)'
      <3>1. PICK q \in BProc : ~ Done(x) /\ bcur[q] = x /\ bpc[q] = "io" /\ buf[x].owner = q /\ x \in Buffers
        BY Zenon, <1>a, <2>2 DEF Pending
      <3>2. buf' = buf /\ bcur' = bcur /\ bpc' = bpc
        BY Zenon, <1>12 DEF bvars
      <3>3. QED
        BY Zenon, <3>1, <3>2 DEF Pending, Done
    <2>3. QED
      BY Zenon, <2>1, <2>2, QueueFromWaiting
  <1>13. QED
    BY Zenon, Steps, <1>1, <1>2, <1>3, <1>4, <1>5, <1>6, <1>7, <1>8, <1>9, <1>10, <1>11, <1>12 DEF Effects

\* The buffers that are dirty and in no request
LEMMA PinnedAlt == ASSUME BInv
                   PROVE  /\ Pinned = {i \in Buffers : buf[i].dirty /\ i \notin Waiting}
                          /\ Pinned' = {i \in Buffers : buf'[i].dirty /\ i \notin Waiting'}
                          /\ IsFiniteSet(Pinned) /\ Cardinality(Pinned) \in Nat
  <1>1. /\ Pinned = {i \in Buffers : buf[i].dirty /\ i \notin Waiting}
        /\ Pinned' = {i \in Buffers : buf'[i].dirty /\ i \notin Waiting'}
    BY Zenon DEF Pinned, Waiting
  <1>2. IsFiniteSet(Buffers)
    BY BufferFacts, FS_Interval DEF Buffers
  <1>3. QED
    BY Zenon, <1>1, <1>2, FS_Subset, FS_CardinalityType

\* Only log_write pins a buffer, within its limit.
LEMMA PinnedStep == ASSUME BInv, [BNext]_bvars PROVE Cardinality(Pinned') <= MaxPinned
  <1>a. /\ Pinned = {i \in Buffers : buf[i].dirty /\ i \notin Waiting}
        /\ Pinned' = {i \in Buffers : buf'[i].dirty /\ i \notin Waiting'}
        /\ IsFiniteSet(Pinned) /\ Cardinality(Pinned) \in Nat
    BY Zenon, PinnedAlt
  <1>b. ASSUME Pinned' \subseteq Pinned PROVE Cardinality(Pinned') <= MaxPinned
    <2>1. IsFiniteSet(Pinned') /\ Cardinality(Pinned') <= Cardinality(Pinned)
      BY Zenon, <1>a, <1>b, FS_Subset
    <2>2. Cardinality(Pinned) <= MaxPinned /\ Cardinality(Pinned') \in Nat
      BY Zenon, <2>1, FS_CardinalityType DEF BInv
    <2>3. QED
      BY <1>a, <2>1, <2>2, BufferFacts
  <1>1. ASSUME NEW p \in BProc, Exhausted(p) PROVE Cardinality(Pinned') <= MaxPinned
    <2>1. Waiting' = Waiting
      BY Zenon, <1>1, QueueSame DEF Exhausted
    <2>2. \A j \in Buffers : buf'[j].dirty => buf[j].dirty
      BY Zenon, <1>1 DEF Exhausted, Becomes
    <2>3. Pinned' \subseteq Pinned
      BY Zenon, <1>a, <2>1, <2>2
    <2>4. QED
      BY Zenon, <1>b, <2>3
  <1>2. ASSUME NEW p \in BProc, NEW b \in BBlock, NEW i \in Buffers, Found(p, b, i) PROVE Cardinality(Pinned') <= MaxPinned
    <2>1. Waiting' = Waiting
      BY Zenon, <1>2, QueueSame DEF Found
    <2>2. \A j \in Buffers : buf'[j].dirty => buf[j].dirty
      BY Zenon, <1>2 DEF Found, Becomes
    <2>3. Pinned' \subseteq Pinned
      BY Zenon, <1>a, <2>1, <2>2
    <2>4. QED
      BY Zenon, <1>b, <2>3
  <1>3. ASSUME NEW p \in BProc, NEW b \in BBlock, NEW i \in Buffers, Recycled(p, b, i) PROVE Cardinality(Pinned') <= MaxPinned
    <2>1. Waiting' = Waiting
      BY Zenon, <1>3, QueueSame DEF Recycled
    <2>2. \A j \in Buffers : buf'[j].dirty => buf[j].dirty
      BY Zenon, <1>3 DEF Recycled, Becomes
    <2>3. Pinned' \subseteq Pinned
      BY Zenon, <1>a, <2>1, <2>2
    <2>4. QED
      BY Zenon, <1>b, <2>3
  <1>4. ASSUME NEW p \in BProc, NEW i \in Buffers, Reads(p, i) PROVE Cardinality(Pinned') <= MaxPinned
    <2>1. Waiting \subseteq Waiting'
      BY Zenon, <1>4, QueueSame, QueueEffects DEF Reads
    <2>2. \A j \in Buffers : buf'[j].dirty => buf[j].dirty
      BY Zenon, <1>4 DEF Reads, Becomes
    <2>3. Pinned' \subseteq Pinned
      BY Zenon, <1>a, <2>1, <2>2
    <2>4. QED
      BY Zenon, <1>b, <2>3
  <1>5. ASSUME NEW p \in BProc, NEW i \in Buffers, Changes(p, i) PROVE Cardinality(Pinned') <= MaxPinned
    <2>1. Waiting' = Waiting
      BY Zenon, <1>5, QueueSame DEF Changes
    <2>2. \A j \in Buffers : buf'[j].dirty => buf[j].dirty
      BY Zenon, <1>5 DEF Changes, Becomes
    <2>3. Pinned' \subseteq Pinned
      BY Zenon, <1>a, <2>1, <2>2
    <2>4. QED
      BY Zenon, <1>b, <2>3
  <1>6. ASSUME NEW p \in BProc, NEW i \in Buffers, Pins(p, i) PROVE Cardinality(Pinned') <= MaxPinned
    <2>1. Waiting' = Waiting /\ Cardinality(Pinned \cup {i}) <= MaxPinned
      BY Zenon, <1>6, QueueSame DEF Pins
    <2>2. i \notin Waiting
      BY <1>6, NotWaiting DEF Pins
    <2>3. buf'[i].dirty /\ \A j \in Buffers \ {i} : buf'[j] = buf[j]
      BY Zenon, <1>6 DEF Pins, Becomes
    <2>4. Pinned' = Pinned \cup {i}
      BY Zenon, <1>a, <2>1, <2>2, <2>3
    <2>5. QED
      BY Zenon, <2>1, <2>4
  <1>7. ASSUME NEW p \in BProc, NEW i \in Buffers, Writes(p, i) PROVE Cardinality(Pinned') <= MaxPinned
    <2>1. Waiting' = Waiting \cup {i}
      BY Zenon, <1>7, QueueEffects DEF Writes
    <2>2. \A j \in Buffers : buf'[j].dirty => buf[j].dirty \/ j = i
      BY Zenon, <1>7 DEF Writes, Becomes
    <2>3. Pinned' \subseteq Pinned
      BY Zenon, <1>a, <2>1, <2>2
    <2>4. QED
      BY Zenon, <1>b, <2>3
  <1>8. ASSUME NEW p \in BProc, NEW i \in Buffers, Finishes(p, i) PROVE Cardinality(Pinned') <= MaxPinned
    <2>1. Waiting' = Waiting
      BY Zenon, <1>8, QueueSame DEF Finishes
    <2>2. \A j \in Buffers : buf'[j].dirty => buf[j].dirty
      BY Zenon, <1>8 DEF Finishes, Becomes
    <2>3. Pinned' \subseteq Pinned
      BY Zenon, <1>a, <2>1, <2>2
    <2>4. QED
      BY Zenon, <1>b, <2>3
  <1>9. ASSUME NEW p \in BProc, NEW i \in Buffers, Releases(p, i) PROVE Cardinality(Pinned') <= MaxPinned
    <2>1. Waiting' = Waiting
      BY Zenon, <1>9, QueueSame DEF Releases
    <2>2. \A j \in Buffers : buf'[j].dirty => buf[j].dirty
      BY Zenon, <1>9 DEF Releases, Becomes
    <2>3. Pinned' \subseteq Pinned
      BY Zenon, <1>a, <2>1, <2>2
    <2>4. QED
      BY Zenon, <1>b, <2>3
  <1>10. ASSUME NEW p \in BProc, NEW i \in Buffers, Puts(p, i) PROVE Cardinality(Pinned') <= MaxPinned
    <2>1. Waiting' = Waiting
      BY Zenon, <1>10, QueueSame DEF Puts
    <2>2. \A j \in Buffers : buf'[j].dirty => buf[j].dirty
      BY Zenon, <1>10 DEF Puts, Becomes
    <2>3. Pinned' \subseteq Pinned
      BY Zenon, <1>a, <2>1, <2>2
    <2>4. QED
      BY Zenon, <1>b, <2>3
  <1>11. ASSUME NEW i \in Buffers, NEW c \in Copy, Serves(i, c) PROVE Cardinality(Pinned') <= MaxPinned
    <2>1. Waiting' = Waiting \ {i} /\ ~ buf'[i].dirty /\ \A j \in Buffers \ {i} : buf'[j] = buf[j]
      BY Zenon, <1>11, QueueEffects DEF Serves, Becomes
    <2>2. Pinned' \subseteq Pinned
      BY Zenon, <1>a, <2>1
    <2>3. QED
      BY Zenon, <1>b, <2>2
  <1>12. CASE UNCHANGED bvars
    <2>1. Pinned' = Pinned
      BY Zenon, <1>12 DEF bvars, Pinned
    <2>2. QED
      BY Zenon, <1>b, <2>1
  <1>13. QED
    BY Zenon, Steps, <1>1, <1>2, <1>3, <1>4, <1>5, <1>6, <1>7, <1>8, <1>9, <1>10, <1>11, <1>12 DEF Effects

\* A process that finds no buffer leaves one for each other process and each pinned block, which
\* are all of them.
LEMMA Supply == ASSUME BInv, NEW p \in BProc, Exhausted(p) PROVE ~ (NBUF >= MaxPinned + Cardinality(BProc))
  <1> DEFINE Others == BProc \ {p}
             Used == {bcur[q] : q \in Others}
  <1>1. IsFiniteSet(Others) /\ Cardinality(Others) = Cardinality(BProc) - 1 /\ Cardinality(BProc) \in Nat
    BY Zenon, BufferAssumption, FS_RemoveElement, FS_CardinalityType
  <1>2. PICK f : f = [q \in Others |-> bcur[q]]
    BY Zenon
  <1>3. f \in Surjection(Others, Used)
    BY Zenon, <1>2 DEF Surjection
  <1>4. IsFiniteSet(Used) /\ Cardinality(Used) <= Cardinality(Others) /\ Cardinality(Used) \in Nat
    BY Zenon, <1>1, <1>3, FS_Surjection, FS_CardinalityType
  <1>5. /\ IsFiniteSet(Pinned) /\ Cardinality(Pinned) \in Nat
        /\ Pinned = {i \in Buffers : buf[i].dirty /\ i \notin Waiting}
    BY Zenon, PinnedAlt
  <1>6. Cardinality(Pinned) <= MaxPinned /\ BTypes /\ Counted
    BY Zenon DEF BInv
  <1>7. ASSUME NEW j \in Buffers, \E q \in BProc : bcur[q] = j PROVE j \in Used
    <2>1. PICK q \in BProc : bcur[q] = j
      BY Zenon, <1>7
    <2>2. bcur[p] = 0
      BY Zenon, <1>6 DEF Exhausted, Counted
    <2>3. q # p
      BY Zenon, <2>1, <2>2, BufferFacts
    <2>4. QED
      BY Zenon, <2>1, <2>3
  <1>8. ASSUME NEW j \in Buffers PROVE j \in Used \cup Pinned
    <2>1. CASE buf[j].refcnt # 0
      <3>1. Users(j) # {}
        BY Zenon, <1>6, <2>1, FS_EmptySet DEF Counted
      <3>2. QED
        BY Zenon, <1>7, <3>1 DEF Users
    <2>2. CASE buf[j].dirty /\ j \in Waiting
      <3>1. \E q \in BProc : bcur[q] = j
        BY Zenon, <2>2, QueueAlt DEF Pending
      <3>2. QED
        BY Zenon, <1>7, <3>1
    <2>3. CASE buf[j].dirty /\ j \notin Waiting
      BY Zenon, <1>5, <2>3
    <2>4. QED
      BY Zenon, <2>1, <2>2, <2>3 DEF Exhausted
  <1> HIDE DEF Others, Used
  <1>9. /\ IsFiniteSet(Used \cup Pinned)
        /\ Cardinality(Used \cup Pinned) = Cardinality(Used) + Cardinality(Pinned) - Cardinality(Used \cap Pinned)
        /\ IsFiniteSet(Used \cap Pinned) /\ Cardinality(Used \cap Pinned) \in Nat
    <2>1. IsFiniteSet(Used \cap Pinned)
      BY Zenon, <1>5, FS_Subset
    <2>2. QED
      BY Zenon, <1>4, <1>5, <2>1, FS_Union, FS_CardinalityType
  <1>10. Cardinality(Buffers) = NBUF /\ Cardinality(Buffers) <= Cardinality(Used \cup Pinned)
    <2>1. Cardinality(Buffers) = NBUF
      BY BufferFacts, FS_Interval DEF Buffers
    <2>2. Buffers \in SUBSET (Used \cup Pinned)
      BY Zenon, <1>8
    <2>3. QED
      BY Zenon, <1>9, <2>1, <2>2, FS_Subset
  <1>11. Cardinality(Used \cup Pinned) <= Cardinality(Used) + Cardinality(Pinned)
    BY <1>4, <1>5, <1>9
  <1>12. QED
    BY <1>1, <1>4, <1>5, <1>6, <1>9, <1>10, <1>11, BufferFacts

\* No step makes bget panic while there are buffers enough.
LEMMA SufficeStep == ASSUME BInv, [BNext]_bvars PROVE BuffersSuffice'
  <1>1. BuffersSuffice
    BY Zenon DEF BInv
  <1>2. ASSUME bpanic' = bpanic PROVE BuffersSuffice'
    BY Zenon, <1>1, <1>2 DEF BuffersSuffice
  <1>3. ASSUME NEW p \in BProc, Exhausted(p) PROVE BuffersSuffice'
    BY Zenon, <1>3, Supply DEF BuffersSuffice
  <1>4. (\E p \in BProc : Exhausted(p)) \/ bpanic' = bpanic
    <2>1. \A p \in BProc, i \in Buffers, b \in BBlock : Found(p, b, i) \/ Recycled(p, b, i) => bpanic' = bpanic
      BY Zenon DEF Found, Recycled
    <2>2. \A p \in BProc, i \in Buffers : Reads(p, i) \/ Changes(p, i) \/ Pins(p, i) \/ Writes(p, i) => bpanic' = bpanic
      BY Zenon DEF Reads, Changes, Pins, Writes
    <2>3. \A p \in BProc, i \in Buffers : Finishes(p, i) \/ Releases(p, i) \/ Puts(p, i) => bpanic' = bpanic
      BY Zenon DEF Finishes, Releases, Puts
    <2>4. \A i \in Buffers, c \in Copy : Serves(i, c) => bpanic' = bpanic
      BY Zenon DEF Serves
    <2>5. UNCHANGED bvars => bpanic' = bpanic
      BY Zenon DEF bvars
    <2>6. QED
      BY Zenon, Steps, <2>1, <2>2, <2>3, <2>4, <2>5 DEF Effects
  <1>5. QED
    BY Zenon, <1>2, <1>3, <1>4

-----------------------------------------------------------------------------
(* The theorems *)

\* The invariant holds after binit and ideinit.
LEMMA InitInv == BInit => BInv
  <1> SUFFICES ASSUME BInit PROVE BInv
    BY Zenon
  <1>1. BTypes /\ Listed
    <2>1. lru \in [Buffers -> Buffers]
      BY BufferFacts DEF BInit, Buffers
    <2>2. Listed
      <3> SUFFICES ASSUME NEW i \in Buffers PROVE \E m \in Buffers : lru[m] = i
        BY Zenon DEF Listed
      <3>1. NBUF + 1 - i \in Buffers /\ lru[NBUF + 1 - i] = i
        BY BufferFacts DEF BInit, Buffers
      <3>2. QED
        BY Zenon, <3>1
    <2>3. "stale" \in Copy /\ "current" \in Copy /\ 0 \in Int /\ << >> \in Seq(Buffers)
      BY DEF Copy
    <2>4. buf \in [Buffers -> BufType]
      BY Zenon, <2>3 DEF BInit, BufType
    <2>5. QED
      BY Zenon, <2>1, <2>2, <2>3, <2>4 DEF BInit, BTypes
  <1>2. Counted /\ Owners
    <2>1. \A i \in Buffers : Users(i) = {}
      BY Zenon, BufferFacts DEF BInit, Users
    <2>2. Counted
      BY Zenon, <2>1, FS_EmptySet DEF BInit, Counted
    <2>3. Owners
      BY BufferFacts DEF BInit, Owners
    <2>4. QED
      BY Zenon, <2>2, <2>3
  <1>3. Filled /\ Kept
    BY DEF BInit, Filled, Kept
  <1>4. Requests /\ QueueOwned /\ OneBufferPerBlock
    BY DEF BInit, Requests, QueueOwned, OneBufferPerBlock
  <1>5. Cardinality(Pinned) <= MaxPinned
    <2>1. Pinned = {}
      BY Zenon DEF BInit, Pinned
    <2>2. QED
      BY <2>1, FS_EmptySet, BufferFacts
  <1>6. BuffersSuffice
    BY Zenon DEF BInit, BuffersSuffice
  <1>7. QED
    BY Zenon, <1>1, <1>2, <1>3, <1>4, <1>5, <1>6 DEF BInv

\* The cache and the driver keep the inductive invariant.
THEOREM Invariance == BSpec => []BInv
  <1>1. BInv /\ [BNext]_bvars => BInv'
    BY Zenon, TypesStep, CountedStep, OwnersStep, FilledStep, KeptStep, QueueStep, OneStep, PinnedStep, SufficeStep DEF BInv
  <1>2. QED
    BY InitInv, <1>1, PTL DEF BSpec

\* bget never gives a block two buffers (xv6/bio.c), with any number of buffers, blocks and processes.
THEOREM OneBuffer == BSpec => []OneBufferPerBlock
  <1>1. BInv => OneBufferPerBlock
    BY Zenon DEF BInv
  <1>2. QED
    BY Invariance, <1>1, PTL

\* A process that has read a block sees its latest change: recycling never drops a changed buffer
\* (the B_DIRTY test of bget), and the copy on the disk is read only when no buffer has a newer one.
THEOREM LatestRead == BSpec => []ReadsLatest
  <1>1. BInv => ReadsLatest
    <2> SUFFICES ASSUME BInv, NEW p \in BProc, bpc[p] = "held" PROVE buf[bcur[p]].data # "stale"
      BY Zenon DEF ReadsLatest
    <2>1. bcur[p] \in Buffers /\ buf[bcur[p]].valid
      BY DEF BInv, BTypes, Counted, Filled
    <2>2. QED
      BY Zenon, <2>1 DEF BInv, Filled
  <1>2. QED
    BY Invariance, <1>1, PTL

\* Each buffer in the IDE queue is there once and has one owner asleep in iderw, and bget reaches
\* its panic only with fewer buffers than processes and pinned blocks together.
THEOREM Requested == BSpec => []RequestsRight
  <1>1. BInv => RequestsRight
    BY Zenon DEF BInv, RequestsRight
  <1>2. QED
    BY Invariance, <1>1, PTL
==============================================================================
