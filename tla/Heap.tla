-------------------------------- MODULE Heap --------------------------------
(***************************************************************************)
(* The user-level allocator (xv6/umalloc.c): a circular list of free       *)
(* blocks in address order.  Addresses count headers; base, at 0, lies     *)
(* below the heap.                                                         *)
(***************************************************************************)
EXTENDS Integers, FiniteSets

CONSTANTS HEAP,          \* headers the process may grow to
          CORE,          \* morecore's least request (4096)
          Units          \* sizes asked for, in headers, the block's own included

Addr == 0 .. HEAP
base == 0
Null == -1

VARIABLES ptr, size,     \* the headers
          freep,
          brk,           \* end of the heap
          taken,         \* blocks the program holds
          gap            \* headers the program got from sbrk itself

hvars == <<ptr, size, freep, brk, taken, gap>>

\* The allocator's state, as malloc and free pass it on
Arena(pt, sz, fp) == [ptr |-> pt, size |-> sz, freep |-> fp]

HInit ==
    /\ ptr = [a \in Addr |-> 0] /\ size = [a \in Addr |-> 0]
    /\ freep = Null
    /\ brk = 1 /\ taken = {} /\ gap = {}

\* The loop of free: the block before bp in the list
RECURSIVE Before(_, _, _)
Before(h, bp, p) ==
    LET next == h.ptr[p]
    IN  IF bp > p /\ bp < next THEN p
        ELSE IF p >= next /\ (bp > p \/ bp < next) THEN p
        ELSE Before(h, bp, next)

\* Join bp to the block above it.
JoinUpper(h, bp, p) ==
    LET next == h.ptr[p]
    IN  IF bp + h.size[bp] = next
        THEN [h EXCEPT !.size[bp] = @ + h.size[next], !.ptr[bp] = h.ptr[next]]
        ELSE [h EXCEPT !.ptr[bp] = next]

\* Faulty variant: the lower neighbour is linked, not joined.
JoinLower_Never(h, bp, p) == [h EXCEPT !.ptr[p] = bp]

\* Join it to the one below.
JoinLower(h, bp, p) ==
    IF p + h.size[p] = bp THEN [h EXCEPT !.size[p] = @ + h.size[bp], !.ptr[p] = h.ptr[bp]]
    ELSE [h EXCEPT !.ptr[p] = bp]

Freed(h, bp) == LET p == Before(h, bp, h.freep) IN [JoinLower(JoinUpper(h, bp, p), bp, p) EXCEPT !.freep = p]

\* A block found: all of it, or its tail
Carve(h, prevp, p, n) ==
    IF h.size[p] = n THEN [h EXCEPT !.ptr[prevp] = h.ptr[p], !.freep = prevp]
    ELSE [h EXCEPT !.size[p] = @ - n, !.size[p + h.size[p] - n] = n, !.freep = prevp]

\* The loop of malloc; morecore asks sbrk for at least CORE units and frees them.
RECURSIVE Search(_, _, _, _, _)
Search(h, prevp, p, n, end) ==
    IF h.size[p] >= n
    THEN [arena |-> Carve(h, prevp, p, n), block |-> p + h.size[p] - n, brk |-> end]
    ELSE IF p # h.freep THEN Search(h, p, h.ptr[p], n, end)
    ELSE LET nu == IF n < CORE THEN CORE ELSE n
             more == Freed([h EXCEPT !.size[end] = nu], end)
         IN  IF end + nu > HEAP + 1 THEN [arena |-> h, block |-> Null, brk |-> end]
             ELSE Search(more, more.freep, more.ptr[more.freep], n, end + nu)

RECURSIVE Reach(_, _)
Reach(pt, S) == LET T == S \cup {pt[a] : a \in S} IN IF T = S THEN S ELSE Reach(pt, T)

\* A header inside a block is the program's data, which the allocator never reads: kept as 0.
Store(h, held) ==
    LET list == Reach(h.ptr, {base})
    IN  /\ ptr' = [a \in Addr |-> IF a \in list THEN h.ptr[a] ELSE 0]
        /\ size' = [a \in Addr |-> IF a \in list \cup held THEN h.size[a] ELSE 0]
        /\ freep' = h.freep
        /\ taken' = held

malloc(n) ==
    LET h == IF freep = Null THEN Arena([ptr EXCEPT ![base] = base], [size EXCEPT ![base] = 0], base)
             ELSE Arena(ptr, size, freep)
        r == Search(h, h.freep, h.ptr[h.freep], n, brk)
    IN  /\ Store(r.arena, taken \cup ({r.block} \ {Null}))
        /\ brk' = r.brk
        /\ UNCHANGED gap

free(bp) ==
    /\ bp \in taken
    /\ Store(Freed(Arena(ptr, size, freep), bp), taken \ {bp})
    /\ UNCHANGED <<brk, gap>>

\* The program grows by itself: the next morecore is not adjacent to the last.
sbrk ==
    /\ brk <= HEAP
    /\ brk' = brk + 1 /\ gap' = gap \cup {brk}
    /\ UNCHANGED <<ptr, size, freep, taken>>

HNext == sbrk \/ (\E n \in Units : malloc(n)) \/ (\E bp \in taken : free(bp))
HSpec == HInit /\ [][HNext]_hvars

-----------------------------------------------------------------------------
\* The blocks of the list: what can be reached from base
FreeList == IF freep = Null THEN {} ELSE Reach(ptr, {base})
Span(a) == a .. a + size[a] - 1

\* The heap is tiled: every header sbrk gave belongs to one block held, one block of the list or a
\* gap, and none to two; what malloc returned is never handed out again or lost.
HeapTiled ==
    /\ UNION {Span(a) : a \in taken \cup FreeList} \cup gap = 1 .. brk - 1
    /\ \A a, b \in taken \cup FreeList : a # b => Span(a) \cap (Span(b) \cup gap) = {}
    /\ taken \cap FreeList = {}

\* No two free blocks are neighbours: free joins them, from either side, whatever the order.
Coalesced == \A a, b \in FreeList \ {base} : a + size[a] # b

\* The heap after any sequence of malloc, free and sbrk: nothing lost, nothing handed out twice,
\* and free memory in one piece where it is adjacent.
HeapWhole == HeapTiled /\ Coalesced
=============================================================================
