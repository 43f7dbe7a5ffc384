------------------------------- MODULE Memory -------------------------------
(***************************************************************************)
(* Physical pages and address spaces (xv6/kalloc.c, xv6/vm.c, xv6/exec.c,  *)
(* growproc, fork, wait and allocproc of xv6/proc.c): which page is where  *)
(* while processes grow, shrink, fork, exec and end, and memory runs out   *)
(* at any kalloc.                                                          *)
(*                                                                         *)
(* A step has one kalloc, since kmem.lock protects no more; the kfrees of  *)
(* a call are one step.  The kernel's part of a page table needs one page. *)
(* Which of the free pages kalloc returns does not matter: pages are       *)
(* counted, and each place that can refer to one is known.                 *)
(***************************************************************************)
EXTENDS Integers, FiniteSets

CONSTANTS MProc,         \* slots of the process table
          NPAGES,        \* pages between end and PHYSTOP
          PGSIZE, KERNBASE,
          NPTENTRIES,    \* pages that a page table maps
          Word,          \* addresses are unsigned: 2^32
          MaxSegments    \* program headers of a file

ASSUME MemoryAssumption ==
    /\ IsFiniteSet(MProc) /\ MProc # {}
    /\ {NPAGES, PGSIZE, KERNBASE, NPTENTRIES, Word} \subseteq Nat \ {0} /\ MaxSegments \in Nat
    /\ NPAGES >= 5 /\ KERNBASE % (PGSIZE * NPTENTRIES) = 0 /\ Word >= 2 * KERNBASE

VPage == 0 .. (KERNBASE \div PGSIZE) - 1
PDX(v) == v \div NPTENTRIES
PDE == {PDX(v) : v \in VPage}

\* PGROUNDUP, as a page number, and the user pages of a size
RoundUp(n) == (n + PGSIZE - 1) \div PGSIZE
Below(n) == {v \in VPage : v < RoundUp(n)}

VARIABLES nfree,    \* length of kmem.freelist
          space,    \* p->pgdir
          sz,       \* p->sz
          kstack,   \* the processes with a p->kstack
          mpc,      \* where the process is
          job,      \* the locals of its call
          mpanic

mvars == <<nfree, space, sz, kstack, mpc, job, mpanic>>

\* A page directory: whether it and the kernel's page table are there, the user page
\* tables and the user pages that are, and the pages without PTE_U.
NoSpace == [dir |-> FALSE, kpt |-> FALSE, pt |-> {}, pte |-> {}, guard |-> {}]

Count(b) == IF b THEN 1 ELSE 0

PagesOf(s) == Count(s.dir) + Count(s.kpt) + Cardinality(s.pt) + Cardinality(s.pte)

NoJob == [op |-> "none", new |-> NoSpace, a |-> 0, old |-> 0, target |-> 0, mem |-> FALSE, seg |-> 0, child |-> 0]

\* The first program, in one page
inituvm == [NoSpace EXCEPT !.dir = TRUE, !.kpt = TRUE, !.pt = {0}, !.pte = {0}]

\* userinit
MInit == LET first == CHOOSE p \in MProc : TRUE
         IN  /\ space = [p \in MProc |-> IF p = first THEN inituvm ELSE NoSpace]
             /\ kstack = {first}
             /\ sz = [p \in MProc |-> IF p = first THEN PGSIZE ELSE 0]
             /\ mpc = [p \in MProc |-> IF p = first THEN "user" ELSE "unused"]
             /\ nfree = NPAGES - 5
             /\ job = [p \in MProc |-> NoJob]
             /\ mpanic = FALSE

\* kalloc and kfree, of so many pages
kalloc(n) == nfree >= n /\ nfree' = nfree - n
kfree(n) == nfree' = nfree + n

\* deallocuvm frees these
Dead(s, from, to) == {v \in s.pte : v >= RoundUp(to) /\ v < RoundUp(from)}

Without(s, dead) == [s EXCEPT !.pte = @ \ dead, !.guard = @ \ dead]

\* The space that the call of p changes
Current(p) == IF job[p].op = "grow" THEN space[p] ELSE job[p].new

Goto(p, l) == mpc' = [mpc EXCEPT ![p] = l]
SetJob(p, j) == job' = [job EXCEPT ![p] = j]
SetCurrent(p, s, j) == IF j.op = "grow"
                       THEN space' = [space EXCEPT ![p] = s] /\ SetJob(p, j)
                       ELSE SetJob(p, [j EXCEPT !.new = s]) /\ UNCHANGED space

\* Faulty variant: fork keeps the child's stack.
OnFailure_Stack(p) == PagesOf(job[p].new) + Count(job[p].mem)

\* What a failing fork or exec frees with the page it could not map: freevm of the new
\* space, and the stack of the child.
OnFailure(p) == PagesOf(job[p].new) + Count(job[p].mem) + Count(job[p].op = "fork")

\* Faulty variant: allocuvm leaves the pages it has added.
Added_Kept(p) == {}

\* And a failing allocuvm these, with deallocuvm.
Added(p) == Dead(space[p], job[p].target, job[p].old)

\* The call returns -1.
fail(p) ==
    /\ IF job[p].op = "grow"
       THEN /\ space' = [space EXCEPT ![p] = Without(@, Added(p))]
            /\ kfree(Cardinality(Added(p)) + Count(job[p].mem))
       ELSE kfree(OnFailure(p)) /\ UNCHANGED space
    /\ kstack' = IF job[p].op = "fork" THEN kstack \ {job[p].child} ELSE kstack
    /\ mpc' = [q \in MProc |-> IF q = p THEN "user" ELSE IF job[p].op = "fork" /\ q = job[p].child THEN "unused" ELSE mpc[q]]
    /\ SetJob(p, NoJob)
    /\ UNCHANGED <<sz, mpanic>>

-----------------------------------------------------------------------------
\* allocuvm starts at PGROUNDUP(oldsz)
FirstNew(n) == RoundUp(n)

\* growproc with n > 0
grow(p) ==
    /\ mpc[p] = "user"
    /\ \E n \in 1 .. KERNBASE - 1 :
          /\ sz[p] + n < KERNBASE
          /\ SetJob(p, [NoJob EXCEPT !.op = "grow", !.a = FirstNew(sz[p]), !.old = sz[p], !.target = sz[p] + n])
    /\ Goto(p, "page")
    /\ UNCHANGED <<nfree, space, sz, kstack, mpanic>>

\* growproc with n < 0.  A size that wraps is not below the old one, and nothing happens;
\* size 0 is taken for a failure, and sz stays although no page does: the process has no
\* instruction left to execute, and faults.
shrink(p) ==
    /\ mpc[p] = "user"
    /\ \E n \in 1 .. KERNBASE :
          LET newsz == (sz[p] - n + Word) % Word
              dead == Dead(space[p], sz[p], newsz)
          IN  /\ newsz < sz[p]
              /\ kfree(Cardinality(dead))
              /\ space' = [space EXCEPT ![p] = Without(@, dead)]
              /\ sz' = [sz EXCEPT ![p] = IF newsz = 0 THEN @ ELSE newsz]
              /\ Goto(p, IF newsz = 0 THEN "fault" ELSE "user")
    /\ UNCHANGED <<kstack, job, mpanic>>

\* allocproc: a slot, and its kernel stack; the slot of a failing one is free again
fork(p, q) ==
    /\ mpc[p] = "user" /\ mpc[q] = "unused" /\ kalloc(1)
    /\ kstack' = kstack \cup {q}
    /\ SetJob(p, [NoJob EXCEPT !.op = "fork", !.child = q, !.target = sz[p]])
    /\ mpc' = [mpc EXCEPT ![p] = "dir", ![q] = "embryo"]
    /\ UNCHANGED <<space, sz, mpanic>>

\* exec, up to setupkvm
exec(p) ==
    /\ mpc[p] = "user"
    /\ SetJob(p, [NoJob EXCEPT !.op = "exec"])
    /\ Goto(p, "dir")
    /\ UNCHANGED <<nfree, space, sz, kstack, mpanic>>

\* setupkvm: the directory, and the table for the kernel's addresses
setupkvm(p) ==
    /\ mpc[p] \in {"dir", "kpt"}
    /\ IF nfree = 0
       THEN fail(p)
       ELSE /\ kalloc(1)
            /\ IF mpc[p] = "dir"
               THEN SetJob(p, [job[p] EXCEPT !.new.dir = TRUE]) /\ Goto(p, "kpt")
               ELSE SetJob(p, [job[p] EXCEPT !.new.kpt = TRUE])
                    /\ Goto(p, IF job[p].op = "fork" THEN "page" ELSE "segment")
            /\ UNCHANGED <<space, sz, kstack, mpanic>>

\* copyuvm does not find the parent's page, and panics
Missing(p) == job[p].op = "fork" /\ job[p].a \notin space[p].pte

\* allocuvm and copyuvm: the next page
allocpage(p) ==
    /\ mpc[p] = "page" /\ job[p].a < RoundUp(job[p].target)
    /\ IF Missing(p) THEN mpanic' = TRUE /\ UNCHANGED <<nfree, space, sz, kstack, mpc, job>>
       ELSE IF nfree = 0 THEN fail(p)
       ELSE /\ kalloc(1)
            /\ SetJob(p, [job[p] EXCEPT !.mem = TRUE]) /\ Goto(p, "map")
            /\ UNCHANGED <<space, sz, kstack, mpanic>>

\* walkpgdir has to allocate a page table
NeedsTable(s, v) == PDX(v) \notin s.pt

\* mappages of the page
mappages(p) ==
    /\ mpc[p] = "map"
    /\ LET s == Current(p)
           v == job[p].a
       IN  IF NeedsTable(s, v) /\ nfree = 0 THEN fail(p)
           ELSE /\ kalloc(Count(NeedsTable(s, v)))
                /\ mpanic' = (mpanic \/ v \in s.pte)      \* remap
                /\ SetCurrent(p, [s EXCEPT !.pt = @ \cup {PDX(v)}, !.pte = @ \cup {v}], [job[p] EXCEPT !.mem = FALSE, !.a = v + 1])
                /\ Goto(p, "page")
                /\ UNCHANGED <<sz, kstack>>

\* growproc returns 0
grown(p) ==
    /\ mpc[p] = "page" /\ job[p].op = "grow" /\ job[p].a >= RoundUp(job[p].target)
    /\ sz' = [sz EXCEPT ![p] = job[p].target]
    /\ Goto(p, "user") /\ SetJob(p, NoJob)
    /\ UNCHANGED <<nfree, space, kstack, mpanic>>

\* fork returns: the child runs, its pages with the flags of the parent's
forked(p) ==
    /\ mpc[p] = "page" /\ job[p].op = "fork" /\ job[p].a >= RoundUp(job[p].target)
    /\ LET q == job[p].child
       IN  /\ space' = [space EXCEPT ![q] = [job[p].new EXCEPT !.guard = space[p].guard]]
           /\ sz' = [sz EXCEPT ![q] = sz[p]]
           /\ mpc' = [mpc EXCEPT ![p] = "user", ![q] = "user"]
    /\ SetJob(p, NoJob)
    /\ UNCHANGED <<nfree, kstack, mpanic>>

-----------------------------------------------------------------------------
\* exec reads a program header: its end may wrap or be too high, and allocuvm keeps the
\* size when the end is below it.
segment(p) ==
    /\ mpc[p] = "segment" /\ job[p].seg < MaxSegments
    /\ \E vaddr \in 0 .. Word - 1, memsz \in 1 .. Word - 1 :
          LET end == (vaddr + memsz) % Word
              size == IF end < job[p].old THEN job[p].old ELSE end
          IN  IF end < vaddr \/ end >= KERNBASE \/ size = 0
              THEN fail(p)
              ELSE /\ SetJob(p, [job[p] EXCEPT !.a = IF RoundUp(job[p].old) < RoundUp(size) THEN RoundUp(job[p].old) ELSE RoundUp(size),
                                               !.target = size])
                   /\ Goto(p, "page")
                   /\ UNCHANGED <<nfree, space, sz, kstack, mpanic>>

\* loaduvm, which needs the pages of the segment; an address that is not aligned or a short
\* file fails.
loaduvm(p) ==
    /\ mpc[p] = "page" /\ job[p].op = "exec" /\ job[p].a >= RoundUp(job[p].target)
    /\ \/ fail(p)
       \/ \E v \in Below(job[p].target) :
             /\ mpanic' = (mpanic \/ v \notin job[p].new.pte)
             /\ SetJob(p, [job[p] EXCEPT !.old = job[p].target, !.seg = @ + 1])
             /\ Goto(p, "segment")
             /\ UNCHANGED <<nfree, space, sz, kstack>>

\* The last segment is loaded: two pages for the stack, at the next page boundary
stack(p) ==
    /\ mpc[p] = "segment"
    /\ LET base == RoundUp(job[p].old) * PGSIZE
       IN  IF base + 2 * PGSIZE >= KERNBASE
           THEN fail(p)
           ELSE /\ SetJob(p, [job[p] EXCEPT !.op = "stack", !.a = RoundUp(base), !.old = base, !.target = base + 2 * PGSIZE])
                /\ Goto(p, "page")
                /\ UNCHANGED <<nfree, space, sz, kstack, mpanic>>

\* The page below the stack loses PTE_U
clearpteu(s, v) == [s EXCEPT !.guard = {v}]

\* A page that copyout may write, and what it says to n bytes at va
uva2ka(s, v) == v \in s.pte \ s.guard
copyout(s, va, n) == \A v \in VPage : v >= va \div PGSIZE /\ v * PGSIZE < va + n => uva2ka(s, v)

\* clearpteu, n bytes of arguments from the top of the stack down, and the switch to the
\* new image, after which freevm frees the old one; too many arguments fail.
commit(p) ==
    LET new == clearpteu(job[p].new, RoundUp(job[p].old))
    IN  /\ mpc[p] = "page" /\ job[p].op = "stack" /\ job[p].a >= RoundUp(job[p].target)
        /\ \/ \E n \in 1 .. 2 * PGSIZE : ~ copyout(new, job[p].target - n, n) /\ fail(p)
           \/ \E n \in 1 .. 2 * PGSIZE :
                 /\ copyout(new, job[p].target - n, n)
                 /\ space' = [space EXCEPT ![p] = new]
                 /\ sz' = [sz EXCEPT ![p] = job[p].target]
                 /\ kfree(PagesOf(space[p]))
                 /\ Goto(p, "user") /\ SetJob(p, NoJob)
                 /\ UNCHANGED <<kstack, mpanic>>

\* exit, from the kernel or after a fault; the last process, init, stays
exit(p) ==
    /\ mpc[p] \in {"user", "fault"}
    /\ \E q \in MProc \ {p} : mpc[q] = "user"
    /\ Goto(p, "zombie")
    /\ UNCHANGED <<nfree, space, sz, kstack, job, mpanic>>

\* wait by another process frees the stack and the space
wait(p, q) ==
    /\ mpc[p] = "user" /\ mpc[q] = "zombie"
    /\ kfree(PagesOf(space[q]) + 1)
    /\ space' = [space EXCEPT ![q] = NoSpace] /\ kstack' = kstack \ {q} /\ sz' = [sz EXCEPT ![q] = 0]
    /\ Goto(q, "unused")
    /\ UNCHANGED <<job, mpanic>>

MNext == \E p \in MProc : \/ grow(p) \/ shrink(p) \/ exec(p) \/ setupkvm(p) \/ allocpage(p) \/ mappages(p) \/ grown(p)
                          \/ forked(p) \/ segment(p) \/ loaduvm(p) \/ stack(p) \/ commit(p) \/ exit(p)
                          \/ \E q \in MProc : fork(p, q) \/ wait(p, q)

MSpec == MInit /\ [][MNext]_mvars

-----------------------------------------------------------------------------
\* Pages that p has, in its space, in the one it builds, in hand, and as its kernel stack
Held(p) == PagesOf(space[p]) + PagesOf(job[p].new) + Count(job[p].mem) + Count(p \in kstack)

\* And those that all of them have: the k-th of p, for each p and k
Used == Cardinality(UNION {{p} \X (1 .. Held(p)) : p \in MProc})

\* Every page is free or in exactly one place: none is leaked, freed twice or left in two
\* address spaces when a call fails half way.
PagesConserved == nfree + Used = NPAGES

\* A process has exactly the pages of its size, which copyuvm, copyout and every check of a
\* user address against p->sz rely on.
SizeIsMapped == \A p \in MProc : mpc[p] = "user" => space[p].pte = Below(sz[p])

\* No panic: no page is mapped twice, or missing in fork or in exec.
NoMemoryPanic == ~ mpanic

\* Pages are accounted for at every kalloc of every call: none lost, none in two places, and a
\* process at rest has those of its size.
MemoryExact == PagesConserved /\ SizeIsMapped /\ NoMemoryPanic

\* A call that returns leaves the process as it was or with what it asked for: after a failure
\* exec its old image, sbrk and fork its pages and its size.
FailureKeepsImage ==
    [][\A p \in MProc : mpc[p] \in {"dir", "kpt", "page", "map", "segment"} /\ mpc'[p] = "user" =>
           \/ space'[p].pte = Below(sz[p]) /\ sz'[p] = sz[p] /\ space'[p].guard = space[p].guard
           \/ job[p].op \in {"grow", "stack"} /\ sz'[p] = job[p].target]_mvars
=============================================================================
