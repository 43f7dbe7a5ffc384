---------------------------- MODULE MemoryProofs ----------------------------
(***************************************************************************)
(* The free pages and those that processes hold add up to all pages, a     *)
(* process at rest has exactly the pages of its size, and a call that      *)
(* fails leaves its process as it was, for any number of processes and     *)
(* pages and any geometry of the page tables, wherever memory runs out.    *)
(***************************************************************************)
EXTENDS Memory, FiniteSetTheorems, TLAPS

\* The user pages below page number n
Upto(n) == {v \in VPage : v < n}

\* What the page tables of a process hold, and the locals of a call
Space == [dir : BOOLEAN, kpt : BOOLEAN, pt : SUBSET PDE, pte : SUBSET VPage, guard : SUBSET VPage]

Job == [op : {"none", "grow", "fork", "exec", "stack"}, new : Space, a : Nat, old : 0 .. KERNBASE, target : 0 .. KERNBASE,
        mem : BOOLEAN, seg : Nat, child : MProc \cup {0}]

\* The places of a process that is not in one of the calls, and of one that is
Resting == {"unused", "embryo", "user", "fault", "zombie"}
Busy == {"dir", "kpt", "page", "map", "segment"}

\* The type of each variable
MTypeOK ==
    /\ nfree \in Nat /\ space \in [MProc -> Space] /\ sz \in [MProc -> 0 .. KERNBASE] /\ kstack \subseteq MProc
    /\ mpc \in [MProc -> Resting \cup Busy] /\ job \in [MProc -> Job] /\ mpanic \in BOOLEAN

\* A process at rest, at place pc with space s, size z and locals j: without a call it has no
\* locals, before its first instruction no space, and then the pages of its size.
AtRest(pc, s, z, j) ==
    /\ j = NoJob
    /\ pc \in {"unused", "embryo"} => s = NoSpace
    /\ pc = "user" => s.pte = Below(z) /\ s.guard \subseteq s.pte

\* sbrk: the pages up to the next one to map
Growing(pc, s, z, j) ==
    /\ pc \in {"page", "map"} /\ j.old = z /\ RoundUp(z) <= j.a /\ j.new = NoSpace
    /\ s.pte = Upto(j.a) /\ s.guard \subseteq Below(z)

\* fork and exec: the old image is as it was, and the new one has been mapped up to the next page.
Building(pc, s, z, j) ==
    /\ s.pte = Below(z) /\ s.guard \subseteq s.pte
    /\ pc \in {"dir", "kpt"} => j.a = 0 /\ j.old = 0 /\ j.new.pte = {} /\ ~ j.new.kpt
    /\ pc = "dir" => ~ j.new.dir
    /\ pc \in {"page", "map"} => j.new.pte = Upto(j.a)
    /\ j.op = "fork" => j.target = z
    /\ pc = "segment" => j.op = "exec" /\ j.old < KERNBASE /\ j.new.pte = Below(j.old)
    /\ j.op = "stack" => pc \in {"page", "map"} /\ RoundUp(j.target) = RoundUp(j.old) + 2

\* A process in a call
InCall(pc, s, z, j) ==
    /\ j.op # "none"
    /\ j.mem <=> pc = "map"
    /\ pc \in {"page", "map"} => j.a <= RoundUp(j.target)
    /\ pc = "map" => j.a < RoundUp(j.target)
    /\ j.op \in {"exec", "stack"} => j.target < KERNBASE
    /\ IF j.op = "grow" THEN Growing(pc, s, z, j) ELSE Building(pc, s, z, j)

\* What holds of one process: it has a kernel stack unless its slot is free.
ProcOK(pc, s, z, j, k) ==
    /\ k <=> pc # "unused"
    /\ pc \in Resting => AtRest(pc, s, z, j)
    /\ pc \in Busy => InCall(pc, s, z, j)

\* The child of a fork has no other parent, and waits to be built.
Children ==
    \A p \in MProc : job[p].op = "fork" =>
        /\ job[p].child \in MProc /\ mpc[job[p].child] = "embryo"
        /\ \A q \in MProc \ {p} : job[q].op = "fork" => job[q].child # job[p].child

\* The inductive invariant
MInv == /\ MTypeOK /\ Children /\ PagesConserved /\ NoMemoryPanic
        /\ \A p \in MProc : ProcOK(mpc[p], space[p], sz[p], job[p], p \in kstack)

-----------------------------------------------------------------------------
\* Pages and sizes

\* Sums and differences of numbers of pages.
LEMMA Plus == \A m, n \in Nat : m + n \in Nat /\ (m >= n => m - n \in Nat)
  OBVIOUS

\* One page is a number of pages.
LEMMA OnePage == 1 \in Nat
  OBVIOUS

\* Division with remainder, for numbers that need not be page sizes
LEMMA Division == ASSUME NEW m \in Nat \ {0}, NEW x \in Nat
                  PROVE  x \div m \in Nat /\ x % m \in 0 .. m - 1 /\ x = m * (x \div m) + (x % m)
  OBVIOUS

\* and that quotients are unique.
LEMMA Quotient == ASSUME NEW m \in Nat \ {0}, NEW x \in Nat, NEW k \in Nat, NEW r \in 0 .. m - 1, x = m * k + r
                  PROVE  x \div m = k
  OBVIOUS

\* More pages for more bytes
LEMMA QuotientMono == ASSUME NEW m \in Nat \ {0}, NEW x \in Nat, NEW y \in Nat, x <= y
                      PROVE  x \div m <= y \div m
  <1>1. PICK k \in Nat, r \in 0 .. m - 1 : k = x \div m /\ x = m * k + r
    BY Zenon, Division
  <1>2. PICK l \in Nat, u \in 0 .. m - 1 : l = y \div m /\ y = m * l + u
    BY Zenon, Division
  <1>3. ASSUME k > l PROVE FALSE
    <2>1. PICK d \in Nat : k = l + 1 + d
      <3>1. k - l - 1 \in Nat /\ k = l + 1 + (k - l - 1)
        BY <1>3
      <3>2. QED
        BY Zenon, <3>1
    <2>2. m * k = m * l + m + m * d /\ m * d >= 0
      BY <2>1
    <2>3. QED
      BY <1>1, <1>2, <2>2
  <1>4. QED
    BY <1>1, <1>2, <1>3

\* The constants are numbers,
LEMMA Sizes == PGSIZE \in Nat \ {0} /\ KERNBASE \in Nat \ {0} /\ NPTENTRIES \in Nat \ {0} /\ NPAGES \in Nat /\ Word \in Nat
  BY MemoryAssumption

\* and KERNBASE is at a page boundary.
LEMMA Boundary == /\ KERNBASE \div PGSIZE \in Nat \ {0}
                  /\ KERNBASE = PGSIZE * (KERNBASE \div PGSIZE)
  <1>1. PGSIZE * NPTENTRIES \in Nat \ {0}
    BY Sizes
  <1>2. PICK k \in Nat : KERNBASE = (PGSIZE * NPTENTRIES) * k
    <2>1. PICK m \in Nat \ {0} : m = PGSIZE * NPTENTRIES
      BY <1>1
    <2>2. KERNBASE % m = 0
      BY <2>1, MemoryAssumption
    <2>3. KERNBASE \div m \in Nat /\ KERNBASE = m * (KERNBASE \div m) + (KERNBASE % m)
      BY Sizes, Division
    <2>4. KERNBASE = m * (KERNBASE \div m)
      BY <2>2, <2>3
    <2>5. QED
      BY Zenon, <2>1, <2>3, <2>4
  <1>3. PICK x \in Nat : x = NPTENTRIES * k
    BY Sizes
  <1>4. KERNBASE = PGSIZE * x + 0
    BY <1>2, <1>3, Sizes
  <1>5. KERNBASE \div PGSIZE = x
    BY <1>4, Sizes, Quotient, 0 \in 0 .. PGSIZE - 1
  <1>6. x # 0
    BY <1>4, Sizes
  <1>7. QED
    BY <1>4, <1>5, <1>6, Sizes

\* PGROUNDUP: a number of pages,
LEMMA RoundUpType == ASSUME NEW n \in Nat PROVE RoundUp(n) \in Nat
  <1>1. n + PGSIZE - 1 \in Nat
    BY Sizes
  <1>2. QED
    BY Zenon, <1>1, Sizes, Division DEF RoundUp

\* not smaller for more bytes,
LEMMA RoundUpMono == ASSUME NEW m \in Nat, NEW n \in Nat, m <= n PROVE RoundUp(m) <= RoundUp(n)
  <1>1. m + PGSIZE - 1 \in Nat /\ n + PGSIZE - 1 \in Nat /\ m + PGSIZE - 1 <= n + PGSIZE - 1
    BY Sizes
  <1>2. QED
    BY Zenon, <1>1, Sizes, QuotientMono DEF RoundUp

\* and exact for whole pages.
LEMMA RoundUpPages == ASSUME NEW k \in Nat PROVE RoundUp(k * PGSIZE) = k
  <1>1. /\ k * PGSIZE + PGSIZE - 1 = PGSIZE * k + (PGSIZE - 1)
        /\ k * PGSIZE + PGSIZE - 1 \in Nat /\ PGSIZE - 1 \in 0 .. PGSIZE - 1
    BY Sizes
  <1>2. QED
    BY Zenon, <1>1, Sizes, Quotient DEF RoundUp

\* Sizes up to KERNBASE need pages that a page table can map.
LEMMA RoundUpTop == /\ RoundUp(0) = 0 /\ RoundUp(PGSIZE) = 1
                    /\ \A n \in 0 .. KERNBASE : RoundUp(n) \in Nat /\ RoundUp(n) <= KERNBASE \div PGSIZE
                    /\ \A n \in 0 .. KERNBASE, v \in Nat : v < RoundUp(n) => v \in VPage
  <1>1. RoundUp(0) = 0 /\ RoundUp(PGSIZE) = 1
    <2>1. 0 = 0 * PGSIZE /\ PGSIZE = 1 * PGSIZE
      BY Sizes
    <2>2. QED
      BY <2>1, RoundUpPages
  <1>2. RoundUp(KERNBASE) = KERNBASE \div PGSIZE
    <2>1. PICK k \in Nat : k = KERNBASE \div PGSIZE /\ KERNBASE = k * PGSIZE
      BY Boundary, Sizes
    <2>2. QED
      BY <2>1, RoundUpPages
  <1>3. \A n \in 0 .. KERNBASE : RoundUp(n) \in Nat /\ RoundUp(n) <= KERNBASE \div PGSIZE
    BY <1>2, RoundUpType, RoundUpMono, Sizes
  <1>4. \A n \in 0 .. KERNBASE, v \in Nat : v < RoundUp(n) => v \in VPage
    BY <1>3, Boundary DEF VPage
  <1>5. QED
    BY <1>1, <1>3, <1>4

\* Growing the set of pages below a number
LEMMA UptoFacts == /\ Upto(0) = {}
                   /\ \A n \in Nat : Upto(n) \subseteq VPage /\ n \notin Upto(n)
                   /\ \A n \in VPage : n \in Nat /\ Upto(n + 1) = Upto(n) \cup {n}
                   /\ \A n : Below(n) = Upto(RoundUp(n))
  BY Boundary DEF Upto, VPage, Below

-----------------------------------------------------------------------------
\* Counting pages

\* The pages and the page tables of a space can be counted.
LEMMA FinitePages == IsFiniteSet(VPage) /\ IsFiniteSet(PDE)
  <1>1. IsFiniteSet(VPage)
    BY Boundary, FS_Interval DEF VPage
  <1>2. IsFiniteSet(PDE)
    <2>1. [v \in VPage |-> PDX(v)] \in Surjection(VPage, PDE)
      BY Zenon DEF Surjection, PDE
    <2>2. QED
      BY Zenon, <1>1, <2>1, FS_Surjection
  <1>3. QED
    BY <1>1, <1>2

\* The number of pages of a space,
LEMMA PagesType == ASSUME NEW s \in Space PROVE PagesOf(s) \in Nat /\ IsFiniteSet(s.pt) /\ IsFiniteSet(s.pte)
                                                 /\ Cardinality(s.pt) \in Nat /\ Cardinality(s.pte) \in Nat
  <1>1. s.pt \subseteq PDE /\ s.pte \subseteq VPage
    BY DEF Space
  <1>2. IsFiniteSet(s.pt) /\ IsFiniteSet(s.pte)
    BY Zenon, <1>1, FinitePages, FS_Subset
  <1>3. Cardinality(s.pt) \in Nat /\ Cardinality(s.pte) \in Nat
    BY Zenon, <1>2, FS_CardinalityType
  <1>4. QED
    BY <1>2, <1>3 DEF PagesOf, Count

\* after deallocuvm,
LEMMA PagesWithout == ASSUME NEW s \in Space, NEW dead \in SUBSET s.pte
                      PROVE  /\ Without(s, dead) \in Space /\ Cardinality(dead) \in Nat
                             /\ Without(s, dead).pte = s.pte \ dead /\ Without(s, dead).guard = s.guard \ dead
                             /\ PagesOf(Without(s, dead)) + Cardinality(dead) = PagesOf(s)
  <1>1. /\ Without(s, dead) \in Space
        /\ Without(s, dead).pte = s.pte \ dead /\ Without(s, dead).guard = s.guard \ dead
        /\ Without(s, dead).dir = s.dir /\ Without(s, dead).kpt = s.kpt /\ Without(s, dead).pt = s.pt
    BY Zenon DEF Without, Space
  <1>2. IsFiniteSet(s.pte) /\ IsFiniteSet(dead)
    BY Zenon, PagesType, FS_Subset
  <1>3. Cardinality(s.pte \ dead) = Cardinality(s.pte) - Cardinality(s.pte \cap dead)
    BY Zenon, <1>2, FS_Difference
  <1>4. s.pte \cap dead = dead
    OBVIOUS
  <1>5. Cardinality(dead) \in Nat
    BY Zenon, <1>2, FS_CardinalityType
  <1>6. /\ Cardinality(s.pt) \in Nat /\ Cardinality(s.pte) \in Nat
        /\ Cardinality(s.pte \ dead) = Cardinality(s.pte) - Cardinality(dead)
    BY <1>3, <1>4, PagesType
  <1>7. /\ PagesOf(s) = Count(s.dir) + Count(s.kpt) + Cardinality(s.pt) + Cardinality(s.pte)
        /\ PagesOf(Without(s, dead)) = Count(s.dir) + Count(s.kpt) + Cardinality(s.pt) + Cardinality(s.pte \ dead)
    BY Zenon, <1>1 DEF PagesOf
  <1>8. Count(s.dir) \in Nat /\ Count(s.kpt) \in Nat
    BY DEF Count
  <1>9. QED
    BY <1>1, <1>5, <1>6, <1>7, <1>8

\* and after mappages of a page that is not there.
Mapped(s, v) == [s EXCEPT !.pt = @ \cup {PDX(v)}, !.pte = @ \cup {v}]

\* mappages adds the page, and the page table when the directory has none for it.
LEMMA PagesMapped == ASSUME NEW s \in Space, NEW v \in VPage, v \notin s.pte
                     PROVE  /\ Mapped(s, v) \in Space /\ Mapped(s, v).pte = s.pte \cup {v} /\ Mapped(s, v).guard = s.guard
                            /\ Mapped(s, v).dir = s.dir /\ Mapped(s, v).kpt = s.kpt
                            /\ PagesOf(Mapped(s, v)) = PagesOf(s) + 1 + Count(NeedsTable(s, v))
  <1>1. PDX(v) \in PDE
    BY DEF PDE
  <1>2. /\ Mapped(s, v) \in Space /\ Mapped(s, v).pte = s.pte \cup {v} /\ Mapped(s, v).guard = s.guard
        /\ Mapped(s, v).dir = s.dir /\ Mapped(s, v).kpt = s.kpt /\ Mapped(s, v).pt = s.pt \cup {PDX(v)}
    BY Zenon, <1>1 DEF Mapped, Space
  <1>3. Cardinality(s.pte \cup {v}) = Cardinality(s.pte) + 1
    BY Zenon, PagesType, FS_AddElement
  <1>4. Cardinality(s.pt \cup {PDX(v)}) = Cardinality(s.pt) + Count(NeedsTable(s, v))
    <2>1. CASE NeedsTable(s, v)
      <3>1. Cardinality(s.pt \cup {PDX(v)}) = Cardinality(s.pt) + 1
        BY Zenon, <2>1, PagesType, FS_AddElement DEF NeedsTable
      <3>2. QED
        BY <2>1, <3>1 DEF Count
    <2>2. CASE ~ NeedsTable(s, v)
      <3>1. s.pt \cup {PDX(v)} = s.pt
        BY <2>2 DEF NeedsTable
      <3>2. QED
        <4>1. Cardinality(s.pt) \in Nat
          BY PagesType
        <4>2. QED
          BY <2>2, <3>1, <4>1 DEF Count
    <2>3. QED
      BY <2>1, <2>2
  <1>5. QED
    BY <1>2, <1>3, <1>4, PagesType DEF PagesOf, Count

\* An empty space has no pages, and a process outside every call no locals.
LEMMA NoPages == /\ NoSpace \in Space /\ PagesOf(NoSpace) = 0 /\ NoSpace.pte = {} /\ NoSpace.guard = {}
                 /\ ~ NoSpace.dir /\ ~ NoSpace.kpt
                 /\ NoJob \in Job /\ NoJob.new = NoSpace /\ ~ NoJob.mem /\ NoJob.op = "none" /\ NoJob.a = 0 /\ NoJob.old = 0
  <1>1. Cardinality({}) = 0
    BY Zenon, FS_EmptySet
  <1>2. NoSpace \in Space
    BY DEF NoSpace, Space
  <1>3. QED
    BY <1>1, <1>2, Sizes DEF NoSpace, PagesOf, Count, NoJob, Job

\* The sum of the pages that the processes have, h[p] for each p
Sum(h) == Cardinality(UNION {{p} \X (1 .. h[p]) : p \in MProc})

\* What all processes have changes by what one of them gains or gives back.
LEMMA SumUpdate == ASSUME NEW h \in [MProc -> Nat], NEW g \in [MProc -> Nat], NEW p \in MProc,
                          \A q \in MProc \ {p} : g[q] = h[q]
                   PROVE  Sum(h) \in Nat /\ Sum(g) \in Nat /\ Sum(g) + h[p] = Sum(h) + g[p]
  <1> DEFINE Own(f, q) == {q} \X (1 .. f[q])
             Others(f) == UNION {Own(f, q) : q \in MProc \ {p}}
  <1>1. ASSUME NEW f \in [MProc -> Nat], NEW q \in MProc
        PROVE  IsFiniteSet(Own(f, q)) /\ Cardinality(Own(f, q)) = f[q]
    <2>1. IsFiniteSet(1 .. f[q]) /\ Cardinality(1 .. f[q]) = f[q]
      BY FS_Interval
    <2>2. IsFiniteSet({q}) /\ Cardinality({q}) = 1
      BY Zenon, FS_Singleton
    <2>3. IsFiniteSet(Own(f, q)) /\ Cardinality(Own(f, q)) = Cardinality({q}) * Cardinality(1 .. f[q])
      BY Zenon, <2>1, <2>2, FS_Product
    <2>4. QED
      BY <2>1, <2>2, <2>3
  <1>2. ASSUME NEW f \in [MProc -> Nat]
        PROVE  Sum(f) = Cardinality(Others(f)) + f[p] /\ Cardinality(Others(f)) \in Nat
    <2>1. IsFiniteSet({Own(f, q) : q \in MProc \ {p}})
      <3>1. IsFiniteSet(MProc \ {p})
        BY Zenon, MemoryAssumption, FS_Difference
      <3>2. [q \in MProc \ {p} |-> Own(f, q)] \in Surjection(MProc \ {p}, {Own(f, q) : q \in MProc \ {p}})
        BY Zenon DEF Surjection
      <3>3. QED
        BY Zenon, <3>1, <3>2, FS_Surjection
    <2>2. \A S \in {Own(f, q) : q \in MProc \ {p}} : IsFiniteSet(S)
      BY <1>1
    <2>3. IsFiniteSet(Others(f))
      BY Zenon, <2>1, <2>2, FS_UNION
    <2>4. UNION {{q} \X (1 .. f[q]) : q \in MProc} = Others(f) \cup Own(f, p)
      BY Zenon
    <2>5. Others(f) \cap Own(f, p) = {}
      <3>1. ASSUME NEW x \in Others(f), x \in Own(f, p) PROVE FALSE
        <4>1. PICK q \in MProc \ {p} : x \in Own(f, q)
          BY Zenon, <3>1
        <4>2. x[1] = q /\ x[1] = p
          BY Zenon, <3>1, <4>1
        <4>3. QED
          BY Zenon, <4>1, <4>2
      <3>2. QED
        BY Zenon, <3>1
    <2>6. Cardinality(Others(f) \cup Own(f, p)) = Cardinality(Others(f)) + Cardinality(Own(f, p)) - Cardinality({})
      <3>1. IsFiniteSet(Own(f, p))
        BY Zenon, <1>1
      <3>2. Cardinality(Others(f) \cup Own(f, p)) = Cardinality(Others(f)) + Cardinality(Own(f, p)) - Cardinality(Others(f) \cap Own(f, p))
        BY Zenon, <2>3, <3>1, FS_Union
      <3>3. QED
        BY Zenon, <2>5, <3>2
    <2>7. Cardinality({}) = 0 /\ Cardinality(Others(f)) \in Nat
      BY Zenon, <2>3, FS_EmptySet, FS_CardinalityType
    <2>8. QED
      <3>1. Cardinality(Own(f, p)) = f[p] /\ f[p] \in Nat
        BY Zenon, <1>1
      <3>2. Sum(f) = Cardinality(Others(f) \cup Own(f, p))
        BY Zenon, <2>4 DEF Sum
      <3> HIDE DEF Others, Own
      <3>3. QED
        BY <2>6, <2>7, <3>1, <3>2
  <1>3. Others(g) = Others(h)
    BY Zenon
  <1> HIDE DEF Others, Own
  <1>4. /\ Sum(h) = Cardinality(Others(h)) + h[p] /\ Sum(g) = Cardinality(Others(h)) + g[p]
        /\ Cardinality(Others(h)) \in Nat /\ h[p] \in Nat /\ g[p] \in Nat
    BY Zenon, <1>2, <1>3
  <1>5. QED
    BY <1>4

\* What a process has, and that the pages of the others do not change: what a step of one process,
\* or of two, does to the sum.
HeldBy == [p \in MProc |-> Held(p)]

HeldOK == HeldBy \in [MProc -> Nat] /\ Used = Sum(HeldBy) /\ \A p \in MProc : HeldBy[p] = Held(p)

\* What a process has is a number of pages.
LEMMA HeldType == MTypeOK => HeldOK
  <1> SUFFICES ASSUME MTypeOK PROVE HeldOK
    OBVIOUS
  <1>1. ASSUME NEW p \in MProc PROVE Held(p) \in Nat
    <2>1. space[p] \in Space /\ job[p].new \in Space
      BY DEF MTypeOK, Job
    <2>2. PagesOf(space[p]) \in Nat /\ PagesOf(job[p].new) \in Nat
      BY Zenon, <2>1, PagesType
    <2>3. QED
      BY <2>2 DEF Held, Count
  <1>2. \A p \in MProc : HeldBy[p] = Held(p)
    BY Zenon DEF HeldBy
  <1>3. HeldBy \in [MProc -> Nat]
    BY Zenon, <1>1 DEF HeldBy
  <1>4. Used = Sum(HeldBy)
    <2>1. {{p} \X (1 .. Held(p)) : p \in MProc} = {{p} \X (1 .. HeldBy[p]) : p \in MProc}
      BY Zenon, <1>2
    <2>2. QED
      BY Zenon, <2>1 DEF Used, Sum
  <1>5. QED
    BY <1>2, <1>3, <1>4 DEF HeldOK

\* The place of p in the variables, but for nfree
Same(p) == /\ space'[p] = space[p] /\ sz'[p] = sz[p] /\ job'[p] = job[p] /\ mpc'[p] = mpc[p]
           /\ p \in kstack' <=> p \in kstack

\* A process that a step leaves alone keeps its pages.
LEMMA SameHeld == ASSUME NEW p, Same(p) PROVE Held(p)' = Held(p)
  BY DEF Same, Held, PagesOf, Count

\* Pages are conserved by a step in which one process takes them from the free list or returns them.
LEMMA Conserve1 == ASSUME MTypeOK, MTypeOK', PagesConserved, NEW p \in MProc, \A q \in MProc \ {p} : Same(q),
                          nfree' + Held(p)' = nfree + Held(p)
                   PROVE  PagesConserved'
  <1>1. HeldBy \in [MProc -> Nat] /\ Used = Sum(HeldBy) /\ \A q \in MProc : HeldBy[q] = Held(q)
    BY HeldType DEF HeldOK
  <1>2. HeldBy' \in [MProc -> Nat] /\ Used' = Sum(HeldBy') /\ \A q \in MProc : HeldBy'[q] = Held(q)'
    <2>1. HeldOK'
      BY HeldType, PTL
    <2>2. QED
      BY <2>1 DEF HeldOK
  <1>3. \A q \in MProc \ {p} : HeldBy'[q] = HeldBy[q]
    BY Zenon, <1>1, <1>2, SameHeld
  <1>4. Sum(HeldBy) \in Nat /\ Sum(HeldBy') \in Nat /\ Sum(HeldBy') + HeldBy[p] = Sum(HeldBy) + HeldBy'[p]
    BY Zenon, <1>1, <1>2, <1>3, SumUpdate
  <1>5. HeldBy[p] = Held(p) /\ HeldBy'[p] = Held(p)' /\ HeldBy[p] \in Nat /\ HeldBy'[p] \in Nat
    BY Zenon, <1>1, <1>2
  <1>6. nfree \in Nat /\ nfree' \in Nat /\ NPAGES \in Nat
    BY Sizes DEF MTypeOK
  <1>7. QED
    BY <1>1, <1>2, <1>4, <1>5, <1>6 DEF PagesConserved

\* The same for a step of two processes, a parent and its child.
LEMMA Conserve2 == ASSUME MTypeOK, MTypeOK', PagesConserved, NEW p \in MProc, NEW q \in MProc, p # q,
                          \A r \in MProc \ {p, q} : Same(r), nfree' + Held(p)' + Held(q)' = nfree + Held(p) + Held(q)
                   PROVE  PagesConserved'
  <1>1. HeldBy \in [MProc -> Nat] /\ Used = Sum(HeldBy) /\ \A r \in MProc : HeldBy[r] = Held(r)
    BY HeldType DEF HeldOK
  <1>2. HeldBy' \in [MProc -> Nat] /\ Used' = Sum(HeldBy') /\ \A r \in MProc : HeldBy'[r] = Held(r)'
    <2>1. HeldOK'
      BY HeldType, PTL
    <2>2. QED
      BY <2>1 DEF HeldOK
  <1> DEFINE mid == [HeldBy EXCEPT ![p] = HeldBy'[p]]
  <1>3. mid \in [MProc -> Nat] /\ mid[p] = HeldBy'[p] /\ mid[q] = HeldBy[q] /\ \A r \in MProc \ {p} : mid[r] = HeldBy[r]
    BY Zenon, <1>1, <1>2
  <1>4. \A r \in MProc \ {q} : HeldBy'[r] = mid[r]
    BY Zenon, <1>1, <1>2, <1>3, SameHeld
  <1> HIDE DEF mid
  <1>5. Sum(HeldBy) \in Nat /\ Sum(mid) \in Nat /\ Sum(mid) + HeldBy[p] = Sum(HeldBy) + mid[p]
    BY Zenon, <1>1, <1>3, SumUpdate
  <1>6. Sum(HeldBy') \in Nat /\ Sum(HeldBy') + mid[q] = Sum(mid) + HeldBy'[q]
    BY Zenon, <1>2, <1>3, <1>4, SumUpdate
  <1>7. /\ HeldBy[p] = Held(p) /\ HeldBy'[p] = Held(p)' /\ HeldBy[p] \in Nat /\ HeldBy'[p] \in Nat
        /\ HeldBy[q] = Held(q) /\ HeldBy'[q] = Held(q)' /\ HeldBy[q] \in Nat /\ HeldBy'[q] \in Nat
    BY Zenon, <1>1, <1>2
  <1>8. nfree \in Nat /\ nfree' \in Nat /\ NPAGES \in Nat
    BY Sizes DEF MTypeOK
  <1>9. QED
    BY <1>1, <1>2, <1>3, <1>5, <1>6, <1>7, <1>8 DEF PagesConserved

-----------------------------------------------------------------------------
\* The forks after a step are forks from before it.
LEMMA ChildrenKept ==
    ASSUME Children,
           \A r \in MProc : job'[r].op = "fork" => /\ job[r].op = "fork" /\ job'[r].child = job[r].child
                                                  /\ mpc'[job[r].child] = "embryo"
    PROVE  Children'
  <1>1. ASSUME NEW r \in MProc, job'[r].op = "fork"
        PROVE  job[r].op = "fork" /\ job'[r].child = job[r].child /\ mpc'[job[r].child] = "embryo"
    BY Zenon, <1>1
  <1>2. ASSUME NEW r \in MProc, job'[r].op = "fork", NEW q \in MProc \ {r}, job'[q].op = "fork"
        PROVE  job'[q].child # job'[r].child
    <2>1. job[q].op = "fork" /\ job[r].op = "fork" /\ job'[q].child = job[q].child /\ job'[r].child = job[r].child
      BY Zenon, <1>1, <1>2
    <2>2. job[q].child # job[r].child
      BY Zenon, <2>1 DEF Children
    <2>3. QED
      BY Zenon, <2>1, <2>2
  <1>3. ASSUME NEW r \in MProc, job'[r].op = "fork" PROVE job'[r].child \in MProc /\ mpc'[job'[r].child] = "embryo"
    BY Zenon, <1>1, <1>3 DEF Children
  <1>4. QED
    BY Zenon, <1>2, <1>3 DEF Children

\* A step of p alone: its new space s, size z, locals j and place l, and whether it has a stack.
\* Nothing else changes but the number of free pages, by what p gives or takes.
Account(s, j, k) == PagesOf(s) + PagesOf(j.new) + Count(j.mem) + Count(k)

Updated(p, s, z, j, l, k) ==
    /\ space' = [space EXCEPT ![p] = s] /\ sz' = [sz EXCEPT ![p] = z] /\ job' = [job EXCEPT ![p] = j]
    /\ mpc' = [mpc EXCEPT ![p] = l]
    /\ kstack' = IF k THEN kstack \cup {p} ELSE kstack \ {p}

Fits(p, s, z, j, l, k) ==
    /\ s \in Space /\ z \in 0 .. KERNBASE /\ j \in Job /\ l \in Resting \cup Busy /\ k \in BOOLEAN
    /\ ProcOK(l, s, z, j, k)
    /\ j.op = "fork" => job[p].op = "fork" /\ j.child = job[p].child
    /\ mpc[p] = "embryo" => l = "embryo"

\* A step of one process preserves the invariant when it preserves what concerns that process.
LEMMA OneStep ==
    ASSUME MInv, NEW p \in MProc, NEW s, NEW z, NEW j, NEW l, NEW k,
           Updated(p, s, z, j, l, k), Fits(p, s, z, j, l, k), ~ mpanic', mpanic' \in BOOLEAN,
           nfree' \in Nat, nfree' + Account(s, j, k) = nfree + Account(space[p], job[p], p \in kstack)
    PROVE  MInv'
  <1>1. MTypeOK
    BY DEF MInv
  <1>2. /\ space'[p] = s /\ sz'[p] = z /\ job'[p] = j /\ mpc'[p] = l /\ (p \in kstack' <=> k)
        /\ \A q \in MProc \ {p} : Same(q)
    BY Zenon, <1>1 DEF MTypeOK, Updated, Same, Fits
  <1>3. MTypeOK'
    BY Zenon, <1>1 DEF MTypeOK, Updated, Fits
  <1>4. Held(p)' = Account(s, j, k) /\ Held(p) = Account(space[p], job[p], p \in kstack)
    <2>1. Count(p \in kstack') = Count(k)
      BY Zenon, <1>2 DEF Count
    <2>2. QED
      BY Zenon, <1>2, <2>1 DEF Held, Account
  <1>5. PagesConserved'
    BY <1>1, <1>2, <1>3, <1>4, Conserve1 DEF MInv
  <1>6. Children'
    <2>1. ASSUME NEW r \in MProc, job'[r].op = "fork" PROVE job[r].op = "fork" /\ job'[r].child = job[r].child
      BY Zenon, <1>2, <2>1 DEF Same, Fits
    <2>2. ASSUME NEW r \in MProc, mpc[r] = "embryo" PROVE mpc'[r] = "embryo"
      BY Zenon, <1>2, <2>2 DEF Same, Fits
    <2>3. Children
      BY Zenon DEF MInv
    <2>4. ASSUME NEW r \in MProc, job'[r].op = "fork" PROVE mpc'[job[r].child] = "embryo"
      BY Zenon, <2>1, <2>2, <2>3, <2>4 DEF Children
    <2>5. QED
      BY Zenon, <2>1, <2>3, <2>4, ChildrenKept
  <1>7. ASSUME NEW q \in MProc PROVE ProcOK(mpc[q], space[q], sz[q], job[q], q \in kstack)'
    <2>1. CASE q = p
      <3>1. ProcOK(mpc'[p], space'[p], sz'[p], job'[p], k)
        BY Zenon, <1>2 DEF Fits
      <3>2. QED
        BY Zenon, <2>1, <3>1, <1>2 DEF ProcOK
    <2>2. CASE q # p
      <3>1. Same(q) /\ ProcOK(mpc[q], space[q], sz[q], job[q], q \in kstack)
        BY Zenon, <2>2, <1>2 DEF MInv
      <3>2. QED
        BY Zenon, <3>1 DEF Same, ProcOK
    <2>3. QED
      BY <2>1, <2>2
  <1>8. QED
    BY <1>3, <1>5, <1>6, <1>7 DEF MInv, NoMemoryPanic

\* A step of two processes
LEMMA TwoStep ==
    ASSUME MInv, MTypeOK', NEW p \in MProc, NEW q \in MProc, p # q, \A r \in MProc \ {p, q} : Same(r),
           ProcOK(mpc[p], space[p], sz[p], job[p], p \in kstack)', ProcOK(mpc[q], space[q], sz[q], job[q], q \in kstack)',
           Children', ~ mpanic', nfree' + Held(p)' + Held(q)' = nfree + Held(p) + Held(q)
    PROVE  MInv'
  <1>1. PagesConserved'
    BY Conserve2 DEF MInv
  <1>2. ASSUME NEW r \in MProc PROVE ProcOK(mpc[r], space[r], sz[r], job[r], r \in kstack)'
    <2>1. CASE r \in {p, q}
      BY Zenon, <2>1
    <2>2. CASE r \notin {p, q}
      <3>1. Same(r) /\ ProcOK(mpc[r], space[r], sz[r], job[r], r \in kstack)
        BY Zenon, <2>2 DEF MInv
      <3>2. QED
        BY Zenon, <3>1 DEF Same, ProcOK
    <2>3. QED
      BY <2>1, <2>2
  <1>3. QED
    BY <1>1, <1>2 DEF MInv, NoMemoryPanic

-----------------------------------------------------------------------------
\* The actions

\* The types of what p has
Typed(p) == /\ space[p] \in Space /\ sz[p] \in 0 .. KERNBASE /\ sz[p] \in Nat /\ job[p] \in Job /\ job[p].new \in Space
            /\ nfree \in Nat /\ mpanic = FALSE /\ kstack \subseteq MProc /\ mpc[p] \in Resting \cup Busy
            /\ PagesOf(space[p]) \in Nat /\ PagesOf(job[p].new) \in Nat

\* What the invariant says of p
LEMMA Facts == ASSUME MInv, NEW p \in MProc PROVE Typed(p) /\ ProcOK(mpc[p], space[p], sz[p], job[p], p \in kstack)
  <1>1. /\ space[p] \in Space /\ sz[p] \in 0 .. KERNBASE /\ job[p] \in Job
        /\ nfree \in Nat /\ mpanic = FALSE /\ kstack \subseteq MProc /\ mpc[p] \in Resting \cup Busy
        /\ ProcOK(mpc[p], space[p], sz[p], job[p], p \in kstack)
    BY Zenon DEF MInv, MTypeOK, NoMemoryPanic
  <1>2. sz[p] \in Nat /\ job[p].new \in Space
    BY <1>1, Sizes DEF Job
  <1>3. PagesOf(space[p]) \in Nat /\ PagesOf(job[p].new) \in Nat
    BY Zenon, <1>1, <1>2, PagesType
  <1>4. QED
    BY Zenon, <1>1, <1>2, <1>3 DEF Typed

\* Variables that do not change, as updates
LEMMA NoChange == ASSUME MInv, NEW p \in MProc
                  PROVE  /\ space = [space EXCEPT ![p] = space[p]] /\ sz = [sz EXCEPT ![p] = sz[p]]
                         /\ job = [job EXCEPT ![p] = job[p]] /\ mpc = [mpc EXCEPT ![p] = mpc[p]]
                         /\ p \in kstack => kstack = kstack \cup {p}
  BY Zenon DEF MInv, MTypeOK

\* exit keeps everything for wait.
LEMMA ExitStep == ASSUME MInv, NEW p \in MProc, exit(p) PROVE MInv'
  <1>0. Typed(p) /\ ProcOK(mpc[p], space[p], sz[p], job[p], p \in kstack)
    BY Zenon, Facts
  <1>1. mpc[p] \in {"user", "fault"} /\ p \in kstack /\ job[p] = NoJob
    BY Zenon, <1>0 DEF exit, ProcOK, Resting, AtRest, Typed
  <1>2. Updated(p, space[p], sz[p], job[p], "zombie", TRUE)
    BY Zenon, <1>1, NoChange DEF exit, Updated, Goto
  <1>3. Fits(p, space[p], sz[p], job[p], "zombie", TRUE)
    BY Zenon, <1>1, <1>0, NoPages DEF Fits, ProcOK, AtRest, Resting, Busy, Typed
  <1>4. ~ mpanic' /\ mpanic' \in BOOLEAN /\ nfree' = nfree /\ nfree \in Nat
    BY Zenon, <1>0 DEF exit, Typed
  <1>5. nfree' + Account(space[p], job[p], TRUE) = nfree + Account(space[p], job[p], p \in kstack)
    BY Zenon, <1>1, <1>4 DEF Account, Count
  <1>6. QED
    BY Zenon, <1>2, <1>3, <1>4, <1>5, OneStep

\* growproc with n > 0 begins.
LEMMA GrowStep == ASSUME MInv, NEW p \in MProc, grow(p) PROVE MInv'
  <1>0. Typed(p) /\ ProcOK(mpc[p], space[p], sz[p], job[p], p \in kstack)
    BY Zenon, Facts
  <1>1. mpc[p] = "user" /\ p \in kstack /\ job[p] = NoJob /\ space[p].pte = Below(sz[p]) /\ space[p].guard \subseteq space[p].pte
    BY Zenon, <1>0 DEF grow, ProcOK, Resting, AtRest, Typed
  <1>2. PICK n \in 1 .. KERNBASE - 1 :
             /\ sz[p] + n < KERNBASE
             /\ SetJob(p, [NoJob EXCEPT !.op = "grow", !.a = FirstNew(sz[p]), !.old = sz[p], !.target = sz[p] + n])
    BY Zenon DEF grow
  <1> DEFINE j == [NoJob EXCEPT !.op = "grow", !.a = FirstNew(sz[p]), !.old = sz[p], !.target = sz[p] + n]
  <1>3. RoundUp(sz[p]) \in Nat /\ RoundUp(sz[p] + n) \in Nat /\ RoundUp(sz[p]) <= RoundUp(sz[p] + n)
    <2>1. sz[p] \in Nat /\ sz[p] + n \in Nat /\ sz[p] <= sz[p] + n
      BY <1>0, Sizes DEF Typed
    <2>2. QED
      BY Zenon, <2>1, RoundUpType, RoundUpMono
  <1>4. /\ j \in Job /\ j.op = "grow" /\ j.a = RoundUp(sz[p]) /\ j.old = sz[p] /\ j.target = sz[p] + n
        /\ j.new = NoSpace /\ ~ j.mem
    <2>1. sz[p] \in 0 .. KERNBASE /\ sz[p] + n \in 0 .. KERNBASE /\ NoJob \in Job /\ NoJob.new = NoSpace /\ ~ NoJob.mem
      BY <1>2, <1>0, Sizes, NoPages DEF Typed
    <2>2. QED
      BY Zenon, <2>1, <1>3 DEF Job, FirstNew
  <1>5. Updated(p, space[p], sz[p], j, "page", TRUE)
    BY Zenon, <1>1, <1>2, NoChange DEF grow, Updated, Goto, SetJob
  <1> HIDE DEF j
  <1>6. ProcOK("page", space[p], sz[p], j, TRUE)
    BY <1>1, <1>2, <1>3, <1>4, UptoFacts DEF ProcOK, Resting, Busy, InCall, Growing
  <1>7. Fits(p, space[p], sz[p], j, "page", TRUE)
    BY Zenon, <1>1, <1>4, <1>6, <1>0 DEF Fits, Resting, Busy, Typed
  <1>8. ~ mpanic' /\ mpanic' \in BOOLEAN /\ nfree' = nfree /\ nfree \in Nat
    BY Zenon, <1>0 DEF grow, Typed
  <1>9. nfree' + Account(space[p], j, TRUE) = nfree + Account(space[p], job[p], p \in kstack)
    BY Zenon, <1>1, <1>4, <1>8, NoPages DEF Account, Count
  <1>10. QED
    BY Zenon, <1>5, <1>7, <1>8, <1>9, OneStep

\* growproc with n < 0
LEMMA ShrinkStep == ASSUME MInv, NEW p \in MProc, shrink(p) PROVE MInv'
  <1>0. Typed(p) /\ ProcOK(mpc[p], space[p], sz[p], job[p], p \in kstack)
    BY Zenon, Facts
  <1>1. mpc[p] = "user" /\ p \in kstack /\ job[p] = NoJob /\ space[p].pte = Below(sz[p]) /\ space[p].guard \subseteq space[p].pte
    BY Zenon, <1>0 DEF shrink, ProcOK, Resting, AtRest, Typed
  <1>2. PICK n \in 1 .. KERNBASE :
          LET newsz == (sz[p] - n + Word) % Word
              dead == Dead(space[p], sz[p], newsz)
          IN  /\ newsz < sz[p]
              /\ kfree(Cardinality(dead))
              /\ space' = [space EXCEPT ![p] = Without(@, dead)]
              /\ sz' = [sz EXCEPT ![p] = IF newsz = 0 THEN @ ELSE newsz]
              /\ Goto(p, IF newsz = 0 THEN "fault" ELSE "user")
    BY Zenon DEF shrink
  <1>3. PICK m \in Nat : m = (sz[p] - n + Word) % Word
    <2>1. sz[p] - n + Word \in Nat /\ Word \in Nat \ {0}
      BY <1>0, MemoryAssumption DEF Typed
    <2>2. (sz[p] - n + Word) % Word \in 0 .. Word - 1
      BY Zenon, <2>1, Division
    <2>3. QED
      BY <2>1, <2>2
  <1> DEFINE dead == Dead(space[p], sz[p], m)
             s == Without(space[p], dead)
             z == IF m = 0 THEN sz[p] ELSE m
             l == IF m = 0 THEN "fault" ELSE "user"
  <1>4. m < sz[p] /\ nfree' = nfree + Cardinality(dead)
    BY Zenon, <1>2, <1>3 DEF kfree
  <1>5. dead \in SUBSET space[p].pte
    BY Zenon DEF Dead
  <1>6. /\ s \in Space /\ Cardinality(dead) \in Nat /\ PagesOf(s) + Cardinality(dead) = PagesOf(space[p])
        /\ s.pte = space[p].pte \ dead /\ s.guard = space[p].guard \ dead
    BY Zenon, <1>5, <1>0, PagesWithout DEF Typed
  <1>7. s.pte = Below(m)
    <2>1. RoundUp(m) \in Nat /\ RoundUp(sz[p]) \in Nat /\ RoundUp(m) <= RoundUp(sz[p])
      <3>1. sz[p] \in Nat /\ m \in Nat /\ m <= sz[p]
        BY <1>3, <1>4, <1>0 DEF Typed
      <3>2. QED
        BY Zenon, <3>1, RoundUpType, RoundUpMono
    <2>2. QED
      <3>1. space[p].pte = {v \in VPage : v < RoundUp(sz[p])}
        BY Zenon, <1>1 DEF Below
      <3>2. dead = {v \in space[p].pte : v >= RoundUp(m) /\ v < RoundUp(sz[p])}
        BY Zenon DEF Dead
      <3>3. s.pte = space[p].pte \ dead
        BY Zenon, <1>6
      <3>4. \A v \in VPage : v \in Nat
        BY Boundary DEF VPage
      <3> HIDE DEF s, dead
      <3>5. QED
        BY <2>1, <3>1, <3>2, <3>3, <3>4 DEF Below
  <1>8. Updated(p, s, z, job[p], l, TRUE)
    BY Zenon, <1>1, <1>2, <1>3, NoChange DEF shrink, Updated, Goto
  <1>9. s.guard \subseteq s.pte
    BY Zenon, <1>1, <1>6
  <1>10. z \in 0 .. KERNBASE /\ l \in {"fault", "user"} /\ (l = "user" => z = m)
    <2>1. m \in Nat /\ m < sz[p] /\ sz[p] \in 0 .. KERNBASE
      BY Zenon, <1>3, <1>4, <1>0 DEF Typed
    <2>2. m \in 0 .. KERNBASE /\ sz[p] \in 0 .. KERNBASE
      BY <2>1, Sizes
    <2>3. QED
      BY Zenon, <2>2
  <1> HIDE DEF s, z, l, dead
  <1>11. Fits(p, s, z, job[p], l, TRUE)
    BY Zenon, <1>1, <1>6, <1>7, <1>9, <1>10, <1>0, NoPages DEF Fits, ProcOK, AtRest, Resting, Busy, Typed
  <1>12. ~ mpanic' /\ mpanic' \in BOOLEAN
    BY Zenon, <1>0 DEF shrink, Typed
  <1>13. nfree' \in Nat /\ nfree' + Account(s, job[p], TRUE) = nfree + Account(space[p], job[p], p \in kstack)
    BY <1>1, <1>4, <1>6, <1>0, PagesType DEF Account, Count, Typed
  <1>14. QED
    BY Zenon, <1>8, <1>11, <1>12, <1>13, OneStep

\* exec begins.
LEMMA ExecStep == ASSUME MInv, NEW p \in MProc, exec(p) PROVE MInv'
  <1>0. Typed(p) /\ ProcOK(mpc[p], space[p], sz[p], job[p], p \in kstack)
    BY Zenon, Facts
  <1>1. mpc[p] = "user" /\ p \in kstack /\ job[p] = NoJob /\ space[p].pte = Below(sz[p]) /\ space[p].guard \subseteq space[p].pte
    BY Zenon, <1>0 DEF exec, ProcOK, Resting, AtRest, Typed
  <1> DEFINE j == [NoJob EXCEPT !.op = "exec"]
  <1>2. /\ j \in Job /\ j.op = "exec" /\ j.new = NoSpace /\ ~ j.mem /\ j.a = 0 /\ j.old = 0 /\ j.target = 0
    BY Zenon, Sizes, NoPages DEF NoJob, Job
  <1>3. Updated(p, space[p], sz[p], j, "dir", TRUE)
    BY Zenon, <1>1, NoChange DEF exec, Updated, Goto, SetJob
  <1> HIDE DEF j
  <1>4. ProcOK("dir", space[p], sz[p], j, TRUE)
    BY <1>1, <1>2, NoPages, Sizes DEF ProcOK, Resting, Busy, InCall, Building
  <1>5. Fits(p, space[p], sz[p], j, "dir", TRUE)
    BY Zenon, <1>1, <1>2, <1>4, <1>0 DEF Fits, Resting, Busy, Typed
  <1>6. ~ mpanic' /\ mpanic' \in BOOLEAN /\ nfree' = nfree /\ nfree \in Nat
    BY Zenon, <1>0 DEF exec, Typed
  <1>7. nfree' + Account(space[p], j, TRUE) = nfree + Account(space[p], job[p], p \in kstack)
    BY Zenon, <1>1, <1>2, <1>6, NoPages DEF Account, Count
  <1>8. QED
    BY Zenon, <1>3, <1>5, <1>6, <1>7, OneStep

\* A process in a call
LEMMA CallFacts == ASSUME MInv, NEW p \in MProc, mpc[p] \in Busy
                   PROVE  /\ p \in kstack /\ InCall(mpc[p], space[p], sz[p], job[p])
                          /\ job[p].a \in Nat /\ job[p].old \in 0 .. KERNBASE /\ job[p].target \in 0 .. KERNBASE
                          /\ job[p].mem \in BOOLEAN /\ job[p].op \in {"grow", "fork", "exec", "stack"}
  <1>0. Typed(p) /\ ProcOK(mpc[p], space[p], sz[p], job[p], p \in kstack)
    BY Zenon, Facts
  <1>1. job[p] \in Job /\ p \in kstack /\ InCall(mpc[p], space[p], sz[p], job[p])
    BY Zenon, <1>0 DEF Busy, ProcOK, Typed
  <1>2. job[p].op # "none"
    BY Zenon, <1>1 DEF InCall
  <1>3. QED
    BY Zenon, <1>1, <1>2 DEF Job

\* Back at the caller with the pages of its size
Returned(p) == /\ space'[p].pte = Below(sz[p]) /\ sz'[p] = sz[p] /\ space'[p].guard = space[p].guard
               /\ space'[p] \in Space

\* A call that fails: sbrk takes back the pages it has added,
LEMMA FailGrow == ASSUME MInv, NEW p \in MProc, mpc[p] \in Busy, fail(p), job[p].op = "grow"
                  PROVE  MInv' /\ Returned(p)
  <1>0. Typed(p) /\ ProcOK(mpc[p], space[p], sz[p], job[p], p \in kstack)
    BY Zenon, Facts
  <1>1. /\ p \in kstack /\ Growing(mpc[p], space[p], sz[p], job[p]) /\ job[p].a <= RoundUp(job[p].target)
    BY Zenon, CallFacts DEF InCall, Growing
  <1>2. job[p].old = sz[p] /\ RoundUp(sz[p]) <= job[p].a /\ job[p].new = NoSpace
        /\ space[p].pte = Upto(job[p].a) /\ space[p].guard \subseteq Below(sz[p])
    BY Zenon, <1>1 DEF Growing
  <1> DEFINE dead == Added(p)
             s == Without(space[p], dead)
  <1>3. dead \in SUBSET space[p].pte
    BY Zenon DEF Added, Dead
  <1>4. /\ s \in Space /\ Cardinality(dead) \in Nat /\ PagesOf(s) + Cardinality(dead) = PagesOf(space[p])
        /\ s.pte = space[p].pte \ dead /\ s.guard = space[p].guard \ dead
    BY Zenon, <1>3, <1>0, PagesWithout DEF Typed
  <1>5. s.pte = Below(sz[p]) /\ s.guard = space[p].guard
    <2>1. /\ RoundUp(sz[p]) \in Nat /\ RoundUp(job[p].target) \in Nat /\ job[p].a \in Nat
          /\ RoundUp(sz[p]) <= job[p].a /\ job[p].a <= RoundUp(job[p].target)
      BY Zenon, <1>1, <1>2, <1>0, CallFacts, RoundUpTop DEF Typed
    <2>2. dead = {v \in Upto(job[p].a) : v >= RoundUp(sz[p]) /\ v < RoundUp(job[p].target)}
      BY Zenon, <1>2 DEF Added, Dead
    <2>3. Below(sz[p]) = Upto(RoundUp(sz[p]))
      BY Zenon, UptoFacts
    <2>4. Upto(job[p].a) \ dead = Upto(RoundUp(sz[p])) /\ Upto(RoundUp(sz[p])) \cap dead = {}
      BY <2>1, <2>2, Boundary DEF Upto, VPage
    <2>5. QED
      BY Zenon, <1>2, <1>4, <2>3, <2>4
  <1>6. Updated(p, s, sz[p], NoJob, "user", TRUE)
    <2>1. mpc' = [mpc EXCEPT ![p] = "user"]
      BY Zenon, mpc \in [MProc -> Resting \cup Busy] DEF fail, MInv, MTypeOK
    <2>2. QED
      BY Zenon, <1>1, <2>1, NoChange DEF fail, Updated, SetJob
  <1>7. nfree' = nfree + Cardinality(dead) + Count(job[p].mem)
    BY <1>0, <1>4 DEF fail, kfree, Count, Typed
  <1>8. ~ mpanic' /\ mpanic' \in BOOLEAN
    BY Zenon, <1>0 DEF fail, Typed
  <1> HIDE DEF s, dead
  <1>9. Fits(p, s, sz[p], NoJob, "user", TRUE)
    <2>1. mpc[p] # "embryo"
      BY Zenon DEF Busy
    <2>2. QED
      BY Zenon, <2>1, <1>2, <1>4, <1>5, <1>0, NoPages DEF Fits, ProcOK, AtRest, Resting, Busy, Typed
  <1>10. nfree' \in Nat /\ nfree' + Account(s, NoJob, TRUE) = nfree + Account(space[p], job[p], p \in kstack)
    BY <1>1, <1>2, <1>4, <1>7, <1>0, PagesType, NoPages DEF Account, Count, Typed
  <1>11. MInv'
    BY Zenon, <1>6, <1>8, <1>9, <1>10, OneStep
  <1>12. space'[p] = s /\ sz'[p] = sz[p]
    BY Zenon, <1>6 DEF Updated, MInv, MTypeOK
  <1>13. QED
    BY Zenon, <1>4, <1>5, <1>11, <1>12 DEF Returned

\* exec frees the image it was building,
LEMMA FailExec == ASSUME MInv, NEW p \in MProc, mpc[p] \in Busy, fail(p), job[p].op \in {"exec", "stack"}
                  PROVE  MInv' /\ Returned(p)
  <1>0. Typed(p) /\ ProcOK(mpc[p], space[p], sz[p], job[p], p \in kstack)
    BY Zenon, Facts
  <1>1. /\ p \in kstack /\ Building(mpc[p], space[p], sz[p], job[p])
    BY Zenon, CallFacts DEF InCall
  <1>2. space[p].pte = Below(sz[p]) /\ space[p].guard \subseteq space[p].pte
    BY Zenon, <1>1 DEF Building
  <1>3. Updated(p, space[p], sz[p], NoJob, "user", TRUE)
    <2>1. mpc' = [mpc EXCEPT ![p] = "user"]
      BY Zenon, mpc \in [MProc -> Resting \cup Busy] DEF fail, MInv, MTypeOK
    <2>2. space' = space /\ sz' = sz /\ kstack' = kstack
      BY Zenon DEF fail
    <2>3. QED
      BY Zenon, <1>1, <2>1, <2>2, NoChange DEF fail, Updated, SetJob
  <1>4. nfree' = nfree + PagesOf(job[p].new) + Count(job[p].mem)
    BY <1>0 DEF fail, kfree, Count, OnFailure, Typed
  <1>5. ~ mpanic' /\ mpanic' \in BOOLEAN
    BY Zenon, <1>0 DEF fail, Typed
  <1>6. Fits(p, space[p], sz[p], NoJob, "user", TRUE)
    <2>1. mpc[p] # "embryo"
      BY Zenon DEF Busy
    <2>2. QED
      BY Zenon, <2>1, <1>2, <1>0, NoPages DEF Fits, ProcOK, AtRest, Resting, Busy, Typed
  <1>7. nfree' \in Nat /\ nfree' + Account(space[p], NoJob, TRUE) = nfree + Account(space[p], job[p], p \in kstack)
    BY <1>1, <1>4, <1>0, NoPages DEF Account, Count, Typed
  <1>8. MInv'
    BY Zenon, <1>3, <1>5, <1>6, <1>7, OneStep
  <1>9. space'[p] = space[p] /\ sz'[p] = sz[p]
    BY Zenon, <1>3 DEF Updated, MInv, MTypeOK
  <1>10. QED
    BY Zenon, <1>2, <1>8, <1>9, <1>0 DEF Returned, Typed

\* and fork the image and the stack of the child.
LEMMA FailFork == ASSUME MInv, NEW p \in MProc, mpc[p] \in Busy, fail(p), job[p].op = "fork"
                  PROVE  MInv' /\ Returned(p)
  <1>0. Typed(p) /\ ProcOK(mpc[p], space[p], sz[p], job[p], p \in kstack)
    BY Zenon, Facts
  <1>q. PICK q \in MProc : q = job[p].child
    BY Zenon DEF MInv, Children
  <1>1. q \in MProc /\ mpc[q] = "embryo" /\ q # p
    BY Zenon, <1>q DEF MInv, Children, Busy
  <1>2. p \in kstack /\ space[p].pte = Below(sz[p]) /\ space[p].guard \subseteq space[p].pte
    BY Zenon, CallFacts DEF InCall, Building
  <1>3. q \in kstack /\ space[q] = NoSpace /\ job[q] = NoJob
    <2>1. ProcOK(mpc[q], space[q], sz[q], job[q], q \in kstack)
      BY Zenon, <1>1, Facts
    <2>2. QED
      BY Zenon, <1>1, <2>1 DEF ProcOK, Resting, AtRest
  <1>4. MTypeOK
    BY Zenon DEF MInv
  <1>5. /\ space' = space /\ sz' = sz /\ kstack' = kstack \ {q} /\ job' = [job EXCEPT ![p] = NoJob] /\ mpanic' = FALSE
        /\ mpc' = [mpc EXCEPT ![p] = "user", ![q] = "unused"]
        /\ nfree' = nfree + OnFailure(p)
    <2>1. mpc' = [r \in MProc |-> IF r = p THEN "user" ELSE IF r = q THEN "unused" ELSE mpc[r]]
      BY Zenon, <1>q DEF fail
    <2>2. mpc' = [mpc EXCEPT ![p] = "user", ![q] = "unused"]
      BY Zenon, <2>1, <1>1, <1>4 DEF MTypeOK
    <2>3. QED
      BY Zenon, <2>2, <1>q, <1>0 DEF fail, SetJob, kfree, Typed
  <1>6. nfree' = nfree + PagesOf(job[p].new) + Count(job[p].mem) + 1
    BY <1>5, <1>0 DEF OnFailure, Count, Typed
  <1>7. /\ mpc'[p] = "user" /\ mpc'[q] = "unused" /\ job'[p] = NoJob /\ job'[q] = job[q]
        /\ p \in kstack' /\ q \notin kstack' /\ \A r \in MProc \ {p, q} : Same(r)
    BY Zenon, <1>1, <1>2, <1>4, <1>5 DEF MTypeOK, Same
  <1>8. MTypeOK'
    <2>1. nfree' \in Nat
      BY <1>6, <1>0 DEF Count, Typed
    <2>2. QED
      BY Zenon, <2>1, <1>1, <1>4, <1>5, NoPages DEF MTypeOK, Resting
  <1>9. ProcOK(mpc[p], space[p], sz[p], job[p], p \in kstack)'
    <2>1. AtRest(mpc[p], space[p], sz[p], job[p])'
      BY Zenon, <1>2, <1>5, <1>7 DEF AtRest
    <2>2. QED
      BY Zenon, <1>7, <2>1 DEF ProcOK, Resting, Busy
  <1>10. ProcOK(mpc[q], space[q], sz[q], job[q], q \in kstack)'
    <2>1. AtRest(mpc[q], space[q], sz[q], job[q])'
      BY Zenon, <1>3, <1>5, <1>7 DEF AtRest
    <2>2. QED
      BY Zenon, <1>7, <2>1 DEF ProcOK, Resting, Busy
  <1>11. Children'
    <2>1. ASSUME NEW r \in MProc, job'[r].op = "fork"
          PROVE  job[r].op = "fork" /\ job'[r].child = job[r].child /\ mpc'[job[r].child] = "embryo"
      <3>1. r \notin {p, q}
        BY Zenon, <2>1, <1>3, <1>7, NoPages
      <3>2. job'[r] = job[r]
        BY Zenon, <3>1, <1>7 DEF Same
      <3>3. job[r].child \in MProc /\ mpc[job[r].child] = "embryo" /\ job[r].child # q
        BY Zenon, <3>1, <3>2, <2>1, <1>q DEF MInv, Children
      <3>4. job[r].child # p
        BY Zenon, <3>3 DEF Busy
      <3>5. mpc'[job[r].child] = "embryo"
        BY Zenon, <3>3, <3>4, <1>7 DEF Same
      <3>6. QED
        BY Zenon, <2>1, <3>2, <3>5
    <2>2. QED
      BY Zenon, <2>1, ChildrenKept DEF MInv
  <1>12. nfree' + Held(p)' + Held(q)' = nfree + Held(p) + Held(q)
    <2>1. Held(p) = PagesOf(space[p]) + PagesOf(job[p].new) + Count(job[p].mem) + 1
      BY Zenon, <1>2 DEF Held, Count
    <2>2. Held(p)' = PagesOf(space[p]) + 1 /\ Held(q) = 1 /\ Held(q)' = 0
      <3>1. Count(p \in kstack') = 1 /\ Count(q \in kstack) = 1 /\ Count(q \in kstack') = 0 /\ Count(NoJob.mem) = 0
        BY Zenon, <1>3, <1>7, NoPages DEF Count
      <3>2. /\ Held(p)' = PagesOf(space[p]) + PagesOf(NoSpace) + 0 + 1
            /\ Held(q) = PagesOf(NoSpace) + PagesOf(NoSpace) + 0 + 1
            /\ Held(q)' = PagesOf(NoSpace) + PagesOf(NoSpace) + 0 + 0
        <4>1. /\ space'[p] = space[p] /\ space'[q] = NoSpace /\ job'[p] = NoJob /\ job'[q] = NoJob
              /\ space[q] = NoSpace /\ job[q] = NoJob /\ NoJob.new = NoSpace
          BY Zenon, <1>3, <1>5, <1>7, NoPages
        <4>2. QED
          BY Zenon, <4>1, <3>1 DEF Held
      <3>3. QED
        BY <3>2, <1>0, NoPages DEF Typed
    <2>3. QED
      BY <2>1, <2>2, <1>6, <1>0 DEF Count, Typed
  <1>13. ~ mpanic'
    BY Zenon, <1>5
  <1>14. MInv'
    BY Zenon, <1>1, <1>7, <1>8, <1>9, <1>10, <1>11, <1>12, <1>13, TwoStep
  <1>15. QED
    BY Zenon, <1>2, <1>5, <1>14, <1>0 DEF Returned, Typed

\* An allocation that fails preserves the invariant, and the call returns.
LEMMA FailStep == ASSUME MInv, NEW p \in MProc, mpc[p] \in Busy, fail(p) PROVE MInv' /\ Returned(p)
  BY Zenon, CallFacts, FailGrow, FailExec, FailFork

\* fork takes a slot and a stack.
LEMMA ForkStep == ASSUME MInv, NEW p \in MProc, NEW q \in MProc, fork(p, q) PROVE MInv'
  <1>0. Typed(p) /\ ProcOK(mpc[p], space[p], sz[p], job[p], p \in kstack)
    BY Zenon, Facts
  <1> DEFINE j == [NoJob EXCEPT !.op = "fork", !.child = q, !.target = sz[p]]
  <1>1. /\ mpc[p] = "user" /\ mpc[q] = "unused" /\ p # q /\ nfree >= 1 /\ nfree' = nfree - 1
        /\ kstack' = kstack \cup {q} /\ job' = [job EXCEPT ![p] = j] /\ mpc' = [mpc EXCEPT ![p] = "dir", ![q] = "embryo"]
        /\ space' = space /\ sz' = sz /\ mpanic' = mpanic
    BY Zenon DEF fork, kalloc, SetJob
  <1>2. p \in kstack /\ job[p] = NoJob /\ space[p].pte = Below(sz[p]) /\ space[p].guard \subseteq space[p].pte
    BY Zenon, <1>1, <1>0 DEF ProcOK, Resting, AtRest, Typed
  <1>3. q \notin kstack /\ job[q] = NoJob /\ space[q] = NoSpace
    <2>1. ProcOK(mpc[q], space[q], sz[q], job[q], q \in kstack)
      BY Zenon, Facts
    <2>2. QED
      BY Zenon, <1>1, <2>1 DEF ProcOK, Resting, AtRest
  <1>4. /\ j \in Job /\ j.op = "fork" /\ j.child = q /\ j.target = sz[p] /\ j.new = NoSpace /\ ~ j.mem /\ j.a = 0 /\ j.old = 0
    BY Zenon, <1>0, Sizes, NoPages DEF NoJob, Job, Typed
  <1> HIDE DEF j
  <1>5. MTypeOK
    BY Zenon DEF MInv
  <1>6. /\ mpc'[p] = "dir" /\ mpc'[q] = "embryo" /\ job'[p] = j /\ job'[q] = job[q]
        /\ p \in kstack' /\ q \in kstack' /\ \A r \in MProc \ {p, q} : Same(r)
    BY Zenon, <1>1, <1>2, <1>5 DEF MTypeOK, Same
  <1>7. MTypeOK'
    <2>1. nfree \in Nat /\ 1 \in Nat
      BY Zenon, <1>0, OnePage DEF Typed
    <2>2. nfree' \in Nat
      BY Zenon, <2>1, <1>1, Plus
    <2>3. QED
      BY Zenon, <2>2, <1>1, <1>4, <1>5 DEF MTypeOK, Resting, Busy
  <1>8. ProcOK(mpc[p], space[p], sz[p], job[p], p \in kstack)'
    BY <1>1, <1>2, <1>4, <1>6, NoPages DEF ProcOK, InCall, Building, Resting, Busy
  <1>9. ProcOK(mpc[q], space[q], sz[q], job[q], q \in kstack)'
    BY Zenon, <1>1, <1>3, <1>6 DEF ProcOK, AtRest, Resting, Busy
  <1>10. Children'
    <2>1. ASSUME NEW r \in MProc \ {p}, job'[r].op = "fork"
          PROVE  job'[r] = job[r] /\ job[r].child \in MProc /\ mpc'[job[r].child] = "embryo" /\ job[r].child # q
      <3>1. r # q
        BY Zenon, <2>1, <1>3, <1>6, NoPages
      <3>2. job'[r] = job[r]
        BY Zenon, <3>1, <1>6 DEF Same
      <3>3. job[r].child \in MProc /\ mpc[job[r].child] = "embryo"
        BY Zenon, <3>2, <2>1 DEF MInv, Children
      <3>4. job[r].child \notin {p, q}
        BY Zenon, <3>3, <1>1
      <3>5. mpc'[job[r].child] = "embryo"
        BY Zenon, <3>3, <3>4, <1>6 DEF Same
      <3>6. QED
        BY Zenon, <3>2, <3>3, <3>4, <3>5
    <2>2. QED
      <3>1. Children
        BY Zenon DEF MInv
      <3>2. job'[p].child = q /\ q \in MProc /\ mpc'[q] = "embryo"
        BY Zenon, <1>4, <1>6
      <3>3. ASSUME NEW r \in MProc \ {p}, job'[r].op = "fork", NEW x \in MProc \ {r, p}, job'[x].op = "fork"
            PROVE  job'[x].child # job'[r].child
        <4>1. job'[r] = job[r] /\ job'[x] = job[x]
          BY Zenon, <2>1, <3>3
        <4>2. job[r].op = "fork" /\ job[x].op = "fork"
          BY Zenon, <3>3, <4>1
        <4>3. job[x].child # job[r].child
          BY Zenon, <3>1, <4>2 DEF Children
        <4>4. QED
          BY Zenon, <4>1, <4>3
      <3>4. ASSUME NEW r \in MProc, job'[r].op = "fork"
            PROVE  /\ job'[r].child \in MProc /\ mpc'[job'[r].child] = "embryo"
                   /\ \A x \in MProc \ {r} : job'[x].op = "fork" => job'[x].child # job'[r].child
        <4>1. CASE r = p
          BY Zenon, <4>1, <2>1, <3>2
        <4>2. CASE r # p
          <5>1. job'[r].child \in MProc /\ mpc'[job'[r].child] = "embryo" /\ job'[r].child # q
            BY Zenon, <2>1, <3>4, <4>2
          <5>2. QED
            BY Zenon, <3>2, <3>3, <3>4, <4>2, <5>1
        <4>3. QED
          BY Zenon, <4>1, <4>2
      <3>5. QED
        BY Zenon, <3>4 DEF Children
  <1>11. nfree' + Held(p)' + Held(q)' = nfree + Held(p) + Held(q)
    <2>1. /\ Held(p) = PagesOf(space[p]) + 1 /\ Held(p)' = PagesOf(space[p]) + 1
          /\ Held(q) = 0 /\ Held(q)' = 1
      <3>1. /\ Count(p \in kstack) = 1 /\ Count(p \in kstack') = 1 /\ Count(q \in kstack) = 0 /\ Count(q \in kstack') = 1
            /\ Count(NoJob.mem) = 0 /\ Count(j.mem) = 0
        BY Zenon, <1>2, <1>3, <1>4, <1>6, NoPages DEF Count
      <3>2. NoJob.new = NoSpace /\ j.new = NoSpace /\ job'[q] = NoJob /\ space'[p] = space[p] /\ space'[q] = NoSpace
        BY Zenon, <1>1, <1>3, <1>4, <1>6, NoPages
      <3>3. /\ Held(p) = PagesOf(space[p]) + PagesOf(NoSpace) + 0 + 1
            /\ Held(p)' = PagesOf(space[p]) + PagesOf(NoSpace) + 0 + 1
            /\ Held(q) = PagesOf(NoSpace) + PagesOf(NoSpace) + 0 + 0
            /\ Held(q)' = PagesOf(NoSpace) + PagesOf(NoSpace) + 0 + 1
        BY Zenon, <3>1, <3>2, <1>2, <1>3, <1>6 DEF Held
      <3>4. QED
        BY <3>3, <1>0, NoPages DEF Typed
    <2>2. QED
      BY <2>1, <1>1, <1>0 DEF Typed
  <1>12. ~ mpanic'
    BY Zenon, <1>1, <1>0 DEF Typed
  <1>13. QED
    BY Zenon, <1>1, <1>6, <1>7, <1>8, <1>9, <1>10, <1>11, <1>12, TwoStep

\* wait frees what a zombie has left.
LEMMA WaitStep == ASSUME MInv, NEW p \in MProc, NEW q \in MProc, wait(p, q) PROVE MInv'
  <1>0. Typed(q) /\ ProcOK(mpc[q], space[q], sz[q], job[q], q \in kstack)
    BY Zenon, Facts
  <1>1. mpc[q] = "zombie" /\ q \in kstack /\ job[q] = NoJob
    BY Zenon, <1>0 DEF wait, ProcOK, Resting, AtRest, Typed
  <1>2. Updated(q, NoSpace, 0, job[q], "unused", FALSE)
    BY Zenon, NoChange DEF wait, Updated, Goto
  <1>3. Fits(q, NoSpace, 0, job[q], "unused", FALSE)
    BY <1>1, Sizes, NoPages DEF Fits, ProcOK, AtRest, Resting, Busy
  <1>4. ~ mpanic' /\ mpanic' \in BOOLEAN
    BY Zenon, <1>0 DEF wait, Typed
  <1>5. nfree' = nfree + (PagesOf(space[q]) + 1)
    BY Zenon DEF wait, kfree
  <1>6. nfree' \in Nat /\ nfree' + Account(NoSpace, job[q], FALSE) = nfree + Account(space[q], job[q], q \in kstack)
    <2>1. Count(q \in kstack) = 1 /\ Count(FALSE) = 0 /\ Count(job[q].mem) = 0 /\ PagesOf(job[q].new) = 0
      BY Zenon, <1>1, NoPages DEF Count
    <2>2. /\ Account(NoSpace, job[q], FALSE) = PagesOf(NoSpace) + 0 + 0 + 0
          /\ Account(space[q], job[q], q \in kstack) = PagesOf(space[q]) + 0 + 0 + 1
      BY Zenon, <2>1 DEF Account
    <2>3. nfree' \in Nat /\ nfree' + (PagesOf(NoSpace) + 0 + 0 + 0) = nfree + (PagesOf(space[q]) + 0 + 0 + 1)
      <3>1. PICK n \in Nat : n = PagesOf(space[q])
        BY Zenon, <1>0 DEF Typed
      <3>2. nfree \in Nat /\ PagesOf(NoSpace) = 0
        BY Zenon, <1>0, NoPages DEF Typed
      <3>3. QED
        BY <3>1, <3>2, <1>5
    <2>4. QED
      BY Zenon, <2>2, <2>3
  <1>7. QED
    BY Zenon, <1>2, <1>3, <1>4, <1>6, OneStep

\* The page directory and the kernel's page table
LEMMA SetupStep == ASSUME MInv, NEW p \in MProc, setupkvm(p), nfree # 0 PROVE MInv'
  <1>0. Typed(p) /\ ProcOK(mpc[p], space[p], sz[p], job[p], p \in kstack)
    BY Zenon, Facts
  <1>1. mpc[p] \in {"dir", "kpt"} /\ mpc[p] \in Busy
    BY Zenon DEF setupkvm, Busy
  <1>2. p \in kstack /\ InCall(mpc[p], space[p], sz[p], job[p])
    BY Zenon, <1>1, CallFacts
  <1> DEFINE j == IF mpc[p] = "dir" THEN [job[p] EXCEPT !.new.dir = TRUE] ELSE [job[p] EXCEPT !.new.kpt = TRUE]
             l == IF mpc[p] = "dir" THEN "kpt" ELSE IF job[p].op = "fork" THEN "page" ELSE "segment"
  <1>3. Updated(p, space[p], sz[p], j, l, TRUE) /\ nfree' = nfree - 1 /\ ~ mpanic' /\ mpanic' \in BOOLEAN
    BY Zenon, <1>2, NoChange, <1>0 DEF setupkvm, Updated, Goto, SetJob, kalloc, Typed
  <1>4. /\ Building(mpc[p], space[p], sz[p], job[p]) /\ job[p].op \in {"fork", "exec"} /\ ~ job[p].mem
        /\ job[p].op = "exec" => job[p].target < KERNBASE
    BY Zenon, <1>1, <1>2, CallFacts DEF InCall, Growing, Building
  <1>5. /\ job[p].a = 0 /\ job[p].old = 0 /\ job[p].new.pte = {} /\ ~ job[p].new.kpt /\ (mpc[p] = "dir" => ~ job[p].new.dir)
        /\ space[p].pte = Below(sz[p]) /\ space[p].guard \subseteq space[p].pte /\ (job[p].op = "fork" => job[p].target = sz[p])
    BY Zenon, <1>1, <1>4 DEF Building
  <1>6. /\ j \in Job /\ j.op = job[p].op /\ j.child = job[p].child /\ j.a = 0 /\ j.old = 0 /\ j.target = job[p].target
        /\ ~ j.mem /\ j.new \in Space /\ j.new.pte = {} /\ j.new.pt = job[p].new.pt
    BY Zenon, <1>4, <1>5, <1>0 DEF Job, Space, Typed
  <1>7. /\ mpc[p] = "dir" => j.new.dir /\ ~ j.new.kpt
        /\ mpc[p] = "kpt" => j.new.dir = job[p].new.dir /\ j.new.kpt
    BY Zenon, <1>5, <1>0 DEF Job, Space, Typed
  <1>8. PagesOf(j.new) = PagesOf(job[p].new) + 1
    <2>1. Cardinality(job[p].new.pt) \in Nat /\ Cardinality({}) = 0
      BY Zenon, <1>0, PagesType, FS_EmptySet DEF Typed
    <2>2. Count(job[p].new.dir) \in Nat
      BY Zenon DEF Count
    <2>3. CASE mpc[p] = "dir"
      <3>1. Count(j.new.dir) = 1 /\ Count(j.new.kpt) = 0 /\ Count(job[p].new.dir) = 0 /\ Count(job[p].new.kpt) = 0
        BY Zenon, <2>3, <1>5, <1>7 DEF Count
      <3> HIDE DEF j
      <3>2. QED
        BY <3>1, <2>1, <1>5, <1>6 DEF PagesOf
    <2>4. CASE mpc[p] = "kpt"
      <3>1. Count(j.new.dir) = Count(job[p].new.dir) /\ Count(j.new.kpt) = 1 /\ Count(job[p].new.kpt) = 0
        BY Zenon, <2>4, <1>5, <1>7 DEF Count
      <3> HIDE DEF j
      <3>2. QED
        BY <3>1, <2>1, <2>2, <1>5, <1>6 DEF PagesOf
    <2>5. QED
      BY Zenon, <1>1, <2>3, <2>4
  <1>9. l \in Busy /\ (mpc[p] = "dir" => l = "kpt") /\ (mpc[p] = "kpt" => l = IF job[p].op = "fork" THEN "page" ELSE "segment")
    BY Zenon, <1>1 DEF Busy
  <1> HIDE DEF j, l
  <1>10. ProcOK(l, space[p], sz[p], j, TRUE)
    <2>1. RoundUp(j.target) \in Nat /\ RoundUp(0) = 0 /\ Upto(0) = {} /\ Below(0) = {} /\ 0 < KERNBASE
      <3>1. j.target \in 0 .. KERNBASE
        BY Zenon, <1>6 DEF Job
      <3>2. QED
        BY <3>1, RoundUpTop, UptoFacts, Sizes
    <2>2. Building(l, space[p], sz[p], j)
      BY Zenon, <2>1, <1>1, <1>4, <1>5, <1>6, <1>7, <1>9 DEF Building
    <2>3. InCall(l, space[p], sz[p], j)
      BY <2>1, <2>2, <1>1, <1>4, <1>5, <1>6, <1>9 DEF InCall
    <2>4. QED
      BY Zenon, <2>3, <1>9 DEF ProcOK, Busy, Resting
  <1>11. Fits(p, space[p], sz[p], j, l, TRUE)
    BY Zenon, <1>1, <1>6, <1>9, <1>10, <1>0 DEF Fits, Typed
  <1>12. nfree' \in Nat /\ nfree' + Account(space[p], j, TRUE) = nfree + Account(space[p], job[p], p \in kstack)
    BY <1>2, <1>3, <1>4, <1>6, <1>8, <1>0 DEF Account, Count, Typed
  <1>13. QED
    BY Zenon, <1>3, <1>11, <1>12, OneStep

\* A page for the next address; copyuvm finds the parent's.
LEMMA AllocStep == ASSUME MInv, NEW p \in MProc, allocpage(p) PROVE ~ Missing(p) /\ (nfree # 0 => MInv')
  <1>0. Typed(p) /\ ProcOK(mpc[p], space[p], sz[p], job[p], p \in kstack)
    BY Zenon, Facts
  <1>1. mpc[p] = "page" /\ mpc[p] \in Busy /\ job[p].a < RoundUp(job[p].target)
    BY Zenon DEF allocpage, Busy
  <1>2. p \in kstack /\ InCall(mpc[p], space[p], sz[p], job[p]) /\ job[p].a \in Nat /\ job[p].target \in 0 .. KERNBASE
    BY Zenon, <1>1, CallFacts
  <1>3. ~ Missing(p)
    <2>1. job[p].a \in VPage
      BY Zenon, <1>1, <1>2, RoundUpTop
    <2>2. ASSUME job[p].op = "fork" PROVE job[p].a \in space[p].pte
      <3>1. space[p].pte = Upto(RoundUp(sz[p])) /\ job[p].target = sz[p]
        BY Zenon, <2>2, <1>2, UptoFacts DEF InCall, Building
      <3>2. QED
        BY Zenon, <3>1, <2>1, <1>1 DEF Upto
    <2>3. QED
      BY Zenon, <2>2 DEF Missing
  <1> SUFFICES ASSUME nfree # 0 PROVE MInv'
    BY Zenon, <1>3
  <1> DEFINE j == [job[p] EXCEPT !.mem = TRUE]
  <1>4. Updated(p, space[p], sz[p], j, "map", TRUE) /\ nfree' = nfree - 1 /\ ~ mpanic' /\ mpanic' \in BOOLEAN
    BY Zenon, <1>2, <1>3, NoChange, <1>0 DEF allocpage, Updated, Goto, SetJob, kalloc, Typed
  <1>5. ~ job[p].mem
    BY Zenon, <1>1, <1>2 DEF InCall
  <1>6. /\ j \in Job /\ j.op = job[p].op /\ j.child = job[p].child /\ j.a = job[p].a /\ j.old = job[p].old
        /\ j.target = job[p].target /\ j.new = job[p].new /\ j.mem
    BY Zenon, <1>0 DEF Job, Typed
  <1> HIDE DEF j
  <1>7. InCall("map", space[p], sz[p], j)
    BY Zenon, <1>1, <1>2, <1>6 DEF InCall, Growing, Building
  <1>8. ProcOK("map", space[p], sz[p], j, TRUE)
    BY Zenon, <1>7 DEF ProcOK, Resting
  <1>9. Fits(p, space[p], sz[p], j, "map", TRUE)
    BY Zenon, <1>1, <1>6, <1>8, <1>0 DEF Fits, Busy, Typed
  <1>10. nfree' \in Nat /\ nfree' + Account(space[p], j, TRUE) = nfree + Account(space[p], job[p], p \in kstack)
    BY <1>2, <1>4, <1>5, <1>6, <1>0 DEF Account, Count, Typed
  <1>11. QED
    BY Zenon, <1>4, <1>9, <1>10, OneStep

\* The page is mapped, with a page table for it if there was none.
LEMMA MapFacts == ASSUME MInv, NEW p \in MProc, mpc[p] = "map"
                  PROVE  /\ p \in kstack /\ InCall(mpc[p], space[p], sz[p], job[p]) /\ job[p].mem
                         /\ job[p].a \in VPage /\ job[p].a \in Nat /\ job[p].a < RoundUp(job[p].target)
                         /\ RoundUp(job[p].target) \in Nat
                         /\ Current(p) \in Space /\ Current(p).pte = Upto(job[p].a) /\ job[p].a \notin Current(p).pte
  <1>0. Typed(p) /\ ProcOK(mpc[p], space[p], sz[p], job[p], p \in kstack)
    BY Zenon, Facts
  <1>1. mpc[p] \in Busy
    BY Zenon DEF Busy
  <1>2. p \in kstack /\ InCall(mpc[p], space[p], sz[p], job[p]) /\ job[p].a \in Nat /\ job[p].target \in 0 .. KERNBASE
    BY Zenon, <1>1, CallFacts
  <1>3. job[p].a < RoundUp(job[p].target) /\ job[p].mem
    BY Zenon, <1>2 DEF InCall
  <1>4. job[p].a \in VPage /\ RoundUp(job[p].target) \in Nat
    BY Zenon, <1>2, <1>3, RoundUpTop
  <1>5. Current(p) \in Space /\ Current(p).pte = Upto(job[p].a)
    BY Zenon, <1>2, <1>0 DEF Current, InCall, Growing, Building, Typed
  <1>6. QED
    BY <1>2, <1>3, <1>4, <1>5, UptoFacts

\* mappages that finds a page for its table preserves the invariant.
LEMMA MapStep == ASSUME MInv, NEW p \in MProc, mappages(p), ~ (NeedsTable(Current(p), job[p].a) /\ nfree = 0) PROVE MInv'
  <1>0. Typed(p) /\ ProcOK(mpc[p], space[p], sz[p], job[p], p \in kstack)
    BY Zenon, Facts
  <1> DEFINE v == job[p].a
             m == Mapped(Current(p), v)
             i == [job[p] EXCEPT !.mem = FALSE, !.a = v + 1]
             s == IF job[p].op = "grow" THEN m ELSE space[p]
             j == IF job[p].op = "grow" THEN i ELSE [i EXCEPT !.new = m]
  <1>1. mpc[p] = "map" /\ p \in kstack
    BY Zenon, MapFacts DEF mappages
  <1>2. /\ nfree >= Count(NeedsTable(Current(p), v)) /\ nfree' = nfree - Count(NeedsTable(Current(p), v))
        /\ mpanic' = (mpanic \/ v \in Current(p).pte)
        /\ SetCurrent(p, m, i) /\ mpc' = [mpc EXCEPT ![p] = "page"] /\ sz' = sz /\ kstack' = kstack
    BY Zenon DEF mappages, kalloc, Goto, Mapped
  <1>3. mpanic' = FALSE
    BY Zenon, <1>1, <1>2, MapFacts, <1>0 DEF Typed
  <1>4. /\ m \in Space /\ m.pte = Upto(v + 1) /\ m.guard = Current(p).guard /\ m.dir = Current(p).dir /\ m.kpt = Current(p).kpt
        /\ PagesOf(m) = PagesOf(Current(p)) + 1 + Count(NeedsTable(Current(p), v))
    <2>1. /\ Current(p) \in Space /\ Current(p).pte = Upto(v) /\ v \notin Current(p).pte /\ v \in VPage
      BY Zenon, <1>1, MapFacts
    <2>2. Upto(v + 1) = Upto(v) \cup {v}
      BY Zenon, <2>1, UptoFacts
    <2>3. /\ m \in Space /\ m.pte = Current(p).pte \cup {v} /\ m.guard = Current(p).guard
          /\ m.dir = Current(p).dir /\ m.kpt = Current(p).kpt
          /\ PagesOf(m) = PagesOf(Current(p)) + 1 + Count(NeedsTable(Current(p), v))
      BY Zenon, <2>1, PagesMapped
    <2>4. QED
      BY Zenon, <2>1, <2>2, <2>3
  <1>5. v \in Nat /\ v + 1 \in Nat /\ v < RoundUp(job[p].target)
    BY <1>1, MapFacts
  <1>6. /\ i \in Job /\ i.op = job[p].op /\ i.child = job[p].child /\ i.a = v + 1 /\ i.old = job[p].old
        /\ i.target = job[p].target /\ i.new = job[p].new /\ ~ i.mem
    BY Zenon, <1>5, <1>0 DEF Job, Typed
  <1> HIDE DEF m, i
  <1>7. /\ j \in Job /\ j.op = job[p].op /\ j.child = job[p].child /\ j.a = v + 1 /\ j.old = job[p].old
        /\ j.target = job[p].target /\ ~ j.mem /\ j.new = IF job[p].op = "grow" THEN job[p].new ELSE m
    <2>1. CASE job[p].op = "grow"
      BY Zenon, <2>1, <1>6
    <2>2. CASE job[p].op # "grow"
      <3>1. j = [i EXCEPT !.new = m] /\ m \in Space
        BY Zenon, <2>2, <1>4
      <3> HIDE DEF j
      <3>2. QED
        BY Zenon, <2>2, <3>1, <1>6 DEF Job
    <2>3. QED
      BY Zenon, <2>1, <2>2
  <1>8. Updated(p, s, sz[p], j, "page", TRUE)
    <2>1. space' = [space EXCEPT ![p] = s] /\ job' = [job EXCEPT ![p] = j]
      BY Zenon, <1>2, <1>6, NoChange DEF SetCurrent, SetJob
    <2>2. QED
      BY Zenon, <1>1, <1>2, <2>1, NoChange DEF Updated
  <1>9. s \in Space /\ (job[p].op = "grow" => s = m) /\ (job[p].op # "grow" => s = space[p])
    BY Zenon, <1>4, <1>0 DEF Typed
  <1> HIDE DEF s, j
  <1>10. InCall("page", s, sz[p], j)
    <2>1. InCall("map", space[p], sz[p], job[p]) /\ v < RoundUp(job[p].target) /\ RoundUp(job[p].target) \in Nat /\ v \in Nat
      BY Zenon, <1>1, MapFacts
    <2>2. CASE job[p].op = "grow"
      <3>1. Current(p) = space[p]
        BY Zenon, <2>2 DEF Current
      <3>2. Growing("map", space[p], sz[p], job[p])
        BY Zenon, <2>1, <2>2 DEF InCall
      <3>3. RoundUp(sz[p]) \in Nat
        BY Zenon, <1>0, RoundUpType DEF Typed
      <3>4. RoundUp(sz[p]) <= v + 1
        BY <2>1, <3>2, <3>3 DEF Growing
      <3>5. Growing("page", s, sz[p], j)
        BY Zenon, <2>2, <3>1, <3>2, <3>4, <1>4, <1>7, <1>9 DEF Growing
      <3>6. v + 1 <= RoundUp(job[p].target)
        BY <2>1
      <3>7. QED
        BY Zenon, <2>1, <2>2, <3>5, <3>6, <1>7 DEF InCall
    <2>3. CASE job[p].op # "grow"
      <3>1. Building("map", space[p], sz[p], job[p]) /\ job[p].op # "none"
            /\ (job[p].op \in {"exec", "stack"} => job[p].target < KERNBASE)
        BY Zenon, <2>1, <2>3 DEF InCall
      <3>2. Building("page", s, sz[p], j)
        BY Zenon, <2>3, <3>1, <1>4, <1>7, <1>9 DEF Building
      <3>3. QED
        BY <2>1, <2>3, <3>1, <3>2, <1>7 DEF InCall
    <2>4. QED
      BY Zenon, <2>2, <2>3
  <1>11. ProcOK("page", s, sz[p], j, TRUE)
    BY Zenon, <1>10 DEF ProcOK, Resting
  <1>12. Fits(p, s, sz[p], j, "page", TRUE)
    BY Zenon, <1>1, <1>7, <1>9, <1>11, <1>0 DEF Fits, Busy, Typed
  <1>13. nfree' \in Nat /\ nfree' + Account(s, j, TRUE) = nfree + Account(space[p], job[p], p \in kstack)
    <2>1. job[p].mem /\ Count(NeedsTable(Current(p), v)) \in Nat /\ PagesOf(m) \in Nat
      BY Zenon, <1>1, <1>4, MapFacts, PagesType DEF Count
    <2>2. Current(p) = IF job[p].op = "grow" THEN space[p] ELSE job[p].new
      BY Zenon DEF Current
    <2>3. Count(TRUE) = 1 /\ Count(job[p].mem) = 1 /\ Count(j.mem) = 0 /\ Count(p \in kstack) = 1
      BY Zenon, <2>1, <1>1, <1>7 DEF Count
    <2>4. QED
      <3>1. /\ Account(s, j, TRUE) = PagesOf(s) + PagesOf(j.new) + 0 + 1
            /\ Account(space[p], job[p], p \in kstack) = PagesOf(space[p]) + PagesOf(job[p].new) + 1 + 1
        BY Zenon, <2>3 DEF Account
      <3>2. /\ nfree \in Nat /\ PagesOf(space[p]) \in Nat /\ PagesOf(job[p].new) \in Nat
            /\ nfree >= Count(NeedsTable(Current(p), v)) /\ nfree' = nfree - Count(NeedsTable(Current(p), v))
            /\ PagesOf(m) = PagesOf(Current(p)) + 1 + Count(NeedsTable(Current(p), v))
        BY Zenon, <1>0, <1>2, <1>4 DEF Typed
      <3>3. CASE job[p].op = "grow"
        <4>1. PagesOf(s) = PagesOf(m) /\ PagesOf(j.new) = PagesOf(job[p].new) /\ PagesOf(Current(p)) = PagesOf(space[p])
          BY Zenon, <3>3, <2>2, <1>7, <1>9
        <4>2. nfree' \in Nat /\ nfree' + (PagesOf(s) + PagesOf(j.new) + 0 + 1) = nfree + (PagesOf(space[p]) + PagesOf(job[p].new) + 1 + 1)
          <5>1. PICK c \in Nat : c = Count(NeedsTable(Current(p), v))
            BY Zenon, <2>1
          <5>2. nfree >= c /\ nfree' = nfree - c /\ PagesOf(m) = PagesOf(Current(p)) + 1 + c
            BY Zenon, <3>2, <5>1
          <5>3. nfree \in Nat /\ PagesOf(space[p]) \in Nat /\ PagesOf(job[p].new) \in Nat
            BY Zenon, <3>2
          <5>4. QED
            BY <4>1, <5>2, <5>3
        <4>3. QED
          BY Zenon, <3>1, <4>2
      <3>4. CASE job[p].op # "grow"
        <4>1. PagesOf(s) = PagesOf(space[p]) /\ PagesOf(j.new) = PagesOf(m) /\ PagesOf(Current(p)) = PagesOf(job[p].new)
          BY Zenon, <3>4, <2>2, <1>7, <1>9
        <4>2. nfree' \in Nat /\ nfree' + (PagesOf(s) + PagesOf(j.new) + 0 + 1) = nfree + (PagesOf(space[p]) + PagesOf(job[p].new) + 1 + 1)
          <5>1. PICK c \in Nat : c = Count(NeedsTable(Current(p), v))
            BY Zenon, <2>1
          <5>2. nfree >= c /\ nfree' = nfree - c /\ PagesOf(m) = PagesOf(Current(p)) + 1 + c
            BY Zenon, <3>2, <5>1
          <5>3. nfree \in Nat /\ PagesOf(space[p]) \in Nat /\ PagesOf(job[p].new) \in Nat
            BY Zenon, <3>2
          <5>4. QED
            BY <4>1, <5>2, <5>3
        <4>3. QED
          BY Zenon, <3>1, <4>2
      <3>5. QED
        BY Zenon, <3>3, <3>4
  <1>14. QED
    BY Zenon, <1>3, <1>8, <1>12, <1>13, OneStep

\* growproc and fork return.
LEMMA DoneFacts == ASSUME MInv, NEW p \in MProc, mpc[p] = "page", job[p].a >= RoundUp(job[p].target)
                   PROVE  /\ p \in kstack /\ job[p].a = RoundUp(job[p].target) /\ ~ job[p].mem
                          /\ job[p].target \in 0 .. KERNBASE /\ RoundUp(job[p].target) \in Nat
                          /\ IF job[p].op = "grow" THEN Growing("page", space[p], sz[p], job[p])
                             ELSE /\ Building("page", space[p], sz[p], job[p]) /\ job[p].new.pte = Below(job[p].target)
                                  /\ job[p].op \in {"fork", "exec", "stack"}
                                  /\ job[p].op # "fork" => job[p].target < KERNBASE
  <1>1. mpc[p] \in Busy
    BY Zenon DEF Busy
  <1>2. p \in kstack /\ InCall(mpc[p], space[p], sz[p], job[p]) /\ job[p].a \in Nat /\ job[p].target \in 0 .. KERNBASE
        /\ job[p].op \in {"grow", "fork", "exec", "stack"}
    BY Zenon, <1>1, CallFacts
  <1>3. RoundUp(job[p].target) \in Nat
    BY Zenon, <1>2, RoundUpTop
  <1>4. job[p].a = RoundUp(job[p].target) /\ ~ job[p].mem
    BY <1>2, <1>3 DEF InCall
  <1>5. job[p].op # "grow" => Building("page", space[p], sz[p], job[p]) /\ job[p].new.pte = Below(job[p].target)
    BY Zenon, <1>2, <1>4, UptoFacts DEF InCall, Building
  <1>6. QED
    BY Zenon, <1>2, <1>3, <1>4, <1>5 DEF InCall

\* The end of a growproc preserves the invariant.
LEMMA GrownStep == ASSUME MInv, NEW p \in MProc, grown(p) PROVE MInv'
  <1>0. Typed(p) /\ ProcOK(mpc[p], space[p], sz[p], job[p], p \in kstack)
    BY Zenon, Facts
  <1>1. mpc[p] = "page" /\ job[p].op = "grow" /\ job[p].a >= RoundUp(job[p].target)
    BY Zenon DEF grown
  <1>2. /\ p \in kstack /\ job[p].a = RoundUp(job[p].target) /\ ~ job[p].mem /\ job[p].target \in 0 .. KERNBASE
        /\ Growing("page", space[p], sz[p], job[p]) /\ RoundUp(job[p].target) \in Nat
    BY Zenon, <1>1, DoneFacts
  <1>3. job[p].new = NoSpace /\ space[p].pte = Below(job[p].target) /\ space[p].guard \subseteq space[p].pte
    <2>1. space[p].pte = Below(job[p].target) /\ job[p].new = NoSpace
      BY Zenon, <1>2, UptoFacts DEF Growing
    <2>2. RoundUp(sz[p]) \in Nat /\ RoundUp(sz[p]) <= RoundUp(job[p].target) /\ space[p].guard \subseteq Below(sz[p])
      BY Zenon, <1>2, <1>0, RoundUpType DEF Growing, Typed
    <2>3. Below(sz[p]) \subseteq Below(job[p].target)
      BY <1>2, <2>2, Boundary DEF Below, VPage
    <2>4. QED
      BY Zenon, <2>1, <2>2, <2>3
  <1>4. Updated(p, space[p], job[p].target, NoJob, "user", TRUE)
    BY Zenon, <1>2, NoChange DEF grown, Updated, Goto, SetJob
  <1>5. Fits(p, space[p], job[p].target, NoJob, "user", TRUE)
    BY Zenon, <1>1, <1>2, <1>3, <1>0, NoPages DEF Fits, ProcOK, AtRest, Resting, Busy, Typed
  <1>6. ~ mpanic' /\ mpanic' \in BOOLEAN /\ nfree' = nfree /\ nfree \in Nat
    BY Zenon, <1>0 DEF grown, Typed
  <1>7. nfree' + Account(space[p], NoJob, TRUE) = nfree + Account(space[p], job[p], p \in kstack)
    BY Zenon, <1>2, <1>3, <1>6, NoPages DEF Account, Count
  <1>8. QED
    BY Zenon, <1>4, <1>5, <1>6, <1>7, OneStep

\* The end of a fork preserves the invariant, and the parent returns with its image.
LEMMA ForkedStep == ASSUME MInv, NEW p \in MProc, forked(p) PROVE MInv' /\ Returned(p)
  <1>0. Typed(p) /\ ProcOK(mpc[p], space[p], sz[p], job[p], p \in kstack)
    BY Zenon, Facts
  <1> DEFINE s == [job[p].new EXCEPT !.guard = space[p].guard]
  <1>1. mpc[p] = "page" /\ job[p].op = "fork" /\ job[p].a >= RoundUp(job[p].target)
    BY Zenon DEF forked
  <1>2. /\ p \in kstack /\ ~ job[p].mem /\ Building("page", space[p], sz[p], job[p]) /\ job[p].new.pte = Below(job[p].target)
    BY Zenon, <1>1, DoneFacts
  <1>3. space[p].pte = Below(sz[p]) /\ space[p].guard \subseteq space[p].pte /\ job[p].target = sz[p]
    BY Zenon, <1>1, <1>2 DEF Building
  <1>q. PICK q \in MProc : q = job[p].child
    BY Zenon, <1>1 DEF MInv, Children
  <1>4. q \in MProc /\ mpc[q] = "embryo" /\ q # p
    BY Zenon, <1>1, <1>q DEF MInv, Children
  <1>5. q \in kstack /\ space[q] = NoSpace /\ job[q] = NoJob
    <2>1. ProcOK(mpc[q], space[q], sz[q], job[q], q \in kstack)
      BY Zenon, <1>4, Facts
    <2>2. QED
      BY Zenon, <1>4, <2>1 DEF ProcOK, Resting, AtRest
  <1>6. s \in Space /\ s.pte = Below(sz[p]) /\ s.guard \subseteq s.pte /\ PagesOf(s) = PagesOf(job[p].new)
    BY Zenon, <1>2, <1>3, <1>0 DEF Space, PagesOf, Typed
  <1>7. /\ space' = [space EXCEPT ![q] = s] /\ sz' = [sz EXCEPT ![q] = sz[p]] /\ kstack' = kstack /\ mpanic' = FALSE
        /\ mpc' = [mpc EXCEPT ![p] = "user", ![q] = "user"] /\ job' = [job EXCEPT ![p] = NoJob] /\ nfree' = nfree
    BY Zenon, <1>q, <1>0 DEF forked, SetJob, Typed
  <1>8. MTypeOK
    BY Zenon DEF MInv
  <1> HIDE DEF s
  <1>9. /\ mpc'[p] = "user" /\ mpc'[q] = "user" /\ job'[p] = NoJob /\ job'[q] = job[q]
        /\ space'[p] = space[p] /\ space'[q] = s /\ sz'[p] = sz[p] /\ sz'[q] = sz[p]
        /\ p \in kstack' /\ q \in kstack' /\ \A r \in MProc \ {p, q} : Same(r)
    BY Zenon, <1>2, <1>4, <1>5, <1>7, <1>8 DEF MTypeOK, Same
  <1>10. MTypeOK'
    BY Zenon, <1>4, <1>6, <1>7, <1>8, NoPages, <1>0 DEF MTypeOK, Resting, Typed
  <1>11. ProcOK(mpc[p], space[p], sz[p], job[p], p \in kstack)'
    <2>1. AtRest(mpc[p], space[p], sz[p], job[p])'
      BY Zenon, <1>3, <1>9 DEF AtRest
    <2>2. QED
      BY Zenon, <1>9, <2>1 DEF ProcOK, Resting, Busy
  <1>12. ProcOK(mpc[q], space[q], sz[q], job[q], q \in kstack)'
    <2>1. AtRest(mpc[q], space[q], sz[q], job[q])'
      BY Zenon, <1>5, <1>6, <1>9 DEF AtRest
    <2>2. QED
      BY Zenon, <1>9, <2>1 DEF ProcOK, Resting, Busy
  <1>13. Children'
    <2>1. ASSUME NEW r \in MProc, job'[r].op = "fork"
          PROVE  job'[r] = job[r] /\ r # p /\ job[r].child \in MProc /\ mpc'[job[r].child] = "embryo"
      <3>1. r \notin {p, q}
        BY Zenon, <2>1, <1>5, <1>9, NoPages
      <3>2. job'[r] = job[r]
        BY Zenon, <3>1, <1>9 DEF Same
      <3>3. job[r].child \in MProc /\ mpc[job[r].child] = "embryo" /\ job[r].child # q
        BY Zenon, <3>1, <3>2, <2>1, <1>1, <1>q DEF MInv, Children
      <3>4. job[r].child # p
        BY Zenon, <3>3, <1>1
      <3>5. mpc'[job[r].child] = "embryo"
        BY Zenon, <3>3, <3>4, <1>9 DEF Same
      <3>6. QED
        BY Zenon, <3>1, <3>2, <3>3, <3>5
    <2>2. ASSUME NEW r \in MProc, job'[r].op = "fork"
          PROVE  job[r].op = "fork" /\ job'[r].child = job[r].child /\ mpc'[job[r].child] = "embryo"
      BY Zenon, <2>1, <2>2
    <2>3. QED
      BY Zenon, <2>2, ChildrenKept DEF MInv
  <1>14. nfree' + Held(p)' + Held(q)' = nfree + Held(p) + Held(q)
    <2>1. /\ Held(p) = PagesOf(space[p]) + PagesOf(job[p].new) + 1 /\ Held(p)' = PagesOf(space[p]) + 1
          /\ Held(q) = 1 /\ Held(q)' = PagesOf(job[p].new) + 1
      <3>1. /\ Count(p \in kstack) = 1 /\ Count(p \in kstack') = 1 /\ Count(q \in kstack) = 1 /\ Count(q \in kstack') = 1
            /\ Count(NoJob.mem) = 0 /\ Count(job[p].mem) = 0
        BY Zenon, <1>2, <1>5, <1>9, NoPages DEF Count
      <3>2. NoJob.new = NoSpace /\ job'[q] = NoJob
        BY Zenon, <1>5, <1>9, NoPages
      <3>3. /\ Held(p) = PagesOf(space[p]) + PagesOf(job[p].new) + 0 + 1
            /\ Held(p)' = PagesOf(space[p]) + PagesOf(NoSpace) + 0 + 1
            /\ Held(q) = PagesOf(NoSpace) + PagesOf(NoSpace) + 0 + 1
            /\ Held(q)' = PagesOf(s) + PagesOf(NoSpace) + 0 + 1
        BY Zenon, <3>1, <3>2, <1>5, <1>9 DEF Held
      <3>4. QED
        BY <3>3, <1>6, <1>0, NoPages DEF Typed
    <2>2. QED
      BY <2>1, <1>7, <1>0 DEF Typed
  <1>15. ~ mpanic'
    BY Zenon, <1>7
  <1>16. MInv'
    BY Zenon, <1>4, <1>9, <1>10, <1>11, <1>12, <1>13, <1>14, <1>15, TwoStep
  <1>17. QED
    BY Zenon, <1>3, <1>9, <1>16, <1>0 DEF Returned, Typed

\* exec between two segments
LEMMA SegmentFacts == ASSUME MInv, NEW p \in MProc, mpc[p] = "segment"
                      PROVE  /\ mpc[p] \in Busy /\ p \in kstack /\ job[p].op = "exec" /\ ~ job[p].mem
                             /\ job[p].old \in 0 .. KERNBASE - 1 /\ job[p].new.pte = Upto(RoundUp(job[p].old))
                             /\ RoundUp(job[p].old) \in Nat
                             /\ space[p].pte = Below(sz[p]) /\ space[p].guard \subseteq space[p].pte
  <1>1. mpc[p] \in Busy
    BY Zenon DEF Busy
  <1>2. p \in kstack /\ InCall(mpc[p], space[p], sz[p], job[p]) /\ job[p].old \in 0 .. KERNBASE
    BY Zenon, <1>1, CallFacts
  <1>3. ~ job[p].mem /\ Building("segment", space[p], sz[p], job[p])
    BY Zenon, <1>2 DEF InCall, Growing
  <1>4. /\ job[p].op = "exec" /\ job[p].old < KERNBASE /\ job[p].new.pte = Below(job[p].old)
        /\ space[p].pte = Below(sz[p]) /\ space[p].guard \subseteq space[p].pte
    BY Zenon, <1>3 DEF Building
  <1>5. QED
    BY <1>1, <1>2, <1>3, <1>4, UptoFacts, RoundUpTop, Sizes

\* A program header that is accepted: the pages from the old size on are to be mapped.
LEMMA SegmentStep == ASSUME MInv, NEW p \in MProc, mpc[p] = "segment", NEW size \in 0 .. KERNBASE - 1, job[p].old <= size,
                            NEW j, j = [job[p] EXCEPT !.a = RoundUp(job[p].old), !.target = size],
                            SetJob(p, j), Goto(p, "page"), UNCHANGED <<nfree, space, sz, kstack, mpanic>>
                     PROVE  MInv'
  <1>0. Typed(p) /\ ProcOK(mpc[p], space[p], sz[p], job[p], p \in kstack)
    BY Zenon, Facts
  <1>1. RoundUp(job[p].old) \in Nat /\ RoundUp(size) \in Nat /\ RoundUp(job[p].old) <= RoundUp(size) /\ size < KERNBASE
    BY SegmentFacts, RoundUpType, RoundUpMono, Sizes
  <1>2. /\ j \in Job /\ j.op = "exec" /\ j.child = job[p].child /\ j.a = RoundUp(job[p].old) /\ j.old = job[p].old
        /\ j.target = size /\ j.new = job[p].new /\ ~ j.mem
    <2>1. job[p] \in Job /\ job[p].op = "exec" /\ ~ job[p].mem
      BY Zenon, <1>0, SegmentFacts DEF Typed
    <2>2. size \in 0 .. KERNBASE
      BY Sizes
    <2>3. QED
      BY Zenon, <2>1, <2>2, <1>1 DEF Job
  <1>3. Updated(p, space[p], sz[p], j, "page", TRUE)
    BY Zenon, SegmentFacts, NoChange DEF Updated, SetJob, Goto
  <1>4. InCall("page", space[p], sz[p], j)
    BY Zenon, <1>1, <1>2, SegmentFacts DEF InCall, Building
  <1>5. Fits(p, space[p], sz[p], j, "page", TRUE)
    BY Zenon, <1>2, <1>4, <1>0 DEF Fits, ProcOK, Resting, Busy, Typed
  <1>6. ~ mpanic' /\ mpanic' \in BOOLEAN /\ nfree' = nfree /\ nfree \in Nat
    BY Zenon, <1>0 DEF Typed
  <1>7. nfree' + Account(space[p], j, TRUE) = nfree + Account(space[p], job[p], p \in kstack)
    BY Zenon, <1>2, <1>6, SegmentFacts DEF Account, Count
  <1>8. QED
    BY Zenon, <1>3, <1>5, <1>6, <1>7, OneStep

\* The pages of the segment are there when it is loaded.
LEMMA LoadStep == ASSUME MInv, NEW p \in MProc, mpc[p] = "page", job[p].op = "exec", job[p].a >= RoundUp(job[p].target),
                         NEW v \in Below(job[p].target), mpanic' = (mpanic \/ v \notin job[p].new.pte),
                         NEW j, j = [job[p] EXCEPT !.old = job[p].target, !.seg = @ + 1],
                         SetJob(p, j), Goto(p, "segment"), UNCHANGED <<nfree, space, sz, kstack>>
                  PROVE  MInv'
  <1>0. Typed(p) /\ ProcOK(mpc[p], space[p], sz[p], job[p], p \in kstack)
    BY Zenon, Facts
  <1>1. /\ p \in kstack /\ ~ job[p].mem /\ job[p].target \in 0 .. KERNBASE /\ job[p].target < KERNBASE
        /\ Building("page", space[p], sz[p], job[p]) /\ job[p].new.pte = Below(job[p].target)
    BY Zenon, DoneFacts
  <1>2. /\ j \in Job /\ j.op = "exec" /\ j.child = job[p].child /\ j.old = job[p].target
        /\ j.target = job[p].target /\ j.new = job[p].new /\ ~ j.mem
    <2>1. job[p] \in Job /\ job[p].target \in 0 .. KERNBASE /\ ~ job[p].mem /\ job[p].op = "exec"
      BY Zenon, <1>0, <1>1 DEF Typed
    <2>2. job[p].seg + 1 \in Nat
      BY <2>1 DEF Job
    <2>3. QED
      BY Zenon, <2>1, <2>2 DEF Job
  <1>3. Updated(p, space[p], sz[p], j, "segment", TRUE)
    BY Zenon, <1>1, NoChange DEF Updated, SetJob, Goto
  <1>4. InCall("segment", space[p], sz[p], j)
    BY Zenon, <1>1, <1>2 DEF InCall, Building
  <1>5. Fits(p, space[p], sz[p], j, "segment", TRUE)
    BY Zenon, <1>2, <1>4, <1>0 DEF Fits, ProcOK, Resting, Busy, Typed
  <1>6. ~ mpanic' /\ mpanic' \in BOOLEAN /\ nfree' = nfree /\ nfree \in Nat
    BY Zenon, <1>1, <1>0 DEF Typed
  <1>7. nfree' + Account(space[p], j, TRUE) = nfree + Account(space[p], job[p], p \in kstack)
    BY Zenon, <1>1, <1>2, <1>6 DEF Account, Count
  <1>8. QED
    BY Zenon, <1>3, <1>5, <1>6, <1>7, OneStep

\* Two pages for the stack
LEMMA StackStep == ASSUME MInv, NEW p \in MProc, mpc[p] = "segment", NEW bot, bot = RoundUp(job[p].old) * PGSIZE,
                          bot + 2 * PGSIZE < KERNBASE,
                          NEW j, j = [job[p] EXCEPT !.op = "stack", !.a = RoundUp(bot), !.old = bot, !.target = bot + 2 * PGSIZE],
                          SetJob(p, j), Goto(p, "page"), UNCHANGED <<nfree, space, sz, kstack, mpanic>>
                   PROVE  MInv'
  <1>0. Typed(p) /\ ProcOK(mpc[p], space[p], sz[p], job[p], p \in kstack)
    BY Zenon, Facts
  <1>1. PICK k \in Nat : k = RoundUp(job[p].old)
    BY Zenon, SegmentFacts
  <1>2. bot = k * PGSIZE /\ bot + 2 * PGSIZE = (k + 2) * PGSIZE /\ bot \in Nat /\ bot + 2 * PGSIZE \in Nat /\ k + 2 \in Nat
    BY <1>1, Sizes
  <1>3. RoundUp(bot) = k /\ RoundUp(bot + 2 * PGSIZE) = k + 2
    BY Zenon, <1>2, RoundUpPages
  <1>4. bot \in 0 .. KERNBASE /\ bot + 2 * PGSIZE \in 0 .. KERNBASE
    BY <1>2, Sizes
  <1>5. PICK t \in 0 .. KERNBASE : t = bot + 2 * PGSIZE /\ t < KERNBASE
    BY Zenon, <1>4
  <1>6. /\ j \in Job /\ j.op = "stack" /\ j.child = job[p].child /\ j.a = k /\ j.old = bot /\ j.target = t
        /\ j.new = job[p].new /\ ~ j.mem
    BY Zenon, <1>3, <1>4, <1>5, SegmentFacts, <1>0 DEF Job, Typed
  <1>7. Updated(p, space[p], sz[p], j, "page", TRUE)
    BY Zenon, SegmentFacts, NoChange DEF Updated, SetJob, Goto
  <1>8. InCall("page", space[p], sz[p], j)
    BY <1>1, <1>3, <1>5, <1>6, SegmentFacts DEF InCall, Building
  <1>9. Fits(p, space[p], sz[p], j, "page", TRUE)
    BY Zenon, <1>6, <1>8, <1>0 DEF Fits, ProcOK, Resting, Busy, Typed
  <1>10. ~ mpanic' /\ mpanic' \in BOOLEAN /\ nfree' = nfree /\ nfree \in Nat
    BY Zenon, <1>0 DEF Typed
  <1>11. nfree' + Account(space[p], j, TRUE) = nfree + Account(space[p], job[p], p \in kstack)
    BY Zenon, <1>6, <1>10, SegmentFacts DEF Account, Count
  <1>12. QED
    BY Zenon, <1>7, <1>9, <1>10, <1>11, OneStep

\* exec returns: the new image, and the pages of the old one are free.
LEMMA CommitStep == ASSUME MInv, NEW p \in MProc, mpc[p] = "page", job[p].op = "stack", job[p].a >= RoundUp(job[p].target),
                           NEW s, s = clearpteu(job[p].new, RoundUp(job[p].old)), space' = [space EXCEPT ![p] = s],
                           sz' = [sz EXCEPT ![p] = job[p].target], kfree(PagesOf(space[p])),
                           Goto(p, "user"), SetJob(p, NoJob), UNCHANGED <<kstack, mpanic>>
                    PROVE  MInv'
  <1>0. Typed(p) /\ ProcOK(mpc[p], space[p], sz[p], job[p], p \in kstack)
    BY Zenon, Facts
  <1>1. /\ p \in kstack /\ ~ job[p].mem /\ job[p].target \in 0 .. KERNBASE /\ RoundUp(job[p].target) \in Nat
        /\ Building("page", space[p], sz[p], job[p]) /\ job[p].new.pte = Below(job[p].target)
    BY Zenon, DoneFacts
  <1>2. RoundUp(job[p].old) \in VPage /\ RoundUp(job[p].old) \in Below(job[p].target)
    <2>1. job[p].old \in 0 .. KERNBASE
      BY Zenon, <1>0 DEF Job, Typed
    <2>2. RoundUp(job[p].old) \in Nat /\ RoundUp(job[p].target) = RoundUp(job[p].old) + 2
      BY Zenon, <1>1, <2>1, RoundUpTop DEF Building
    <2>3. RoundUp(job[p].old) \in VPage
      BY <1>1, <2>2, RoundUpTop
    <2>4. QED
      BY <2>2, <2>3 DEF Below
  <1>3. s \in Space /\ s.pte = Below(job[p].target) /\ s.guard \subseteq s.pte /\ PagesOf(s) = PagesOf(job[p].new)
    BY Zenon, <1>1, <1>2, <1>0 DEF clearpteu, Space, PagesOf, Typed
  <1>4. Updated(p, s, job[p].target, NoJob, "user", TRUE)
    BY Zenon, <1>1, NoChange DEF Updated, Goto, SetJob
  <1>5. Fits(p, s, job[p].target, NoJob, "user", TRUE)
    BY Zenon, <1>1, <1>3, <1>0, NoPages DEF Fits, ProcOK, AtRest, Resting, Busy, Typed
  <1>6. ~ mpanic' /\ mpanic' \in BOOLEAN /\ nfree' = nfree + PagesOf(space[p]) /\ nfree' \in Nat
    <2>1. nfree \in Nat /\ PagesOf(space[p]) \in Nat /\ mpanic' = FALSE /\ nfree' = nfree + PagesOf(space[p])
      BY Zenon, <1>0 DEF kfree, Typed
    <2>2. QED
      BY Zenon, <2>1, Plus
  <1>7. nfree' + Account(s, NoJob, TRUE) = nfree + Account(space[p], job[p], p \in kstack)
    BY <1>1, <1>3, <1>6, <1>0, NoPages DEF Account, Count, Typed
  <1>8. QED
    BY Zenon, <1>4, <1>5, <1>6, <1>7, OneStep

-----------------------------------------------------------------------------
\* Every step, and what it leaves of a process that returns from a call

Intact(p) == space'[p].pte = Below(sz[p]) /\ sz'[p] = sz[p] /\ space'[p].guard = space[p].guard

Kept == \A p \in MProc : mpc[p] \in Busy /\ mpc'[p] = "user" => Intact(p) \/ (job[p].op \in {"grow", "stack"} /\ sz'[p] = job[p].target)

\* A step that sends p to l
LEMMA KeptMove == ASSUME MInv, NEW p \in MProc, NEW l, mpc' = [mpc EXCEPT ![p] = l],
                         mpc[p] \in Busy => l # "user" \/ Intact(p) \/ (job[p].op \in {"grow", "stack"} /\ sz'[p] = job[p].target)
                  PROVE  Kept
  <1>1. ASSUME NEW q \in MProc, q # p, mpc[q] \in Busy PROVE mpc'[q] # "user"
    <2>1. mpc'[q] = mpc[q]
      BY Zenon, <1>1 DEF MInv, MTypeOK
    <2>2. QED
      BY Zenon, <1>1, <2>1 DEF Busy
  <1>2. mpc'[p] = l
    BY Zenon DEF MInv, MTypeOK
  <1>3. QED
    BY Zenon, <1>1, <1>2 DEF Kept

\* A failing call preserves the invariant and keeps the image.
LEMMA KeptFail == ASSUME MInv, NEW p \in MProc, mpc[p] \in Busy, fail(p) PROVE MInv' /\ Kept
  <1>1. MInv' /\ Returned(p)
    BY Zenon, FailStep
  <1>2. ASSUME NEW q \in MProc, q # p, mpc[q] \in Busy PROVE mpc'[q] # "user"
    <2>1. mpc'[q] \in {"unused", mpc[q]}
      BY Zenon, <1>2 DEF fail
    <2>2. QED
      BY Zenon, <1>2, <2>1 DEF Busy
  <1>3. QED
    BY Zenon, <1>1, <1>2 DEF Kept, Returned, Intact

\* Every step preserves the invariant, and no failing call changes an image.
LEMMA MemoryStep == ASSUME MInv, MNext PROVE MInv' /\ Kept
  <1>1. PICK p \in MProc : \/ grow(p) \/ shrink(p) \/ exec(p) \/ setupkvm(p) \/ allocpage(p) \/ mappages(p) \/ grown(p)
                           \/ forked(p) \/ segment(p) \/ loaduvm(p) \/ stack(p) \/ commit(p) \/ exit(p)
                           \/ \E q \in MProc : fork(p, q) \/ wait(p, q)
    BY Zenon DEF MNext
  <1> DEFINE Goal == MInv' /\ Kept
  <1>2. ASSUME grow(p) PROVE Goal
    <2>1. mpc' = [mpc EXCEPT ![p] = "page"]
      BY Zenon, <1>2 DEF grow, Goto
    <2>2. QED
      BY Zenon, <1>2, <2>1, GrowStep, KeptMove
  <1>3. ASSUME shrink(p) PROVE Goal
    <2>1. mpc[p] \notin Busy /\ \E l : mpc' = [mpc EXCEPT ![p] = l]
      BY Zenon, <1>3 DEF shrink, Goto, Busy
    <2>2. QED
      BY Zenon, <1>3, <2>1, ShrinkStep, KeptMove
  <1>4. ASSUME exec(p) PROVE Goal
    <2>1. mpc' = [mpc EXCEPT ![p] = "dir"]
      BY Zenon, <1>4 DEF exec, Goto
    <2>2. QED
      BY Zenon, <1>4, <2>1, ExecStep, KeptMove
  <1>5. ASSUME setupkvm(p) PROVE Goal
    <2>1. mpc[p] \in Busy
      BY Zenon, <1>5 DEF setupkvm, Busy
    <2>2. CASE nfree = 0
      BY Zenon, <1>5, <2>1, <2>2, KeptFail DEF setupkvm
    <2>3. CASE nfree # 0
      <3>1. \E l \in {"kpt", "page", "segment"} : mpc' = [mpc EXCEPT ![p] = l]
        BY Zenon, <1>5, <2>3 DEF setupkvm, Goto
      <3>2. QED
        BY Zenon, <1>5, <2>3, <3>1, SetupStep, KeptMove
    <2>4. QED
      BY Zenon, <2>2, <2>3
  <1>6. ASSUME allocpage(p) PROVE Goal
    <2>1. mpc[p] \in Busy /\ ~ Missing(p)
      BY Zenon, <1>6, AllocStep DEF allocpage, Busy
    <2>2. CASE nfree = 0
      BY Zenon, <1>6, <2>1, <2>2, KeptFail DEF allocpage
    <2>3. CASE nfree # 0
      <3>1. mpc' = [mpc EXCEPT ![p] = "map"]
        BY Zenon, <1>6, <2>1, <2>3 DEF allocpage, Goto
      <3>2. QED
        BY Zenon, <1>6, <2>3, <3>1, AllocStep, KeptMove
    <2>4. QED
      BY Zenon, <2>2, <2>3
  <1>7. ASSUME mappages(p) PROVE Goal
    <2>1. mpc[p] \in Busy
      BY Zenon, <1>7 DEF mappages, Busy
    <2>2. CASE NeedsTable(Current(p), job[p].a) /\ nfree = 0
      BY Zenon, <1>7, <2>1, <2>2, KeptFail DEF mappages
    <2>3. CASE ~ (NeedsTable(Current(p), job[p].a) /\ nfree = 0)
      <3>1. mpc' = [mpc EXCEPT ![p] = "page"]
        BY Zenon, <1>7, <2>3 DEF mappages, Goto
      <3>2. QED
        BY Zenon, <1>7, <2>3, <3>1, MapStep, KeptMove
    <2>4. QED
      BY Zenon, <2>2, <2>3
  <1>8. ASSUME grown(p) PROVE Goal
    <2>1. mpc' = [mpc EXCEPT ![p] = "user"] /\ job[p].op \in {"grow", "stack"} /\ sz'[p] = job[p].target
      BY Zenon, <1>8 DEF grown, Goto, MInv, MTypeOK
    <2>2. QED
      BY Zenon, <1>8, <2>1, GrownStep, KeptMove
  <1>9. ASSUME forked(p) PROVE Goal
    <2>1. MInv' /\ Returned(p)
      BY Zenon, <1>9, ForkedStep
    <2>2. job[p].child \in MProc /\ mpc[job[p].child] = "embryo"
      BY Zenon, <1>9 DEF forked, MInv, Children
    <2>3. ASSUME NEW q \in MProc, q # p, mpc[q] \in Busy PROVE mpc'[q] # "user"
      <3>1. q # job[p].child
        BY Zenon, <2>2, <2>3 DEF Busy
      <3>2. mpc'[q] = mpc[q]
        BY Zenon, <1>9, <2>2, <2>3, <3>1 DEF forked, MInv, MTypeOK
      <3>3. QED
        BY Zenon, <2>3, <3>2 DEF Busy
    <2>4. QED
      BY Zenon, <2>1, <2>3 DEF Kept, Returned, Intact
  <1>10. ASSUME segment(p) PROVE Goal
    <2>1. mpc[p] = "segment" /\ mpc[p] \in Busy
      BY Zenon, <1>10 DEF segment, Busy
    <2>2. PICK vaddr \in 0 .. Word - 1, memsz \in 1 .. Word - 1 :
              LET end == (vaddr + memsz) % Word
                  size == IF end < job[p].old THEN job[p].old ELSE end
              IN  IF end < vaddr \/ end >= KERNBASE \/ size = 0
                  THEN fail(p)
                  ELSE /\ SetJob(p, [job[p] EXCEPT !.a = IF RoundUp(job[p].old) < RoundUp(size) THEN RoundUp(job[p].old) ELSE RoundUp(size),
                                                   !.target = size])
                       /\ Goto(p, "page")
                       /\ UNCHANGED <<nfree, space, sz, kstack, mpanic>>
      BY Zenon, <1>10 DEF segment
    <2>3. PICK end \in Nat : end = (vaddr + memsz) % Word
      <3>1. vaddr + memsz \in Nat /\ Word \in Nat \ {0}
        BY MemoryAssumption
      <3>2. (vaddr + memsz) % Word \in 0 .. Word - 1
        BY Zenon, <3>1, Division
      <3>3. QED
        BY <3>1, <3>2
    <2> DEFINE size == IF end < job[p].old THEN job[p].old ELSE end
               j == [job[p] EXCEPT !.a = RoundUp(job[p].old), !.target = size]
    <2>4. CASE fail(p)
      BY Zenon, <2>1, <2>4, KeptFail
    <2>5. CASE ~ fail(p)
      <3>1. size \in 0 .. KERNBASE - 1 /\ job[p].old <= size
        <4>1. job[p].old \in 0 .. KERNBASE - 1 /\ ~ (end >= KERNBASE)
          BY Zenon, <2>1, <2>2, <2>3, <2>5, SegmentFacts
        <4>2. QED
          BY <4>1, <2>3, Sizes
      <3>2. RoundUp(job[p].old) \in Nat /\ RoundUp(size) \in Nat /\ RoundUp(job[p].old) <= RoundUp(size)
        <4>1. job[p].old \in 0 .. KERNBASE - 1
          BY Zenon, <2>1, SegmentFacts
        <4>2. job[p].old \in Nat /\ size \in Nat
          BY <4>1, <3>1, Sizes
        <4>3. QED
          BY Zenon, <3>1, <4>2, RoundUpType, RoundUpMono
      <3>3. (IF RoundUp(job[p].old) < RoundUp(size) THEN RoundUp(job[p].old) ELSE RoundUp(size)) = RoundUp(job[p].old)
        BY <3>2
      <3>4. SetJob(p, j) /\ Goto(p, "page") /\ UNCHANGED <<nfree, space, sz, kstack, mpanic>>
        BY Zenon, <2>2, <2>3, <2>5, <3>3
      <3>5. MInv'
        BY Zenon, <2>1, <3>1, <3>4, SegmentStep
      <3>6. QED
        BY Zenon, <3>4, <3>5, KeptMove DEF Goto
    <2>6. QED
      BY Zenon, <2>4, <2>5
  <1>11. ASSUME loaduvm(p) PROVE Goal
    <2>1. mpc[p] = "page" /\ mpc[p] \in Busy /\ job[p].op = "exec" /\ job[p].a >= RoundUp(job[p].target)
      BY Zenon, <1>11 DEF loaduvm, Busy
    <2>2. CASE fail(p)
      BY Zenon, <2>1, <2>2, KeptFail
    <2>3. ASSUME NEW v \in Below(job[p].target), mpanic' = (mpanic \/ v \notin job[p].new.pte),
                 SetJob(p, [job[p] EXCEPT !.old = job[p].target, !.seg = @ + 1]), Goto(p, "segment"),
                 UNCHANGED <<nfree, space, sz, kstack>>
          PROVE  Goal
      <3>1. MInv'
        BY Zenon, <2>1, <2>3, LoadStep
      <3>2. QED
        BY Zenon, <2>3, <3>1, KeptMove DEF Goto
    <2>4. QED
      BY Zenon, <1>11, <2>2, <2>3 DEF loaduvm
  <1>12. ASSUME stack(p) PROVE Goal
    <2>1. mpc[p] = "segment" /\ mpc[p] \in Busy
      BY Zenon, <1>12 DEF stack, Busy
    <2> DEFINE bot == RoundUp(job[p].old) * PGSIZE
               j == [job[p] EXCEPT !.op = "stack", !.a = RoundUp(bot), !.old = bot, !.target = bot + 2 * PGSIZE]
    <2>2. CASE fail(p)
      BY Zenon, <2>1, <2>2, KeptFail
    <2>3. CASE ~ fail(p)
      <3>1. SetJob(p, j) /\ Goto(p, "page") /\ UNCHANGED <<nfree, space, sz, kstack, mpanic>> /\ ~ (bot + 2 * PGSIZE >= KERNBASE)
        BY Zenon, <1>12, <2>3 DEF stack
      <3>2. bot + 2 * PGSIZE < KERNBASE
        <4>1. PICK k \in Nat : k = RoundUp(job[p].old)
          BY Zenon, <2>1, SegmentFacts
        <4>2. QED
          BY <3>1, <4>1, Sizes
      <3>3. MInv'
        BY Zenon, <2>1, <3>1, <3>2, StackStep
      <3>4. QED
        BY Zenon, <3>1, <3>3, KeptMove DEF Goto
    <2>4. QED
      BY Zenon, <2>2, <2>3
  <1>13. ASSUME commit(p) PROVE Goal
    <2> DEFINE s == clearpteu(job[p].new, RoundUp(job[p].old))
    <2>1. mpc[p] = "page" /\ mpc[p] \in Busy /\ job[p].op = "stack" /\ job[p].a >= RoundUp(job[p].target)
      BY Zenon, <1>13 DEF commit, Busy
    <2>2. CASE fail(p)
      BY Zenon, <2>1, <2>2, KeptFail
    <2>3. CASE ~ fail(p)
      <3>1. /\ space' = [space EXCEPT ![p] = s] /\ sz' = [sz EXCEPT ![p] = job[p].target] /\ kfree(PagesOf(space[p]))
            /\ Goto(p, "user") /\ SetJob(p, NoJob) /\ UNCHANGED <<kstack, mpanic>>
        BY Zenon, <1>13, <2>3 DEF commit
      <3>2. MInv'
        BY Zenon, <2>1, <3>1, CommitStep
      <3>3. job[p].op \in {"grow", "stack"} /\ sz'[p] = job[p].target
        BY Zenon, <2>1, <3>1 DEF MInv, MTypeOK
      <3>4. QED
        BY Zenon, <3>1, <3>2, <3>3, KeptMove DEF Goto
    <2>4. QED
      BY Zenon, <2>2, <2>3
  <1>14. ASSUME exit(p) PROVE Goal
    <2>1. mpc' = [mpc EXCEPT ![p] = "zombie"]
      BY Zenon, <1>14 DEF exit, Goto
    <2>2. QED
      BY Zenon, <1>14, <2>1, ExitStep, KeptMove
  <1>15. ASSUME NEW q \in MProc, fork(p, q) PROVE Goal
    <2>1. ASSUME NEW r \in MProc, mpc[r] \in Busy PROVE mpc'[r] # "user"
      <3>1. mpc'[r] \in {"dir", "embryo", mpc[r]}
        BY Zenon, <1>15, <2>1 DEF fork, MInv, MTypeOK
      <3>2. QED
        BY Zenon, <2>1, <3>1 DEF Busy
    <2>2. QED
      BY Zenon, <1>15, <2>1, ForkStep DEF Kept
  <1>16. ASSUME NEW q \in MProc, wait(p, q) PROVE Goal
    <2>1. mpc' = [mpc EXCEPT ![q] = "unused"]
      BY Zenon, <1>16 DEF wait, Goto
    <2>2. QED
      BY Zenon, <1>16, <2>1, WaitStep, KeptMove
  <1> HIDE DEF Goal
  <1>17. Goal
    BY Zenon, <1>1, <1>2, <1>3, <1>4, <1>5, <1>6, <1>7, <1>8, <1>9, <1>10, <1>11, <1>12, <1>13, <1>14, <1>15, <1>16
  <1>18. QED
    BY Zenon, <1>17 DEF Goal

\* userinit: the first process, in one page
LEMMA MemoryInit == ASSUME MInit PROVE MInv
  <1> DEFINE first == CHOOSE p \in MProc : TRUE
  <1>1. first \in MProc
    BY Zenon, MemoryAssumption
  <1>2. /\ space = [p \in MProc |-> IF p = first THEN inituvm ELSE NoSpace] /\ kstack = {first}
        /\ sz = [p \in MProc |-> IF p = first THEN PGSIZE ELSE 0]
        /\ mpc = [p \in MProc |-> IF p = first THEN "user" ELSE "unused"]
        /\ nfree = NPAGES - 5 /\ job = [p \in MProc |-> NoJob] /\ mpanic = FALSE
    BY Zenon DEF MInit
  <1> HIDE DEF first
  <1>3. 0 \in VPage /\ 0 \in PDE
    <2>1. 0 \in VPage
      BY Boundary DEF VPage
    <2>2. 0 \div NPTENTRIES = 0
      BY Sizes
    <2>3. QED
      BY Zenon, <2>1, <2>2 DEF PDE, PDX
  <1>4. /\ inituvm \in Space /\ inituvm.dir /\ inituvm.kpt /\ inituvm.pt = {0} /\ inituvm.pte = {0} /\ inituvm.guard = {}
    BY Zenon, <1>3 DEF inituvm, NoSpace, Space
  <1>5. PagesOf(inituvm) = 4
    <2>1. Cardinality({0}) = 1
      BY Zenon, FS_Singleton
    <2>2. QED
      BY <1>4, <2>1 DEF PagesOf, Count
  <1>6. {0} = Below(PGSIZE) /\ PGSIZE \in 0 .. KERNBASE
    <2>1. PGSIZE <= KERNBASE
      <3>1. PICK k \in Nat \ {0} : KERNBASE = PGSIZE * k
        BY Zenon, Boundary
      <3>2. PICK d \in Nat : k = d + 1
        <4>1. k - 1 \in Nat /\ k = (k - 1) + 1
          BY <3>1
        <4>2. QED
          BY Zenon, <4>1
      <3>3. PGSIZE * k = PGSIZE * d + PGSIZE /\ PGSIZE * d >= 0
        BY <3>2, Sizes
      <3>4. QED
        BY <3>1, <3>3, Sizes
    <2>2. Below(PGSIZE) = Upto(1)
      BY Zenon, RoundUpTop, UptoFacts
    <2>3. Upto(1) = {0}
      BY <1>3, Boundary DEF Upto, VPage
    <2>4. QED
      BY <2>1, <2>2, <2>3, Sizes
  <1>7. MTypeOK
    <2>1. nfree \in Nat
      BY <1>2, MemoryAssumption
    <2>2. 0 \in 0 .. KERNBASE
      BY Sizes
    <2>3. QED
      BY Zenon, <1>1, <1>2, <1>4, <1>6, <2>1, <2>2, NoPages DEF MTypeOK, Resting
  <1>8. ASSUME NEW p \in MProc
        PROVE  /\ p = first => space[p] = inituvm /\ sz[p] = PGSIZE /\ mpc[p] = "user" /\ p \in kstack
               /\ p # first => space[p] = NoSpace /\ sz[p] = 0 /\ mpc[p] = "unused" /\ p \notin kstack
               /\ job[p] = NoJob
    BY Zenon, <1>2
  <1>9. ASSUME NEW p \in MProc PROVE ProcOK(mpc[p], space[p], sz[p], job[p], p \in kstack)
    BY Zenon, <1>4, <1>6, <1>8 DEF ProcOK, AtRest, Resting, Busy
  <1>10. Children
    BY Zenon, <1>8, NoPages DEF Children
  <1>11. PagesConserved
    <2>1. HeldBy \in [MProc -> Nat] /\ Used = Sum(HeldBy) /\ \A p \in MProc : HeldBy[p] = Held(p)
      BY Zenon, <1>7, HeldType DEF HeldOK
    <2>2. HeldBy[first] = 5 /\ \A p \in MProc \ {first} : HeldBy[p] = 0
      BY <2>1, <1>1, <1>5, <1>8, NoPages DEF Held, Count
    <2> DEFINE none == [p \in MProc |-> 0]
    <2>3. none \in [MProc -> Nat] /\ none[first] = 0 /\ \A q \in MProc \ {first} : HeldBy[q] = none[q]
      BY Zenon, <1>1, <2>2
    <2>4. Sum(none) = 0
      <3>1. \A p \in MProc : {p} \X (1 .. none[p]) = {}
        OBVIOUS
      <3>2. UNION {{p} \X (1 .. none[p]) : p \in MProc} = {}
        BY Zenon, <3>1
      <3>3. QED
        BY Zenon, <3>2, FS_EmptySet DEF Sum
    <2> HIDE DEF none
    <2>5. Sum(HeldBy) \in Nat /\ Sum(HeldBy) + none[first] = Sum(none) + HeldBy[first]
      BY Zenon, <1>1, <2>1, <2>3, SumUpdate
    <2>6. QED
      BY <1>2, <2>1, <2>2, <2>3, <2>4, <2>5, Sizes DEF PagesConserved
  <1>12. QED
    BY <1>2, <1>7, <1>9, <1>10, <1>11 DEF MInv, NoMemoryPanic

\* A stuttering step changes nothing.
LEMMA MemoryStutter == ASSUME MInv, UNCHANGED mvars PROVE MInv' /\ Kept
  <1>1. /\ nfree' = nfree /\ space' = space /\ sz' = sz /\ kstack' = kstack /\ mpc' = mpc /\ job' = job /\ mpanic' = mpanic
    BY Zenon DEF mvars
  <1>2. MInv'
    <2>1. MTypeOK' /\ Children' /\ NoMemoryPanic'
      BY Zenon, <1>1 DEF MInv, MTypeOK, Children, NoMemoryPanic
    <2>2. \A p \in MProc : Same(p)
      BY Zenon, <1>1 DEF Same
    <2>3. PagesConserved'
      <3>1. PICK p \in MProc : TRUE
        BY Zenon, MemoryAssumption
      <3>2. nfree' + Held(p)' = nfree + Held(p)
        BY Zenon, <1>1, <2>2, SameHeld
      <3>3. QED
        BY Zenon, <2>1, <2>2, <3>2, Conserve1 DEF MInv
    <2>4. ASSUME NEW p \in MProc PROVE ProcOK(mpc[p], space[p], sz[p], job[p], p \in kstack)'
      BY Zenon, <1>1 DEF MInv, ProcOK
    <2>5. QED
      BY Zenon, <2>1, <2>3, <2>4 DEF MInv
  <1>3. Kept
    BY Zenon, <1>1 DEF Kept, Busy
  <1>4. QED
    BY Zenon, <1>2, <1>3

\* The pages that kalloc hands out are accounted for at every step of sbrk, fork, exec, exit and wait,
\* and a process at rest has those of its size.
THEOREM MemorySafe == MSpec => []MemoryExact
  <1>1. MInv /\ [MNext]_mvars => MInv'
    BY Zenon, MemoryStep, MemoryStutter
  <1>2. MInv => MemoryExact
    <2>1. ASSUME MInv, NEW p \in MProc, mpc[p] = "user" PROVE space[p].pte = Below(sz[p])
      BY Zenon, <2>1, Facts DEF ProcOK, AtRest, Resting
    <2>2. QED
      BY Zenon, <2>1 DEF MInv, MemoryExact, SizeIsMapped
  <1>3. QED
    BY <1>1, <1>2, MemoryInit, PTL DEF MSpec

\* sbrk, fork and exec that fail, at whichever page, leave size, pages and guard page as they were.
THEOREM FailureHarmless == MSpec => FailureKeepsImage
  <1>1. MInv /\ [MNext]_mvars => MInv'
    BY Zenon, MemoryStep, MemoryStutter
  <1>2. MInv /\ [MNext]_mvars => [\A p \in MProc : mpc[p] \in {"dir", "kpt", "page", "map", "segment"} /\ mpc'[p] = "user" =>
            \/ space'[p].pte = Below(sz[p]) /\ sz'[p] = sz[p] /\ space'[p].guard = space[p].guard
            \/ job[p].op \in {"grow", "stack"} /\ sz'[p] = job[p].target]_mvars
    BY Zenon, MemoryStep DEF Kept, Busy, Intact
  <1>3. QED
    BY <1>1, <1>2, MemoryInit, PTL DEF MSpec, FailureKeepsImage
=============================================================================
