------------------------- MODULE WeensyKernelProofs -------------------------
(***************************************************************************)
(* Proofs about WeensyKernel, for any amount of physical and virtual       *)
(* memory, any shape of the page tables, any program and any number of     *)
(* processes: its type invariant, NoFreePageLost, RefcountExact, Isolation *)
(* and KernelMapped; about the MemoryViewer that draws it, DrawingTrue;    *)
(* that programs are loaded in order on a machine where ProgramsFit holds, *)
(* and that the kernel then implements ProcessMemory.                      *)
(***************************************************************************)
EXTENDS MemoryViewer, FiniteSetTheorems, WellFoundedInduction, TLAPS

\* The process whose tables a loop of the kernel is building or releasing.
UnderWay == Op("setup") \/ Op("stack") \/ Op("fork") \/ Op("exit")

\* Where each loop is, which slot it works on, and when it holds a page.
Loops ==
    /\ Op("boot") => /\ kern.pid \in 1..nboot + 1 /\ kern.hold = None
                     /\ \A p \in Pids : p >= kern.pid => state[p] = "FREE"
    /\ Op("setup") \/ Op("stack") =>
           /\ kern.pid \in 1..nboot
           /\ \A p \in Pids : p >= kern.pid => state[p] = "FREE"
           /\ kern.hold \in Allocatable \cup {Null, None}
           /\ kern.hold # None => Busy /\ NeedsPage
           /\ kern.hold \in Allocatable => pages[kern.hold] = 1
    /\ Op("setup") => kern.va <= STACK
    /\ Op("stack") => kern.va >= STACK
    /\ Op("fork") => /\ kern.pid \in 1..NPROC-1 /\ state[kern.pid] = "FREE"
                     /\ kern.hold \in Allocatable \cup {None}
                     /\ kern.hold # None => Busy /\ NeedsPage
    /\ Op("alloc") => /\ kern.pid = current /\ kern.va \in UserVA /\ kern.hold \in Allocatable
                      /\ present(Source) \/ Missing(current, kern.va) # {} =>
                             \A q \in Pages : lost[q] < MaxLost
    /\ Op("exit") => /\ kern.pid \in Pids /\ kern.va >= PROC_START
                     /\ kern.hold \in Allocatable \cup {None}
                     /\ kern.pid = current => kern.hold = None
                     /\ kern.pid # current => state[kern.pid] = "FREE"
    /\ Op("drop") => kern.hold \in Allocatable
    /\ Op("user") \/ Op("idle") \/ Op("panic") => kern.hold = None
    /\ Op("user") \/ Op("fork") \/ Op("alloc") \/ Op("exit") \/ Op("drop") =>
           state[current] = "RUNNABLE"

\* A free slot has no memory, unless a loop is at work on it, or the kernel
\* stopped when one was.
FreeSlotsEmpty ==
  ~Op("panic") =>
    \A p \in Pids :
        state[p] = "FREE" /\ ~(UnderWay /\ p = kern.pid) =>
            /\ root[p] = Null
            /\ \A n \in Nodes : tables[p][n] = Null
            /\ \A va \in VA : map[p][va] = NoEntry

\* What the loops have still to map, and what they have already freed.
LoopProgress ==
    /\ Op("setup") \/ Op("stack") \/ Op("fork") =>
           \A va \in VA : va >= kern.va => map[kern.pid][va] = NoEntry
    /\ Op("exit") => \A va \in UserVA : va < kern.va => map[kern.pid][va] = NoEntry

\* What page tables may refer to, and with which permissions.
KernelEntries == \A p \in Pids, va \in VA :
    va < PROC_START => map[p][va] \in {NoEntry, KernelEntry(va)}

UserEntries == \A p \in Pids, va \in UserVA :
    present(map[p][va]) => user(map[p][va]) /\ map[p][va].pa \in Allocatable \cup {Null}

Nulls ==
    /\ root \in [Pids -> Allocatable \cup {Null}]
    /\ tables \in [Pids -> [Nodes -> Allocatable \cup {Null}]]
    /\ viewer \in Allocatable \cup {Null}

LostBound == \A q \in Pages : lost[q] <= MaxLost + 1

\* Nobody shares a page, but for read-only pages at the same address.
RootsApart == \A p, r \in Pids :
    root[p] # Null =>
        /\ root[p] = root[r] => p = r
        /\ \A n \in Nodes : tables[r][n] # root[p]
        /\ root[p] # viewer /\ root[p] # kern.hold

TablesApart == \A p, r \in Pids, n, m \in Nodes :
    tables[p][n] # Null =>
        /\ tables[p][n] = tables[r][m] => p = r /\ n = m
        /\ tables[p][n] # viewer /\ tables[p][n] # kern.hold

HoldApart == viewer # Null => viewer # kern.hold

LeavesApart == \A p \in Pids, va \in UserVA :
    present(map[p][va]) /\ map[p][va].pa # Null =>
        /\ map[p][va].pa # viewer /\ map[p][va].pa # kern.hold
        /\ \A r \in Pids : /\ map[p][va].pa # root[r]
                           /\ \A n \in Nodes : map[p][va].pa # tables[r][n]

SharedReadOnly == \A p, r \in Pids, va, w \in UserVA :
    present(map[p][va]) /\ map[p][va].pa # Null
      /\ present(map[r][w]) /\ map[r][w].pa = map[p][va].pa /\ <<p, va>> # <<r, w>>
        => w = va /\ ~writable(map[p][va])

\* While process_setup has found memory there are no null entries, and the
\* kernel's part of every process is mapped as far as its loop has come.
NoNullLeaf == \A p \in Pids, va \in UserVA : present(map[p][va]) => map[p][va].pa # Null
KernelPart(p, end) == \A va \in 0..PROC_START-1 : va < end => map[p][va] = KernelEntry(va)
BuildsProcess == kern.op \in {"setup", "stack", "fork"}

Complete ==
    ~starved =>
        /\ NoNullLeaf
        /\ Building => kern.hold # Null
        /\ \A p \in Pids : state[p] # "FREE" => KernelPart(p, PROC_START)
        /\ BuildsProcess => KernelPart(kern.pid, kern.va)

IInv ==
    /\ TypeOK /\ Loops /\ FreeSlotsEmpty /\ LoopProgress
    /\ KernelEntries /\ UserEntries /\ Nulls /\ LostBound
    /\ RootsApart /\ TablesApart /\ HoldApart /\ LeavesApart /\ SharedReadOnly
    /\ RefcountExact /\ NoFreePageLost /\ Complete

-----------------------------------------------------------------------------
(* Facts about the operators.                                              *)

\* Least and Greatest choose what they say from a finite set of numbers.
LEMMA LeastIsLeast ==
    ASSUME NEW S \in SUBSET Nat, IsFiniteSet(S), S # {}
    PROVE  Least(S) \in S /\ \A m \in S : Least(S) <= m
<1> DEFINE Bad == {T \in SUBSET S : T # {} /\ \A n \in T : \E m \in T : ~(n <= m)}
<1>1. Bad = {}
  <2> SUFFICES ASSUME Bad # {} PROVE FALSE
    OBVIOUS
  <2>1. Bad \subseteq FiniteSubsetsOf(S)
    BY FS_FiniteSubsetsOfFinite
  <2>2. PICK T \in Bad : \A U \in Bad : ~(<<U, T>> \in StrictSubsetOrdering(S))
    BY <2>1, FS_StrictSubsetOrderingWellFounded, WFMin
  <2>3. PICK x \in T : TRUE
    OBVIOUS
  <2>4. T \ {x} \notin Bad
    BY <2>2, <2>3 DEF StrictSubsetOrdering
  <2> QED BY <2>2, <2>3, <2>4
<1>2. \E n \in S : \A m \in S : n <= m
  BY <1>1
<1> QED BY <1>2 DEF Least

\* Likewise for the greatest.
LEMMA GreatestIsGreatest ==
    ASSUME NEW S \in SUBSET Nat, IsFiniteSet(S), S # {}
    PROVE  Greatest(S) \in S /\ \A m \in S : m <= Greatest(S)
<1> DEFINE Bad == {T \in SUBSET S : T # {} /\ \A n \in T : \E m \in T : ~(m <= n)}
<1>1. Bad = {}
  <2> SUFFICES ASSUME Bad # {} PROVE FALSE
    OBVIOUS
  <2>1. Bad \subseteq FiniteSubsetsOf(S)
    BY FS_FiniteSubsetsOfFinite
  <2>2. PICK T \in Bad : \A U \in Bad : ~(<<U, T>> \in StrictSubsetOrdering(S))
    BY <2>1, FS_StrictSubsetOrderingWellFounded, WFMin
  <2>3. PICK x \in T : TRUE
    OBVIOUS
  <2>4. T \ {x} \notin Bad
    BY <2>2, <2>3 DEF StrictSubsetOrdering
  <2> QED BY <2>2, <2>3, <2>4
<1>2. \E n \in S : \A m \in S : m <= n
  BY <1>1
<1> QED BY <1>2 DEF Greatest

\* The sizes of memory, and that every index set is finite.
LEMMA Sizes ==
    /\ Null = 0 /\ None = -1 /\ None \notin Pages /\ Null \in Pages /\ Null \notin Allocatable
    /\ None \notin Allocatable /\ Allocatable \subseteq Pages /\ Pages \subseteq Nat
    /\ STACK \in UserVA /\ UserVA \subseteq VA /\ VA \subseteq Nat
    /\ IsFiniteSet(Pages) /\ IsFiniteSet(Pids) /\ IsFiniteSet(UserVA) /\ IsFiniteSet(Nodes)
    /\ 0 \in Pids /\ 1 \in Pids
<1>1. IsFiniteSet(Pages) /\ IsFiniteSet(Pids) /\ IsFiniteSet(UserVA)
  <2>1. NPAGES - 1 \in Int /\ NPROC - 1 \in Int /\ PROC_START \in Int /\ MEMSIZE_VIRTUAL - 1 \in Int
    BY KernelConstants
  <2> QED BY <2>1, FS_Interval DEF Pages, Pids, UserVA
<1> QED BY <1>1, KernelConstants DEF Null, None, Pages, Pids, STACK, UserVA, VA

\* kalloc returns a free page, or Null when it finds none.
LEMMA KallocResult ==
    ASSUME TypeOK
    PROVE  \/ kalloc = Null /\ FreePages = {}
           \/ /\ kalloc \in Allocatable /\ kalloc # Null /\ kalloc \in Pages
              /\ pages[kalloc] = 0 /\ kalloc >= next_alloc_pa
              /\ \A q \in Allocatable : pages[q] = 0 /\ q >= next_alloc_pa => kalloc <= q
<1>1. FreePages \in SUBSET Nat /\ IsFiniteSet(FreePages)
  <2>1. FreePages \in SUBSET Pages
    BY Sizes DEF FreePages
  <2> QED BY <2>1, Sizes, FS_Subset
<1>2. CASE FreePages # {}
  <2>1. Least(FreePages) \in FreePages /\ \A m \in FreePages : Least(FreePages) <= m
    BY <1>1, <1>2, LeastIsLeast
  <2> QED BY <1>2, <2>1, Sizes DEF FreePages, kalloc
<1> QED BY <1>2 DEF kalloc

\* The node that try_map allocates is missing; the one that exit frees is not.
LEMMA ChosenNodes ==
    /\ \A p \in Pids, va \in VA :
           Missing(p, va) # {} => Least(Missing(p, va)) \in Missing(p, va)
    /\ Missing(kern.pid, kern.va) \subseteq Nodes \/ kern.va \notin VA
    /\ TableNodes # {} => Greatest(TableNodes) \in TableNodes
<1>1. ASSUME NEW p \in Pids, NEW va \in VA, Missing(p, va) # {}
      PROVE  Least(Missing(p, va)) \in Missing(p, va)
  <2>1. Missing(p, va) \in SUBSET Nodes
    BY KernelConstants DEF Missing
  <2>2. Missing(p, va) \in SUBSET Nat /\ IsFiniteSet(Missing(p, va))
    BY <2>1, KernelConstants, FS_Subset
  <2> QED BY <1>1, <2>2, LeastIsLeast
<1>2. kern.va \in VA => Missing(kern.pid, kern.va) \subseteq Nodes
  BY KernelConstants DEF Missing
<1>3. ASSUME TableNodes # {} PROVE Greatest(TableNodes) \in TableNodes
  <2>1. TableNodes \in SUBSET Nodes
    BY DEF TableNodes
  <2>2. TableNodes \in SUBSET Nat /\ IsFiniteSet(TableNodes)
    BY <2>1, KernelConstants, FS_Subset
  <2> QED BY <1>3, <2>2, GreatestIsGreatest
<1> QED BY <1>1, <1>2, <1>3

\* fork takes the first free slot, schedule a runnable one.
LEMMA ChosenSlots ==
    ASSUME TypeOK
    PROVE  /\ FreeSlots # {} => Least(FreeSlots) \in 1..NPROC-1 /\ state[Least(FreeSlots)] = "FREE"
<1>1. FreeSlots \in SUBSET Pids /\ FreeSlots \in SUBSET Nat
  BY KernelConstants DEF FreeSlots, Pids
<1>2. IsFiniteSet(FreeSlots)
  BY <1>1, Sizes, FS_Subset
<1>3. ASSUME FreeSlots # {} PROVE Least(FreeSlots) \in FreeSlots
  BY <1>1, <1>2, <1>3, LeastIsLeast
<1> QED BY <1>3 DEF FreeSlots

\* schedule picks a runnable process whenever there is one.
LEMMA NextRunnableIsRunnable ==
    ASSUME NEW st \in [Pids -> {"FREE", "RUNNABLE", "BROKEN"}], NEW from \in Pids,
           NEW p \in Pids, st[p] = "RUNNABLE"
    PROVE  NextRunnable(from, st) \in Pids /\ st[NextRunnable(from, st)] = "RUNNABLE"
<1> DEFINE S == {Distance(from, r) : r \in {r \in Pids : st[r] = "RUNNABLE"}}
<1>1. \A r \in Pids : Distance(from, r) \in 0..NPROC-1
  BY KernelConstants DEF Distance, Pids
<1>2. S \in SUBSET (0..NPROC-1) /\ S # {}
  BY <1>1
<1>3. S \in SUBSET Nat /\ IsFiniteSet(S)
  <2>1. IsFiniteSet(0..NPROC-1)
    BY Sizes DEF Pids
  <2>2. IsFiniteSet(S)
    <3> HIDE DEF S
    <3> QED BY <1>2, <2>1, FS_Subset
  <2> QED BY <1>2, <2>2, KernelConstants
<1>4. Least(S) \in S /\ \A m \in S : Least(S) <= m
  BY <1>2, <1>3, LeastIsLeast
<1>5. PICK r \in Pids : st[r] = "RUNNABLE" /\ Distance(from, r) = Least(S)
  BY <1>4
<1>6. \A u \in Pids : st[u] = "RUNNABLE" => Distance(from, r) <= Distance(from, u)
  BY <1>4, <1>5
<1> HIDE DEF S
<1> QED BY <1>5, <1>6 DEF NextRunnable

\* What a call of kalloc does to the memory, and what kfree does.
LEMMA KallocEffect ==
    ASSUME TypeOK, NEW v \in Value, Kalloc(kalloc, v)
    PROVE  /\ pages' \in [Pages -> 0..255] /\ next_alloc_pa' \in 0..NPAGES
           /\ mem' \in [Pages -> Value]
           /\ \/ kalloc = Null /\ pages' = pages
              \/ /\ kalloc \in Allocatable /\ kalloc \in Pages /\ kalloc # Null
                 /\ pages[kalloc] = 0 /\ pages' = [pages EXCEPT ![kalloc] = 1]
<1>1. pages' \in [Pages -> 0..255] /\ mem' \in [Pages -> Value]
  BY KallocResult, Sizes DEF Kalloc, TypeOK
<1>2. next_alloc_pa' \in 0..NPAGES
  <2>1. NPAGES \in 0..NPAGES /\ \A q \in Pages : q + 1 \in 0..NPAGES
    BY KernelConstants DEF Pages
  <2> QED BY <2>1, KallocResult DEF Kalloc
<1> QED BY <1>1, <1>2, KallocResult DEF Kalloc

\* What kfree does to the memory.
LEMMA KfreeEffect ==
    ASSUME TypeOK, NEW pa \in Pages, Kfree(pa)
    PROVE  /\ pages' \in [Pages -> 0..255] /\ next_alloc_pa' \in 0..NPAGES
           /\ mem' \in [Pages -> Value]
           /\ pages' = IF pa \in Allocatable /\ pages[pa] # 0
                       THEN [pages EXCEPT ![pa] = @ - 1] ELSE pages
<1>1. pages' \in [Pages -> 0..255]
  BY Sizes DEF Kfree, TypeOK
<1>2. next_alloc_pa' \in 0..NPAGES
  BY KernelConstants DEF Kfree, TypeOK, Pages
<1>3. mem' \in [Pages -> Value]
  BY Sizes DEF Kfree, TypeOK, Value
<1> QED BY <1>1, <1>2, <1>3 DEF Kfree

-----------------------------------------------------------------------------
(* What a building loop puts into the page table.                          *)

\* A kernel entry that is present is writable, and only the console is the user's.
LEMMA KernelEntryFacts ==
    ASSUME NEW va \in VA, va < PROC_START
    PROVE  /\ KernelEntry(va) \in [pa: Pages, perm: Perm]
           /\ present(KernelEntry(va)) => writable(KernelEntry(va))
           /\ user(KernelEntry(va)) => va = CONSOLE
           /\ KernelEntry(va).perm = {} => KernelEntry(va) = NoEntry
BY KernelConstants
   DEF KernelEntry, NoEntry, Perm, PWU, Pages, VA, Null, present, writable, user

\* A hole is not present.
LEMMA NoEntryFacts ==
    NoEntry \in [pa: Pages, perm: Perm] /\ ~present(NoEntry) /\ NoEntry.perm = {}
BY Sizes DEF NoEntry, Perm, present

\* The four kinds of entry: a hole, a kernel address, a shared or kernel entry
\* of the parent, and the page in hand.
EmptyEntry  == Op("setup") /\ Entry = NoEntry /\ kern.hold = None
KernelCopy  == /\ Op("setup") /\ kern.va < PROC_START /\ kern.hold = None
               /\ Entry = KernelEntry(kern.va)
ParentEntry == Op("fork") /\ Entry = Source /\ kern.hold = None /\ ~NeedsPage
HeldEntry   == /\ kern.va \in UserVA /\ kern.hold \in Pages
               /\ Entry.pa = kern.hold /\ user(Entry)
               /\ Op("fork") \/ Op("alloc") => writable(Entry)

\* Every entry a building loop writes is of one of the four kinds.
LEMMA EntryForm ==
    ASSUME TypeOK, Loops, KernelEntries, Busy, HasPage
    PROVE  /\ Entry \in [pa: Pages, perm: Perm]
           /\ kern.va \in VA /\ kern.pid \in Pids
           /\ EmptyEntry \/ KernelCopy \/ ParentEntry \/ HeldEntry
<1>1. kern.va \in VA /\ kern.pid \in Pids
  BY KernelConstants DEF TypeOK, Loops, Busy, Building, Op, End, STACK, VA, Pids
<1>2. CASE Op("setup") /\ kern.va < PROC_START
  <2>1. SegmentOf(kern.va) = {}
    BY <1>2, KernelConstants DEF SegmentOf, UserVA, TypeOK
  <2>2. ~NeedsPage /\ kern.hold = None
    BY <1>2, <2>1 DEF NeedsPage, Loops, Op
  <2>3. Entry = KernelEntry(kern.va)
    BY <1>1, <1>2, KernelConstants DEF Entry, Op, VA
  <2> QED BY <1>1, <1>2, <2>2, <2>3, KernelEntryFacts DEF KernelCopy
<1>3. CASE Op("setup") /\ kern.va >= PROC_START
  <2>1. kern.va \in UserVA
    BY <1>1, <1>3 DEF VA, UserVA
  <2>2. Entry = IF NeedsPage
             THEN [pa |-> kern.hold,
                   perm |-> IF \E s \in SegmentOf(kern.va) : s.writable
                            THEN PWU ELSE {"P", "U"}]
             ELSE NoEntry
    BY <1>1, <1>3, KernelConstants DEF Entry, Op, VA
  <2>3. CASE NeedsPage
    <3>1. kern.hold \in Pages /\ kern.hold # None
      BY <1>3, <2>3, Sizes DEF HasPage, TypeOK
    <3>2. Entry.pa = kern.hold /\ Entry.perm \in {PWU, {"P", "U"}} /\ Entry \in [pa: Pages, perm: Perm]
      BY <2>2, <2>3, <3>1 DEF Perm, PWU
    <3>3. user(Entry)
      BY <3>2 DEF user, PWU
    <3> QED BY <1>1, <1>3, <2>1, <3>1, <3>2, <3>3 DEF HeldEntry, Op
  <2>4. CASE ~NeedsPage
    BY <1>1, <1>3, <2>2, <2>4, NoEntryFacts DEF EmptyEntry, Loops
  <2> QED BY <2>3, <2>4
<1>4. CASE Op("stack") \/ Op("alloc")
  <2>1. Entry = [pa |-> kern.hold, perm |-> PWU]
    BY <1>4 DEF Entry, Op
  <2>2. kern.hold \in Pages
    BY <1>4, Sizes DEF HasPage, NeedsPage, Op, TypeOK, Loops
  <2>3. kern.va \in UserVA
    BY <1>1, <1>4, KernelConstants DEF Loops, STACK, UserVA, VA
  <2>4. Entry.pa = kern.hold /\ Entry.perm = PWU /\ Entry \in [pa: Pages, perm: Perm]
    BY <2>1, <2>2 DEF Perm, PWU
  <2> QED BY <1>1, <2>2, <2>3, <2>4 DEF HeldEntry, user, writable, PWU
<1>5. CASE Op("fork")
  <2>1. Entry = IF NeedsPage THEN [Source EXCEPT !.pa = kern.hold] ELSE Source
    BY <1>5 DEF Entry, Op
  <2>2. Source \in [pa: Pages, perm: Perm]
    BY <1>1 DEF Source, TypeOK
  <2>3. CASE NeedsPage
    <3>1. user(Source) /\ writable(Source) /\ kern.va # CONSOLE
      BY <1>5, <2>3 DEF NeedsPage, Op
    <3>2. kern.va \in UserVA
      <4>1. ASSUME kern.va < PROC_START PROVE FALSE
        <5>1. Source \in {NoEntry, KernelEntry(kern.va)}
          BY <1>1, <4>1 DEF KernelEntries, Source, TypeOK
        <5> QED BY <1>1, <3>1, <4>1, <5>1, KernelEntryFacts, NoEntryFacts DEF user, present
      <4> QED BY <1>1, <4>1, KernelConstants DEF VA, UserVA
    <3>3. kern.hold \in Pages
      BY <2>3, Sizes DEF HasPage, TypeOK
    <3>4. Entry.pa = kern.hold /\ Entry.perm = Source.perm /\ Entry \in [pa: Pages, perm: Perm]
      BY <2>1, <2>2, <2>3, <3>3
    <3> QED BY <1>1, <3>1, <3>2, <3>3, <3>4 DEF HeldEntry, user, writable
  <2>4. CASE ~NeedsPage
    BY <1>1, <1>5, <2>1, <2>2, <2>4 DEF ParentEntry, Loops
  <2> QED BY <2>3, <2>4
<1> QED BY <1>1, <1>2, <1>3, <1>4, <1>5, KernelConstants DEF Busy, Building, VA

-----------------------------------------------------------------------------
(* Types.                                                                  *)

KernRecords ==
    [op: {"boot", "setup", "stack", "fork", "alloc", "exit", "drop", "user", "idle", "panic"},
     pid: 0..NPROC, va: 0..MEMSIZE_VIRTUAL, hold: Pages \cup {None}]

\* Every way the kernel has of setting kern gives a record of its type.
LEMMA GoType ==
    ASSUME NEW op \in {"boot", "setup", "stack", "fork", "alloc", "exit", "drop", "user",
                       "idle", "panic"},
           NEW pid \in 0..NPROC, NEW va \in 0..MEMSIZE_VIRTUAL, NEW hold \in Pages \cup {None},
           Go(op, pid, va, hold)
    PROVE  kern' \in KernRecords
BY DEF Go, KernRecords

\* schedule returns to a runnable process or to the idle loop, with nothing in hand.
LEMMA ScheduleType ==
    ASSUME NEW st \in [Pids -> {"FREE", "RUNNABLE", "BROKEN"}], current \in Pids, schedule(st)
    PROVE  /\ current' \in Pids /\ kern' \in KernRecords /\ kern'.hold = None
           /\ kern'.op \in {"user", "idle"}
           /\ kern'.op = "user" => st[current'] = "RUNNABLE"
<1>1. Null \in 0..NPROC /\ 0 \in 0..MEMSIZE_VIRTUAL /\ None \in Pages \cup {None}
  BY KernelConstants DEF Null
<1>2. CASE \E q \in Pids : st[q] = "RUNNABLE"
  <2>1. current' = NextRunnable(current, st) /\ Go("user", Null, 0, None)
    BY <1>2 DEF schedule, ReturnToUser
  <2>2. current' \in Pids /\ st[current'] = "RUNNABLE"
    BY <1>2, <2>1, NextRunnableIsRunnable
  <2> QED BY <1>1, <2>1, <2>2, GoType DEF Go
<1>3. CASE ~(\E q \in Pids : st[q] = "RUNNABLE")
  <2>1. current' = current /\ Go("idle", Null, 0, None)
    BY <1>3 DEF schedule
  <2> QED BY <1>1, <2>1, GoType DEF Go
<1> QED BY <1>2, <1>3

\* Bounds of the small numbers.
LEMMA SmallFacts ==
    /\ Null \in 0..NPROC /\ 0 \in 0..MEMSIZE_VIRTUAL /\ PROC_START \in 0..MEMSIZE_VIRTUAL
    /\ None \in Pages \cup {None} /\ {"zero", "int3", "text", "data"} \subseteq Value
    /\ UserValue \subseteq Value /\ Pids \subseteq 0..NPROC /\ VA \subseteq 0..MEMSIZE_VIRTUAL
    /\ MaxLost \in Nat /\ MaxLost + 2 <= 255
    /\ \A p \in Pids : p + 1 \in 0..NPROC
    /\ \A va \in VA : va + 1 \in 0..MEMSIZE_VIRTUAL
BY KernelConstants DEF Null, Pids, VA, Value

\* A loop works on a process slot, and at an address below its end.
LEMMA LoopFacts ==
    ASSUME TypeOK, Loops
    PROVE  /\ kern.va \in 0..MEMSIZE_VIRTUAL /\ kern.pid \in 0..NPROC
           /\ kern.hold \in Pages \cup {None}
           /\ kern.va < MEMSIZE_VIRTUAL => kern.va \in VA
           /\ Busy => kern.va \in VA
           /\ UnderWay \/ Building => kern.pid \in Pids
           /\ Op("boot") /\ kern.pid <= nboot => kern.pid \in Pids
<1>1. nboot \in 1..NPROC-1
  BY KernelConstants DEF TypeOK
<1>2. kern.va \in 0..MEMSIZE_VIRTUAL /\ kern.pid \in 0..NPROC /\ kern.hold \in Pages \cup {None}
  BY DEF TypeOK
<1>3. kern.va < MEMSIZE_VIRTUAL => kern.va \in VA
  BY <1>2, KernelConstants DEF VA
<1>4. Busy => kern.va < MEMSIZE_VIRTUAL
  BY <1>2, KernelConstants DEF Busy, End, STACK
<1>5. UnderWay \/ Building => kern.pid \in Pids
  <2>1. Op("setup") \/ Op("stack") => kern.pid \in 1..nboot
    BY DEF Loops
  <2>2. Op("fork") => kern.pid \in 1..NPROC-1
    BY DEF Loops
  <2>3. Op("alloc") => kern.pid = current /\ current \in Pids
    BY DEF Loops, TypeOK
  <2>4. Op("exit") => kern.pid \in Pids
    BY DEF Loops
  <2> QED BY <1>1, <1>2, <2>1, <2>2, <2>3, <2>4, KernelConstants DEF UnderWay, Building, Pids
<1>6. Op("boot") /\ kern.pid <= nboot => kern.pid \in Pids
  BY <1>1, <1>2, KernelConstants DEF Pids
<1> QED BY <1>2, <1>3, <1>4, <1>5, <1>6

\* The count of lost references can still grow by one.
LEMMA MoreLost ==
    ASSUME TypeOK, LostBound
    PROVE  \A q \in Pages : lost[q] + 1 \in 0..255
<1> SUFFICES ASSUME NEW q \in Pages PROVE lost[q] + 1 \in 0..255
  OBVIOUS
<1>1. lost[q] \in 0..255 /\ lost[q] <= MaxLost + 1
  BY DEF TypeOK, LostBound
<1> QED BY <1>1, SmallFacts

\* Every step keeps the types of the variables.
LEMMA TypeOKStep ==
    TypeOK /\ Loops /\ KernelEntries /\ LostBound /\ [Next]_vars => TypeOK'
<1> SUFFICES ASSUME TypeOK, Loops, KernelEntries, LostBound, [Next]_vars PROVE TypeOK'
  OBVIOUS
<1> USE Sizes, SmallFacts
<1>0. kern \in KernRecords
  BY DEF TypeOK, KernRecords
<1>1. CASE SetupStart
  <2>1. pages' \in [Pages -> 0..255] /\ next_alloc_pa' \in 0..NPAGES /\ mem' \in [Pages -> Value]
        /\ kalloc \in Pages
    BY <1>1, KallocEffect DEF SetupStart
  <2>2. kern.pid \in Pids /\ kern.hold = None
    BY <1>1, LoopFacts DEF SetupStart, Loops
  <2>3. kern' \in KernRecords
    BY <1>0, <1>1, <2>2 DEF SetupStart, Go, KernRecords
  <2> QED BY <1>1, <2>1, <2>2, <2>3 DEF SetupStart, TypeOK, KernRecords
<1>2. CASE Load
  <2>1. mem' \in [Pages -> Value]
    BY <1>2, ZenonT(30) DEF Load, TypeOK
  <2>2. kern' \in KernRecords
    BY <1>0, <1>2 DEF Load, Go, KernRecords
  <2> QED BY <1>2, <2>1, <2>2 DEF Load, TypeOK, KernRecords, procs
<1>3. CASE SetupDone
  <2>1. kern.pid \in Pids
    BY <1>3, KernelConstants DEF SetupDone, Loops, TypeOK, Pids
  <2>2. kern' \in KernRecords
    BY <1>3, <2>1 DEF SetupDone, Go, KernRecords
  <2> QED BY <1>3, <2>1, <2>2 DEF SetupDone, TypeOK, KernRecords, memory
<1>4. CASE BootDone
  <2>1. kern' \in KernRecords /\ current' \in Pids
    BY <1>4 DEF BootDone, Go, ReturnToUser, KernRecords, TypeOK
  <2> QED BY <1>4, <2>1 DEF BootDone, TypeOK, KernRecords, memory, procs
<1>5. CASE TakePage
  <2>1. kern.va \in VA /\ kern.pid \in Pids
    BY <1>5, LoopFacts DEF TakePage, Busy
  <2>2. (IF Op("fork") THEN mem[Source.pa] ELSE "int3") \in Value
    <3>1. Source \in [pa: Pages, perm: Perm] /\ mem \in [Pages -> Value]
      BY <2>1 DEF TypeOK, Source
    <3> QED BY <3>1
  <2>3. pages' \in [Pages -> 0..255] /\ next_alloc_pa' \in 0..NPAGES /\ mem' \in [Pages -> Value]
        /\ kalloc \in Pages
    BY <1>5, <2>2, KallocEffect DEF TakePage
  <2>4. kern' \in KernRecords
    BY <1>0, <1>5, <2>1, <2>3 DEF TakePage, FailFork, Go, KernRecords
  <2>5. starved' \in BOOLEAN
    BY <1>5 DEF TakePage
  <2> QED BY <1>5, <2>3, <2>4, <2>5 DEF TakePage, TypeOK, KernRecords, procs
<1>6. CASE GrowTable
  <2>1. pages' \in [Pages -> 0..255] /\ next_alloc_pa' \in 0..NPAGES /\ mem' \in [Pages -> Value]
        /\ kalloc \in Pages
    BY <1>6, KallocEffect DEF GrowTable
  <2>2. kern.va \in VA /\ kern.pid \in Pids
    BY <1>6, EntryForm DEF GrowTable
  <2>3. Least(Missing(kern.pid, kern.va)) \in Nodes
    BY <1>6, <2>2, ChosenNodes DEF GrowTable, NeedsTable, Missing
  <2>4. tables' \in [Pids -> [Nodes -> Pages]]
    BY <1>6, <2>1, <2>2, <2>3 DEF GrowTable, TypeOK
  <2>5. kern' \in KernRecords
    <3>1. \/ kern' = kern
          \/ Go("exit", kern.pid, PROC_START, kern.hold)
          \/ Go("user", Null, 0, None)
          \/ kern' = [kern EXCEPT !.va = @ + 1, !.hold = None]
      BY <1>6 DEF GrowTable, FailFork, Advance, ReturnToUser
    <3>2. kern.pid \in 0..NPROC /\ kern.va + 1 \in 0..MEMSIZE_VIRTUAL /\ kern.hold \in Pages \cup {None}
      BY <2>2, LoopFacts
    <3>3. CASE kern' = kern
      BY <1>0, <3>3
    <3>4. CASE Go("exit", kern.pid, PROC_START, kern.hold)
      BY <3>2, <3>4, GoType
    <3>5. CASE Go("user", Null, 0, None)
      BY <3>5, GoType
    <3>6. CASE kern' = [kern EXCEPT !.va = @ + 1, !.hold = None]
      BY <1>0, <3>2, <3>6 DEF KernRecords
    <3> QED BY <3>1, <3>3, <3>4, <3>5, <3>6
  <2>6. lost' \in [Pages -> 0..255]
    <3>1. \A q \in Pages : lost[q] + 1 \in 0..255
      BY MoreLost
    <3> QED BY <1>6, <3>1 DEF GrowTable, Lose, TypeOK
  <2>7. starved' \in BOOLEAN
    BY <1>6 DEF GrowTable, TypeOK
  <2> QED BY <1>6, <2>1, <2>4, <2>5, <2>6, <2>7 DEF GrowTable, TypeOK, KernRecords
<1>7. CASE Install
  <2>1. kern.va \in VA /\ kern.pid \in Pids /\ Entry \in [pa: Pages, perm: Perm]
    BY <1>7, EntryForm DEF Install
  <2>2. map' \in [Pids -> [VA -> [pa: Pages, perm: Perm]]]
    BY <1>7, <2>1 DEF Install, TypeOK
  <2>3. kern' \in KernRecords
    <3>1. Go("user", Null, 0, None) \/ kern' = [kern EXCEPT !.va = @ + 1, !.hold = None]
      BY <1>7 DEF Install, Advance, ReturnToUser
    <3>2. kern.va + 1 \in 0..MEMSIZE_VIRTUAL
      BY <2>1
    <3>3. CASE Go("user", Null, 0, None)
      BY <3>3, GoType
    <3>4. CASE kern' = [kern EXCEPT !.va = @ + 1, !.hold = None]
      BY <1>0, <3>2, <3>4 DEF KernRecords
    <3> QED BY <3>1, <3>3, <3>4
  <2>4. Source.pa \in Pages
    BY <2>1 DEF Source, TypeOK
  <2>5. lost' \in [Pages -> 0..255]
    <3>1. \A q \in Pages : lost[q] + 1 \in 0..255
      BY MoreLost
    <3>2. lost' = lost \/ lost' = [lost EXCEPT ![Source.pa] = @ + 1]
      BY <1>7 DEF Install, Lose
    <3>3. lost \in [Pages -> 0..255]
      BY DEF TypeOK
    <3>4. lost[Source.pa] + 1 \in 0..255
      BY <2>4, <3>1
    <3> QED BY <2>4, <3>2, <3>3, <3>4
  <2>6. pages' \in [Pages -> 0..255]
    <3>1. \A i \in 0..255 : (i + 1) % 256 \in 0..255
      OBVIOUS
    <3>2. pages' = pages \/ pages' = [pages EXCEPT ![Source.pa] = (@ + 1) % 256]
      BY <1>7 DEF Install
    <3>3. pages \in [Pages -> 0..255]
      BY DEF TypeOK
    <3>4. pages[Source.pa] \in 0..255
      BY <2>4, <3>3
    <3>5. (pages[Source.pa] + 1) % 256 \in 0..255
      BY <3>1, <3>4
    <3>6. PICK c \in 0..255 : c = (pages[Source.pa] + 1) % 256
      BY <3>5
    <3>7. pages' = pages \/ pages' = [pages EXCEPT ![Source.pa] = c]
      BY <3>2, <3>6
    <3> QED BY <3>3, <3>7
  <2> QED BY <1>7, <2>2, <2>3, <2>5, <2>6 DEF Install, TypeOK, KernRecords
<1>8. CASE ForkDone
  <2>1. kern' \in KernRecords /\ kern.pid \in Pids
    BY <1>8, KernelConstants DEF ForkDone, ReturnToUser, Go, KernRecords, Loops, Pids
  <2> QED BY <1>8, <2>1 DEF ForkDone, TypeOK, KernRecords, memory
<1>9. CASE FreeUserPage
  <2>1. kern.va \in VA /\ kern.pid \in Pids
    BY <1>9, LoopFacts DEF FreeUserPage, UnderWay
  <2>2. map[kern.pid][kern.va].pa \in Pages
    BY <2>1 DEF TypeOK
  <2>3. pages' \in [Pages -> 0..255] /\ next_alloc_pa' \in 0..NPAGES /\ mem' \in [Pages -> Value]
    BY <1>9, <2>2, KfreeEffect DEF FreeUserPage, memory, TypeOK
  <2>4. map' \in [Pids -> [VA -> [pa: Pages, perm: Perm]]]
    BY <1>9, <2>1, NoEntryFacts DEF FreeUserPage, TypeOK
  <2>5. kern' \in KernRecords
    BY <1>0, <1>9, <2>1 DEF FreeUserPage, KernRecords
  <2> QED BY <1>9, <2>3, <2>4, <2>5 DEF FreeUserPage, TypeOK, KernRecords
<1>10. CASE FreeTable
  <2>1. kern.pid \in Pids /\ Greatest(TableNodes) \in Nodes
    BY <1>10, ChosenNodes DEF FreeTable, Loops, TableNodes
  <2>2. tables[kern.pid][Greatest(TableNodes)] \in Pages
    BY <2>1 DEF TypeOK
  <2>3. pages' \in [Pages -> 0..255] /\ next_alloc_pa' \in 0..NPAGES /\ mem' \in [Pages -> Value]
    BY <1>10, <2>2, KfreeEffect DEF FreeTable
  <2> QED BY <1>10, <2>1, <2>3 DEF FreeTable, TypeOK
<1>11. CASE FreeRoot
  <2>1. kern.pid \in Pids /\ root[kern.pid] \in Pages
    BY <1>11 DEF FreeRoot, Loops, TypeOK
  <2>2. pages' \in [Pages -> 0..255] /\ next_alloc_pa' \in 0..NPAGES /\ mem' \in [Pages -> Value]
    BY <1>11, <2>1, KfreeEffect DEF FreeRoot
  <2>3. state' \in [Pids -> {"FREE", "RUNNABLE", "BROKEN"}]
    BY <1>11 DEF FreeRoot, TypeOK
  <2>4. root' \in [Pids -> Pages] /\ map' \in [Pids -> [VA -> [pa: Pages, perm: Perm]]]
    BY <1>11, <2>1, NoEntryFacts DEF FreeRoot, TypeOK
  <2>5. current \in Pids
    BY DEF TypeOK
  <2>6. kern' \in KernRecords /\ current' \in Pids
    <3>1. CASE kern.pid = current
      BY <1>11, <2>3, <2>5, <3>1, ScheduleType DEF FreeRoot
    <3>2. CASE kern.pid # current
      BY <1>0, <1>11, <2>5, <3>2 DEF FreeRoot, ReturnToUser, Go, KernRecords
    <3> QED BY <3>1, <3>2
  <2> QED BY <1>11, <2>2, <2>3, <2>4, <2>6 DEF FreeRoot, TypeOK, KernRecords
<1>12. CASE DropHeld
  <2>1. pages' \in [Pages -> 0..255] /\ next_alloc_pa' \in 0..NPAGES /\ mem' \in [Pages -> Value]
    BY <1>12, KfreeEffect DEF DropHeld, Loops
  <2>2. kern' \in KernRecords
    BY <1>12 DEF DropHeld, ReturnToUser, Go, KernRecords
  <2> QED BY <1>12, <2>1, <2>2 DEF DropHeld, TypeOK, KernRecords, procs
<1>13. CASE ForkStart
  <2>1. CASE FreeSlots = {}
    BY <1>13, <2>1 DEF ForkStart, TypeOK, memory
  <2>2. CASE FreeSlots # {}
    <3>1. pages' \in [Pages -> 0..255] /\ next_alloc_pa' \in 0..NPAGES /\ mem' \in [Pages -> Value]
          /\ kalloc \in Pages
      BY <1>13, <2>2, KallocEffect DEF ForkStart
    <3>2. Least(FreeSlots) \in Pids
      BY <2>2, ChosenSlots, KernelConstants DEF Pids
    <3>3. kern' \in KernRecords
      <4>1. CASE kalloc = Null
        BY <1>0, <1>13, <2>2, <4>1 DEF ForkStart
      <4>2. CASE kalloc # Null
        <5>1. Go("fork", Least(FreeSlots), 0, None)
          BY <1>13, <2>2, <4>2 DEF ForkStart
        <5> QED BY <3>2, <5>1, GoType
      <4> QED BY <4>1, <4>2
    <3>4. root' \in [Pids -> Pages]
      BY <1>13, <2>2, <3>1, <3>2 DEF ForkStart, TypeOK
    <3> QED BY <1>13, <3>1, <3>3, <3>4 DEF ForkStart, TypeOK, KernRecords
  <2> QED BY <2>1, <2>2
<1>14. CASE ExitStart
  <2>1. kern' \in KernRecords
    BY <1>14 DEF ExitStart, Go, KernRecords, TypeOK
  <2> QED BY <1>14, <2>1 DEF ExitStart, TypeOK, KernRecords, memory, procs
<1>15. CASE PageFault
  <2>1. state' \in [Pids -> {"FREE", "RUNNABLE", "BROKEN"}] /\ current \in Pids
    BY <1>15 DEF PageFault, TypeOK
  <2>2. kern' \in KernRecords /\ current' \in Pids
    BY <1>15, <2>1, ScheduleType DEF PageFault
  <2> QED BY <1>15, <2>1, <2>2 DEF PageFault, TypeOK, KernRecords, memory
<1>16. CASE Panic
  <2>1. kern' \in KernRecords
    BY <1>16 DEF Panic, Go, KernRecords
  <2> QED BY <1>16, <2>1 DEF Panic, TypeOK, KernRecords, memory, procs
<1>17. ASSUME NEW va \in VA, PageAlloc(va) PROVE TypeOK'
  <2>1. CASE va \notin UserVA
    BY <1>17, <2>1 DEF PageAlloc, TypeOK, memory, procs
  <2>2. CASE va \in UserVA
    <3>1. pages' \in [Pages -> 0..255] /\ next_alloc_pa' \in 0..NPAGES /\ mem' \in [Pages -> Value]
          /\ kalloc \in Pages
      BY <1>17, <2>2, KallocEffect DEF PageAlloc
    <3>2. kern' \in KernRecords
      BY <1>0, <1>17, <2>2, <3>1 DEF PageAlloc, Go, KernRecords, TypeOK
    <3> QED BY <1>17, <3>1, <3>2 DEF PageAlloc, TypeOK, KernRecords, procs
  <2> QED BY <2>1, <2>2
<1>18. ASSUME NEW va \in UserVA, NEW v \in UserValue, UserWrite(va, v) PROVE TypeOK'
  <2>1. mem' \in [Pages -> Value]
    BY <1>18 DEF UserWrite, TypeOK
  <2> QED BY <1>18, <2>1 DEF UserWrite, TypeOK, procs
<1>19. CASE Memshow
  <2>1. pages' \in [Pages -> 0..255] /\ next_alloc_pa' \in 0..NPAGES /\ mem' \in [Pages -> Value]
        /\ kalloc \in Pages
    BY <1>19, KallocEffect DEF Memshow
  <2>2. kern' \in KernRecords
    BY <1>0, <1>19 DEF Memshow, Go, KernRecords
  <2> QED BY <1>19, <2>1, <2>2 DEF Memshow, TypeOK, KernRecords, procs
<1>20. CASE Timer
  <2>1. kern' \in KernRecords /\ current' \in Pids
    BY <1>20, ScheduleType DEF Timer, TypeOK
  <2> QED BY <1>20, <2>1 DEF Timer, TypeOK, KernRecords, memory, procs
<1>21. CASE SoftReboot
  <2>1. kern' \in KernRecords
    BY <1>21, KernelConstants DEF SoftReboot, Go, KernRecords
  <2>2. 0 \in 0..NPAGES /\ 0 \in 0..255 /\ "int3" \in Value
    BY KernelConstants
  <2> QED BY <1>21, <2>1, <2>2, NoEntryFacts, ZenonT(30) DEF SoftReboot, TypeOK, KernRecords
<1>22. CASE UNCHANGED vars
  BY <1>22 DEF vars, TypeOK, memory, procs
<1> QED BY <1>1, <1>2, <1>3, <1>4, <1>5, <1>6, <1>7, <1>8, <1>9, <1>10, <1>11, <1>12,
       <1>13, <1>14, <1>15, <1>16, <1>17, <1>18, <1>19, <1>20, <1>21, <1>22 DEF Next,
       KernelStep, UserStep

-----------------------------------------------------------------------------
(* What a step does to the references: it leaves them, takes a free page,  *)
(* loses the page in hand, writes or clears a leaf, or releases a page.    *)

Fresh(q) == /\ q \in Allocatable /\ pages[q] = 0
            /\ pages' = [pages EXCEPT ![q] = 1]

Release(q) == pages' = IF q \in Allocatable /\ pages[q] # 0
                       THEN [pages EXCEPT ![q] = @ - 1] ELSE pages

HandsStill == kern'.hold = kern.hold

WritesRoot(p, q) == root' = [root EXCEPT ![p] = q]
WritesTable(p, n, q) == tables' = [tables EXCEPT ![p][n] = q]
EmptiesMap(p) == map' = [map EXCEPT ![p] = [va \in VA |-> NoEntry]]

Leaves ==
    /\ UNCHANGED <<pages, root, tables, map, viewer, lost>>
    /\ HandsStill \/ (kern.hold \notin Allocatable /\ kern'.hold \notin Allocatable)

TakesRoot(p, q) ==
    /\ Fresh(q) /\ root[p] = Null /\ WritesRoot(p, q)
    /\ HandsStill /\ UNCHANGED <<tables, map, viewer, lost>>

TakesTable(p, n, q) ==
    /\ Fresh(q) /\ tables[p][n] = Null /\ WritesTable(p, n, q)
    /\ HandsStill /\ UNCHANGED <<root, map, viewer, lost>>

TakesPage(q) ==
    /\ Fresh(q) /\ kern'.hold = q /\ kern.hold \notin Allocatable
    /\ UNCHANGED <<root, tables, map, viewer, lost>>

TakesViewer(q) ==
    /\ Fresh(q) /\ viewer = Null /\ viewer' = q
    /\ HandsStill /\ UNCHANGED <<root, tables, map, lost>>

LosesPage ==
    /\ kern.hold \in Allocatable /\ kern'.hold = None
    /\ Lose(kern.hold) /\ lost[kern.hold] <= MaxLost
    /\ UNCHANGED <<pages, root, tables, map, viewer>>

WritesLeaf(p, va, e) == map' = [map EXCEPT ![p][va] = e] /\ UNCHANGED <<root, tables, viewer>>

MapsPage(p, va, e) ==
    /\ WritesLeaf(p, va, e) /\ va \in UserVA
    /\ user(e) /\ e.pa = kern.hold /\ kern.hold \in Allocatable \cup {Null}
    /\ kern'.hold = None /\ pages' = pages
    /\ IF present(map[p][va])
       THEN Lose(map[p][va].pa) /\ lost[map[p][va].pa] <= MaxLost
       ELSE UNCHANGED lost

MapsNothing(p, va, e) ==
    /\ WritesLeaf(p, va, e) /\ va \in UserVA /\ ~present(e) /\ ~present(map[p][va])
    /\ HandsStill /\ UNCHANGED <<pages, lost>>

MapsKernel(p, va, e) ==
    /\ WritesLeaf(p, va, e) /\ va < PROC_START /\ e \in {NoEntry, KernelEntry(va)}
    /\ HandsStill /\ UNCHANGED <<pages, lost>>

SharesPage(p, va, e) ==
    /\ WritesLeaf(p, va, e) /\ va \in UserVA
    /\ user(e) /\ ~writable(e) /\ e = map[current][va] /\ ~present(map[p][va])
    /\ pages' = [pages EXCEPT ![e.pa] = (@ + 1) % 256]
    /\ HandsStill /\ UNCHANGED lost

FreesLeaf(p, va) ==
    /\ WritesLeaf(p, va, NoEntry) /\ va \in UserVA /\ present(map[p][va])
    /\ Release(map[p][va].pa)
    /\ HandsStill /\ UNCHANGED lost

FreesTable(p, n) ==
    /\ WritesTable(p, n, Null) /\ Release(tables[p][n])
    /\ HandsStill /\ UNCHANGED <<root, map, viewer, lost>>

FreesRoot(p) ==
    /\ WritesRoot(p, Null) /\ Release(root[p])
    /\ EmptiesMap(p)
    /\ \A va \in UserVA : ~present(map[p][va])
    /\ HandsStill /\ UNCHANGED <<tables, viewer, lost>>

DropsPage ==
    /\ kern.hold \in Allocatable /\ kern'.hold = None /\ Release(kern.hold)
    /\ UNCHANGED <<root, tables, map, viewer, lost>>

Move ==
    \/ Leaves \/ LosesPage \/ DropsPage \/ SoftReboot
    \/ \E q \in Allocatable : TakesPage(q) \/ TakesViewer(q)
    \/ \E p \in Pids, q \in Allocatable : TakesRoot(p, q)
    \/ \E p \in Pids, n \in Nodes, q \in Allocatable : TakesTable(p, n, q)
    \/ \E p \in Pids, va \in VA, e \in [pa: Pages, perm: Perm] :
           \/ MapsPage(p, va, e) \/ MapsNothing(p, va, e) \/ MapsKernel(p, va, e)
           \/ SharesPage(p, va, e)
    \/ \E p \in Pids, va \in VA : FreesLeaf(p, va)
    \/ \E p \in Pids, n \in Nodes : FreesTable(p, n)
    \/ \E p \in Pids : FreesRoot(p)

\* What the moves need to know of the state.
Orderly ==
    /\ TypeOK /\ Loops /\ FreeSlotsEmpty /\ LoopProgress /\ KernelEntries /\ UserEntries
    /\ Nulls /\ LostBound /\ RefcountExact

\* Nobody refers to a free page.
LEMMA FreeIsUnused ==
    ASSUME Orderly, NEW q \in Allocatable
    PROVE  /\ Cardinality(LeafRefs(q)) \in Nat /\ Cardinality(TableRefs(q)) \in Nat
           /\ Cardinality(RootRefs(q)) \in Nat /\ lost[q] \in 0..255 /\ pages[q] \in 0..255
           /\ IsFiniteSet(LeafRefs(q)) /\ IsFiniteSet(TableRefs(q)) /\ IsFiniteSet(RootRefs(q))
           /\ pages[q] = 0 => /\ LeafRefs(q) = {} /\ TableRefs(q) = {} /\ RootRefs(q) = {}
                              /\ kern.hold # q /\ viewer # q /\ lost[q] = 0
           /\ pages[q] = 1 /\ kern.hold = q => lost[q] = 0
<1>1. IsFiniteSet(Pids \X UserVA) /\ IsFiniteSet(Pids \X Nodes) /\ IsFiniteSet(Pids)
  BY Sizes, FS_Product
<1>2. /\ LeafRefs(q) \subseteq Pids \X UserVA /\ TableRefs(q) \subseteq Pids \X Nodes
      /\ RootRefs(q) \subseteq Pids
  BY DEF LeafRefs, TableRefs, RootRefs
<1>3. IsFiniteSet(LeafRefs(q)) /\ IsFiniteSet(TableRefs(q)) /\ IsFiniteSet(RootRefs(q))
  BY <1>1, <1>2, FS_Subset
<1>4. /\ Cardinality(LeafRefs(q)) \in Nat /\ Cardinality(TableRefs(q)) \in Nat
      /\ Cardinality(RootRefs(q)) \in Nat
  BY <1>3, FS_CardinalityType
<1>5. lost[q] \in 0..255 /\ pages[q] \in 0..255 /\ pages[q] = Refs(q) + lost[q]
  BY Sizes DEF Orderly, TypeOK, RefcountExact
<1>6. pages[q] = 0 => /\ Cardinality(LeafRefs(q)) = 0 /\ Cardinality(TableRefs(q)) = 0
                      /\ Cardinality(RootRefs(q)) = 0
                      /\ kern.hold # q /\ viewer # q /\ lost[q] = 0
  <2>1. SUFFICES ASSUME pages[q] = 0
                 PROVE  /\ Cardinality(LeafRefs(q)) = 0 /\ Cardinality(TableRefs(q)) = 0
                        /\ Cardinality(RootRefs(q)) = 0
                        /\ kern.hold # q /\ viewer # q /\ lost[q] = 0
    OBVIOUS
  <2>2. Refs(q) = 0 /\ lost[q] = 0
    <3>1. Refs(q) \in Nat
      BY <1>4 DEF Refs
    <3> QED BY <1>5, <2>1, <3>1
  <2>3. kern.hold # q /\ viewer # q
    BY <1>4, <2>2 DEF Refs
  <2>4. Cardinality(LeafRefs(q)) + Cardinality(TableRefs(q)) + Cardinality(RootRefs(q)) = 0
    BY <1>4, <2>2, <2>3 DEF Refs
  <2> QED BY <1>4, <2>2, <2>3, <2>4
<1>7. pages[q] = 1 /\ kern.hold = q => lost[q] = 0
  BY <1>4, <1>5 DEF Refs
<1> QED BY <1>3, <1>4, <1>5, <1>6, <1>7, FS_EmptySet

\* kalloc hands out a fresh page, or nothing.
LEMMA KallocFresh ==
    ASSUME TypeOK, NEW v, Kalloc(kalloc, v)
    PROVE  \/ kalloc = Null /\ pages' = pages
           \/ kalloc \in Allocatable /\ kalloc # Null /\ Fresh(kalloc)
BY KallocResult DEF Kalloc, Fresh

\* kfree releases one reference.
LEMMA KfreeReleases ==
    ASSUME NEW pa, Kfree(pa)
    PROVE  Release(pa)
BY DEF Kfree, Release

\* When a building loop goes on it has nothing in hand.
LEMMA AdvanceDropsPage ==
    ASSUME TypeOK, Advance
    PROVE  kern'.hold = None
<1>1. CASE Op("alloc")
  BY <1>1 DEF Advance, ReturnToUser, Go
<1>2. CASE ~Op("alloc")
  <2>1. kern' = [kern EXCEPT !.va = @ + 1, !.hold = None]
    BY <1>2 DEF Advance
  <2> QED BY <2>1 DEF TypeOK
<1> QED BY <1>1, <1>2

\* Every step is one of the moves.
LEMMA StepMoves == Orderly /\ [Next]_vars => Move
<1> SUFFICES ASSUME Orderly, [Next]_vars PROVE Move
  OBVIOUS
<1> USE DEF Orderly
<1>0. Null \notin Allocatable /\ None \notin Allocatable
  BY Sizes
<1>1. CASE SetupStart
  <2>1. kern.pid \in Pids /\ kern.hold = None
    BY <1>1, LoopFacts DEF SetupStart, Loops
  <2>2. root[kern.pid] = Null
    <3>1. state[kern.pid] = "FREE" /\ kern.pid \in Nat
      BY <1>1, <2>1, KernelConstants DEF SetupStart, Loops, Pids
    <3>2. ~UnderWay /\ ~Op("panic")
      BY <1>1 DEF SetupStart, Op, UnderWay
    <3> QED BY <2>1, <3>1, <3>2 DEF FreeSlotsEmpty
  <2>3. root' = [root EXCEPT ![kern.pid] = kalloc] /\ UNCHANGED <<tables, map, viewer, lost>>
    BY <1>1 DEF SetupStart
  <2>4. HandsStill
    BY <1>1, <2>1 DEF SetupStart, Go, HandsStill, TypeOK
  <2>5. CASE kalloc = Null /\ pages' = pages
    <3>1. root' = root
      BY <2>1, <2>2, <2>3, <2>5 DEF TypeOK
    <3>2. Leaves
      BY <2>3, <2>4, <2>5, <3>1 DEF Leaves
    <3> QED BY <3>2 DEF Move
  <2>6. CASE kalloc \in Allocatable /\ Fresh(kalloc)
    <3>1. TakesRoot(kern.pid, kalloc)
      BY <2>2, <2>3, <2>4, <2>6 DEF TakesRoot, WritesRoot
    <3> QED BY <2>1, <2>6, <3>1 DEF Move
  <2>7. Kalloc(kalloc, "zero")
    BY <1>1 DEF SetupStart
  <2> QED BY <2>5, <2>6, <2>7, KallocFresh
<1>2. CASE Load
  <2>1. kern'.hold = None \/ HandsStill
    BY <1>2 DEF Load, Go, HandsStill, TypeOK
  <2>2. kern.hold = None
    <3>1. ~Busy
      BY <1>2, KernelConstants DEF Load, Busy, End, STACK, TypeOK
    <3> QED BY <1>2, <3>1 DEF Load, Loops
  <2>3. Leaves
    BY <1>2, <1>0, <2>1, <2>2 DEF Load, Leaves, procs
  <2> QED BY <2>3 DEF Move
<1>3. CASE SetupDone
  <2>1. kern'.hold = None
    BY <1>3 DEF SetupDone, Go
  <2>2. kern.hold = None
    <3>1. ~Busy
      BY <1>3, KernelConstants DEF SetupDone, Busy, End, TypeOK
    <3> QED BY <1>3, <3>1 DEF SetupDone, Loops
  <2>3. Leaves
    BY <1>3, <1>0, <2>1, <2>2 DEF SetupDone, Leaves, memory, HandsStill
  <2> QED BY <2>3 DEF Move
<1>4. CASE BootDone
  <2>1. kern.hold = None /\ kern'.hold = None
    BY <1>4 DEF BootDone, Go, ReturnToUser, Loops
  <2>2. Leaves
    BY <1>4, <2>1 DEF BootDone, Leaves, memory, procs, HandsStill
  <2> QED BY <2>2 DEF Move
<1>5. CASE TakePage
  <2>1. kern.hold = None /\ UNCHANGED <<root, tables, map, viewer, lost>>
    BY <1>5 DEF TakePage, procs
  <2>2. kern'.hold = kalloc \/ (kalloc = Null /\ kern'.hold = None)
    BY <1>5, <2>1 DEF TakePage, FailFork, Go, TypeOK
  <2>3. CASE kalloc = Null /\ pages' = pages
    <3>1. Leaves
      BY <1>0, <2>1, <2>2, <2>3 DEF Leaves
    <3> QED BY <3>1 DEF Move
  <2>4. CASE kalloc \in Allocatable /\ kalloc # Null /\ Fresh(kalloc)
    <3>1. TakesPage(kalloc)
      BY <1>0, <2>1, <2>2, <2>4 DEF TakesPage
    <3> QED BY <2>4, <3>1 DEF Move
  <2>5. PICK v : Kalloc(kalloc, v)
    BY <1>5 DEF TakePage
  <2> QED BY <2>3, <2>4, <2>5, KallocFresh
<1>6. CASE GrowTable
  <2> DEFINE n == Least(Missing(kern.pid, kern.va))
  <2>1. kern.va \in VA /\ kern.pid \in Pids
    BY <1>6, EntryForm DEF GrowTable
  <2>2. n \in Nodes /\ tables[kern.pid][n] = Null
    BY <1>6, <2>1, ChosenNodes DEF GrowTable, NeedsTable, Missing
  <2>3. UNCHANGED <<root, map, viewer>> /\ Kalloc(kalloc, "zero")
    BY <1>6 DEF GrowTable
  <2>4. CASE kalloc = Null /\ pages' = pages
    <3>1. UNCHANGED tables
      BY <1>6, <2>4 DEF GrowTable
    <3>2. CASE Op("fork")
      <4>1. HandsStill /\ UNCHANGED lost
        BY <1>6, <2>4, <3>2 DEF GrowTable, FailFork, Go, HandsStill
      <4>2. Leaves
        BY <2>3, <2>4, <3>1, <4>1 DEF Leaves
      <4> QED BY <4>2 DEF Move
    <3>3. CASE ~Op("fork")
      <4>1. kern'.hold = None
        BY <1>6, <2>4, <3>3, AdvanceDropsPage DEF GrowTable
      <4>2. CASE kern.hold \in Allocatable
        <5>1. Lose(kern.hold)
          BY <1>6, <2>4, <3>3, <4>2 DEF GrowTable
        <5>2. lost[kern.hold] <= MaxLost
          <6>1. CASE Op("alloc")
            <7>1. Missing(current, kern.va) # {}
              BY <1>6, <6>1 DEF GrowTable, NeedsTable, Loops
            <7>2. \A q \in Pages : lost[q] < MaxLost
              BY <6>1, <7>1 DEF Loops
            <7>3. lost[kern.hold] \in 0..255 /\ lost[kern.hold] < MaxLost
              BY <4>2, <7>2, Sizes DEF TypeOK
            <7> QED BY <7>3, KernelConstants
          <6>2. CASE Op("setup") \/ Op("stack")
            <7>1. pages[kern.hold] = 1
              BY <4>2, <6>2 DEF Loops
            <7> QED BY <4>2, <7>1, FreeIsUnused, KernelConstants
          <6> QED BY <1>6, <3>3, <6>1, <6>2 DEF GrowTable, Busy, Building
        <5>3. LosesPage
          BY <2>3, <2>4, <3>1, <4>1, <4>2, <5>1, <5>2 DEF LosesPage
        <5> QED BY <5>3 DEF Move
      <4>3. CASE kern.hold \notin Allocatable
        <5>1. UNCHANGED lost
          BY <1>6, <2>4, <3>3, <4>3 DEF GrowTable
        <5>2. Leaves
          BY <1>0, <2>3, <2>4, <3>1, <4>1, <4>3, <5>1 DEF Leaves
        <5> QED BY <5>2 DEF Move
      <4> QED BY <4>2, <4>3
    <3> QED BY <3>2, <3>3
  <2>5. CASE kalloc \in Allocatable /\ kalloc # Null /\ Fresh(kalloc)
    <3>1. tables' = [tables EXCEPT ![kern.pid][n] = kalloc] /\ UNCHANGED <<kern, lost>>
      BY <1>6, <2>5 DEF GrowTable
    <3>2. TakesTable(kern.pid, n, kalloc)
      BY <2>2, <2>3, <2>5, <3>1 DEF TakesTable, WritesTable, HandsStill
    <3> QED BY <2>1, <2>2, <2>5, <3>2 DEF Move
  <2> QED BY <2>3, <2>4, <2>5, KallocFresh
<1>7. CASE Install
  <2>1. kern.va \in VA /\ kern.pid \in Pids /\ Entry \in [pa: Pages, perm: Perm]
    BY <1>7, EntryForm DEF Install
  <2>2. WritesLeaf(kern.pid, kern.va, Entry)
    BY <1>7 DEF Install, WritesLeaf
  <2>3. kern'.hold = None
    BY <1>7, AdvanceDropsPage DEF Install
  <2>4. Op("setup") \/ Op("stack") \/ Op("fork") => map[kern.pid][kern.va] = NoEntry
    BY <2>1 DEF LoopProgress, VA
  <2>5. CASE EmptyEntry
    <3>1. UNCHANGED <<pages, lost>> /\ HandsStill
      BY <1>7, <2>3, <2>5 DEF Install, EmptyEntry, Op, HandsStill
    <3>2. ~present(map[kern.pid][kern.va]) /\ ~present(Entry)
      BY <2>4, <2>5, NoEntryFacts DEF EmptyEntry
    <3>3. CASE kern.va \in UserVA
      <4>1. MapsNothing(kern.pid, kern.va, Entry)
        BY <2>2, <3>1, <3>2, <3>3 DEF MapsNothing
      <4> QED BY <2>1, <4>1 DEF Move
    <3>4. CASE kern.va < PROC_START
      <4>1. MapsKernel(kern.pid, kern.va, Entry)
        BY <2>2, <2>5, <3>1, <3>4 DEF MapsKernel, EmptyEntry
      <4> QED BY <2>1, <4>1 DEF Move
    <3> QED BY <2>1, <3>3, <3>4, KernelConstants DEF VA, UserVA
  <2>6. CASE KernelCopy
    <3>1. UNCHANGED <<pages, lost>> /\ HandsStill
      BY <1>7, <2>3, <2>6 DEF Install, KernelCopy, Op, HandsStill
    <3>2. MapsKernel(kern.pid, kern.va, Entry)
      BY <2>2, <2>6, <3>1 DEF MapsKernel, KernelCopy
    <3> QED BY <2>1, <3>2 DEF Move
  <2>7. CASE ParentEntry
    <3>1. UNCHANGED lost /\ HandsStill
      BY <1>7, <2>3, <2>7 DEF Install, ParentEntry, Op, HandsStill
    <3>2. Source = map[current][kern.va] /\ Entry = Source
      BY <2>7 DEF Source, ParentEntry
    <3>3. current \in Pids
      BY DEF TypeOK
    <3>4. CASE kern.va < PROC_START
      <4>1. Entry \in {NoEntry, KernelEntry(kern.va)}
        BY <2>1, <3>2, <3>3, <3>4 DEF KernelEntries
      <4>2. present(Source) => writable(Source)
        BY <2>1, <3>2, <3>4, <4>1, KernelEntryFacts, NoEntryFacts
      <4>3. MapsKernel(kern.pid, kern.va, Entry)
        BY <1>7, <2>2, <3>1, <3>4, <4>1, <4>2 DEF MapsKernel, Install
      <4> QED BY <2>1, <4>3 DEF Move
    <3>5. CASE kern.va \in UserVA /\ ~present(Source)
      <4>1. ~present(map[kern.pid][kern.va])
        BY <2>4, <2>7, NoEntryFacts DEF ParentEntry
      <4>2. MapsNothing(kern.pid, kern.va, Entry)
        BY <1>7, <2>2, <3>1, <3>2, <3>5, <4>1 DEF MapsNothing, Install
      <4> QED BY <2>1, <4>2 DEF Move
    <3>6. CASE kern.va \in UserVA /\ present(Source)
      <4>1. ~present(map[kern.pid][kern.va])
        BY <2>4, <2>7, NoEntryFacts DEF ParentEntry
      <4>2. user(Source)
        BY <3>2, <3>3, <3>6 DEF UserEntries
      <4>3. ~writable(Source)
        BY <2>7, <3>6, <4>2, KernelConstants DEF ParentEntry, NeedsPage, Op, UserVA
      <4>4. pages' = [pages EXCEPT ![Entry.pa] = (@ + 1) % 256]
        BY <1>7, <2>7, <3>2, <3>6, <4>3 DEF Install, ParentEntry
      <4>5. SharesPage(kern.pid, kern.va, Entry)
        BY <2>2, <3>1, <3>2, <3>6, <4>1, <4>2, <4>3, <4>4 DEF SharesPage
      <4> QED BY <2>1, <4>5 DEF Move
    <3> QED BY <2>1, <3>4, <3>5, <3>6, KernelConstants DEF VA, UserVA
  <2>8. CASE HeldEntry
    <3>1. kern.hold \in Allocatable \cup {Null}
      BY <1>7, <2>8, Sizes DEF HeldEntry, Install, Busy, Building, Loops
    <3>2. pages' = pages
      <4>1. Op("fork") => writable(Source) \/ ~present(Source)
        <5>1. Op("fork") => kern.hold # None
          BY <2>8, Sizes DEF HeldEntry
        <5>2. Op("fork") => NeedsPage
          BY <5>1 DEF Loops
        <5> QED BY <5>2 DEF NeedsPage, Op
      <4> QED BY <1>7, <4>1 DEF Install
    <3>3. IF present(map[kern.pid][kern.va])
          THEN Lose(map[kern.pid][kern.va].pa) /\ lost[map[kern.pid][kern.va].pa] <= MaxLost
          ELSE UNCHANGED lost
      <4>1. CASE Op("alloc")
        <5>1. kern.pid = current /\ Source = map[kern.pid][kern.va]
          BY <4>1 DEF Loops, Source
        <5>2. CASE present(Source)
          <6>1. Lose(Source.pa)
            BY <1>7, <4>1, <5>2 DEF Install
          <6>2. \A q \in Pages : lost[q] < MaxLost
            BY <4>1, <5>2 DEF Loops
          <6>3. Source.pa \in Pages
            BY <2>1, <5>1 DEF TypeOK
          <6>4. lost[Source.pa] \in 0..255 /\ lost[Source.pa] < MaxLost
            BY <6>2, <6>3 DEF TypeOK
          <6>5. lost[Source.pa] <= MaxLost
            BY <6>4, KernelConstants
          <6> QED BY <5>1, <5>2, <6>1, <6>5
        <5>3. CASE ~present(Source)
          BY <1>7, <5>1, <5>3 DEF Install
        <5> QED BY <5>2, <5>3
      <4>2. CASE ~Op("alloc")
        <5>1. ~present(map[kern.pid][kern.va])
          BY <1>7, <2>4, <4>2, NoEntryFacts DEF Install, Busy, Building
        <5> QED BY <1>7, <4>2, <5>1 DEF Install
      <4> QED BY <4>1, <4>2
    <3>4. MapsPage(kern.pid, kern.va, Entry)
      BY <2>2, <2>3, <2>8, <3>1, <3>2, <3>3 DEF MapsPage, HeldEntry
    <3> QED BY <2>1, <3>4 DEF Move
  <2> QED BY <1>7, <2>5, <2>6, <2>7, <2>8, EntryForm DEF Install
<1>8. CASE ForkDone
  <2>1. kern.hold = None
    <3>1. ~Busy
      BY <1>8, KernelConstants DEF ForkDone, Busy, End, TypeOK
    <3> QED BY <1>8, <3>1 DEF ForkDone, Loops
  <2>2. Leaves
    BY <1>8, <2>1 DEF ForkDone, Leaves, memory, ReturnToUser, Go, HandsStill
  <2> QED BY <2>2 DEF Move
<1>9. CASE FreeUserPage
  <2> DEFINE e == map[kern.pid][kern.va]
  <2>1. kern.va \in UserVA /\ kern.pid \in Pids
    BY <1>9, LoopFacts, KernelConstants DEF FreeUserPage, UnderWay, Loops, UserVA
  <2>2. WritesLeaf(kern.pid, kern.va, NoEntry) /\ UNCHANGED lost
    BY <1>9 DEF FreeUserPage, WritesLeaf
  <2>3. HandsStill
    BY <1>9 DEF FreeUserPage, HandsStill, TypeOK
  <2>4. kern.va \in VA /\ kern.va # CONSOLE
    BY <2>1, KernelConstants, Sizes DEF UserVA
  <2>5. CASE present(e)
    <3>1. user(e)
      BY <2>1, <2>5 DEF UserEntries
    <3>2. Kfree(e.pa)
      BY <1>9, <2>4, <3>1 DEF FreeUserPage
    <3>3. FreesLeaf(kern.pid, kern.va)
      BY <2>1, <2>2, <2>3, <2>5, <3>2, KfreeReleases DEF FreesLeaf
    <3> QED BY <2>1, <2>4, <3>3 DEF Move
  <2>6. CASE ~present(e)
    <3>1. UNCHANGED pages
      BY <1>9, <2>6 DEF FreeUserPage, user, present, memory
    <3>2. MapsNothing(kern.pid, kern.va, NoEntry)
      BY <2>1, <2>2, <2>3, <2>6, <3>1, NoEntryFacts DEF MapsNothing
    <3> QED BY <2>1, <2>4, <3>2, NoEntryFacts DEF Move
  <2> QED BY <2>5, <2>6
<1>10. CASE FreeTable
  <2>1. kern.pid \in Pids /\ Greatest(TableNodes) \in Nodes
    BY <1>10, ChosenNodes DEF FreeTable, Loops, TableNodes
  <2>2. FreesTable(kern.pid, Greatest(TableNodes))
    BY <1>10, KfreeReleases DEF FreeTable, FreesTable, WritesTable, HandsStill
  <2> QED BY <2>1, <2>2 DEF Move
<1>11. CASE FreeRoot
  <2>1. kern.pid \in Pids
    BY <1>11 DEF FreeRoot, Loops
  <2>2. HandsStill
    <3>1. CASE kern.pid = current
      <4>1. state' \in [Pids -> {"FREE", "RUNNABLE", "BROKEN"}] /\ current \in Pids
        BY <1>11 DEF FreeRoot, TypeOK
      <4>2. kern.hold = None /\ kern'.hold = None
        BY <1>11, <3>1, <4>1, ScheduleType DEF FreeRoot, Loops
      <4> QED BY <4>2 DEF HandsStill
    <3>2. CASE kern.pid # current
      BY <1>11, <3>2 DEF FreeRoot, ReturnToUser, Go, HandsStill, TypeOK
    <3> QED BY <3>1, <3>2
  <2>3. \A va \in UserVA : ~present(map[kern.pid][va])
    <3>1. \A va \in UserVA : va < kern.va
      BY <1>11, KernelConstants DEF FreeRoot, UserVA
    <3> QED BY <1>11, <3>1, NoEntryFacts DEF FreeRoot, LoopProgress
  <2>4. FreesRoot(kern.pid)
    BY <1>11, <2>2, <2>3, KfreeReleases DEF FreeRoot, FreesRoot, WritesRoot, EmptiesMap
  <2> QED BY <2>1, <2>4 DEF Move
<1>12. CASE DropHeld
  <2>1. kern.hold \in Allocatable
    BY <1>12 DEF DropHeld, Loops
  <2>2. DropsPage
    BY <1>12, <2>1, KfreeReleases DEF DropHeld, DropsPage, ReturnToUser, Go, procs
  <2> QED BY <2>2 DEF Move
<1>13. CASE ForkStart
  <2>1. kern.hold = None
    BY <1>13 DEF ForkStart, Trap, Loops
  <2>2. CASE FreeSlots = {}
    <3>1. Leaves
      BY <1>13, <2>2 DEF ForkStart, Leaves, memory, HandsStill
    <3> QED BY <3>1 DEF Move
  <2>3. CASE FreeSlots # {}
    <3> DEFINE p == Least(FreeSlots)
    <3>1. p \in Pids /\ state[p] = "FREE"
      BY <2>3, ChosenSlots, KernelConstants DEF Pids
    <3>2. root[p] = Null
      BY <1>13, <3>1 DEF ForkStart, Trap, FreeSlotsEmpty, UnderWay, Op
    <3>3. Kalloc(kalloc, "zero") /\ UNCHANGED <<tables, map, viewer, lost>>
      BY <1>13, <2>3 DEF ForkStart
    <3>4. CASE kalloc = Null /\ pages' = pages
      <4>1. Leaves
        BY <1>13, <2>3, <3>4 DEF ForkStart, Leaves, HandsStill
      <4> QED BY <4>1 DEF Move
    <3>5. CASE kalloc \in Allocatable /\ kalloc # Null /\ Fresh(kalloc)
      <4>1. root' = [root EXCEPT ![p] = kalloc] /\ HandsStill
        BY <1>13, <2>1, <2>3, <3>5 DEF ForkStart, Go, HandsStill
      <4>2. TakesRoot(p, kalloc)
        BY <3>2, <3>3, <3>5, <4>1 DEF TakesRoot, WritesRoot
      <4> QED BY <3>1, <3>5, <4>2 DEF Move
    <3> QED BY <3>3, <3>4, <3>5, KallocFresh
  <2> QED BY <2>2, <2>3
<1>14. CASE ExitStart
  <2>1. Leaves
    BY <1>14 DEF ExitStart, Trap, Loops, Go, Leaves, memory, procs, HandsStill
  <2> QED BY <2>1 DEF Move
<1>15. CASE PageFault
  <2>1. state' \in [Pids -> {"FREE", "RUNNABLE", "BROKEN"}] /\ current \in Pids
    BY <1>15 DEF PageFault, TypeOK
  <2>2. kern.hold = None /\ kern'.hold = None
    BY <1>15, <2>1, ScheduleType DEF PageFault, Trap, Loops
  <2>3. Leaves
    BY <1>15, <2>2 DEF PageFault, Leaves, memory, HandsStill
  <2> QED BY <2>3 DEF Move
<1>16. CASE Panic
  <2>1. Leaves
    BY <1>16 DEF Panic, Trap, Loops, Go, Leaves, memory, procs, HandsStill
  <2> QED BY <2>1 DEF Move
<1>17. ASSUME NEW va \in VA, PageAlloc(va) PROVE Move
  <2>1. kern.hold = None /\ UNCHANGED <<root, tables, map, viewer, lost>>
    BY <1>17 DEF PageAlloc, Trap, Loops, procs
  <2>2. CASE va \notin UserVA
    <3>1. Leaves
      BY <1>17, <2>1, <2>2 DEF PageAlloc, Leaves, memory, HandsStill
    <3> QED BY <3>1 DEF Move
  <2>3. CASE va \in UserVA
    <3>1. Kalloc(kalloc, "zero")
      BY <1>17, <2>3 DEF PageAlloc
    <3>2. CASE kalloc = Null /\ pages' = pages
      <4>1. Leaves
        BY <1>17, <2>1, <2>3, <3>2 DEF PageAlloc, Leaves, HandsStill
      <4> QED BY <4>1 DEF Move
    <3>3. CASE kalloc \in Allocatable /\ kalloc # Null /\ Fresh(kalloc)
      <4>1. kern'.hold = kalloc
        BY <1>17, <2>3, <3>3 DEF PageAlloc, Go
      <4>2. TakesPage(kalloc)
        BY <1>0, <2>1, <3>3, <4>1 DEF TakesPage
      <4> QED BY <3>3, <4>2 DEF Move
    <3> QED BY <3>1, <3>2, <3>3, KallocFresh
  <2> QED BY <2>2, <2>3
<1>18. ASSUME NEW va \in UserVA, NEW v \in UserValue, UserWrite(va, v) PROVE Move
  <2>1. Leaves
    BY <1>18 DEF UserWrite, Leaves, procs, HandsStill
  <2> QED BY <2>1 DEF Move
<1>19. CASE Memshow
  <2>1. kern.hold = None /\ UNCHANGED <<root, tables, map, lost>> /\ viewer = Null
    BY <1>19 DEF Memshow, Loops, procs
  <2>2. HandsStill /\ viewer' = kalloc /\ Kalloc(kalloc, "zero")
    BY <1>19, <2>1 DEF Memshow, Go, HandsStill
  <2>3. CASE kalloc = Null /\ pages' = pages
    <3>1. Leaves
      BY <2>1, <2>2, <2>3 DEF Leaves
    <3> QED BY <3>1 DEF Move
  <2>4. CASE kalloc \in Allocatable /\ kalloc # Null /\ Fresh(kalloc)
    <3>1. TakesViewer(kalloc)
      BY <2>1, <2>2, <2>4 DEF TakesViewer
    <3> QED BY <2>4, <3>1 DEF Move
  <2> QED BY <2>2, <2>3, <2>4, KallocFresh
<1>20. CASE Timer
  <2>1. kern.hold = None /\ kern'.hold = None
    BY <1>20, ScheduleType DEF Timer, Trap, Loops, TypeOK
  <2>2. Leaves
    BY <1>20, <2>1 DEF Timer, Leaves, memory, procs, HandsStill
  <2> QED BY <2>2 DEF Move
<1>21. CASE SoftReboot
  BY <1>21 DEF Move
<1>22. CASE UNCHANGED vars
  <2>1. Leaves
    BY <1>22 DEF vars, Leaves, memory, procs, HandsStill
  <2> QED BY <2>1 DEF Move
<1> QED BY <1>1, <1>2, <1>3, <1>4, <1>5, <1>6, <1>7, <1>8, <1>9, <1>10, <1>11, <1>12,
       <1>13, <1>14, <1>15, <1>16, <1>17, <1>18, <1>19, <1>20, <1>21, <1>22 DEF Next,
       KernelStep, UserStep

-----------------------------------------------------------------------------
(* The moves keep pages apart.                                             *)

Apart == RootsApart /\ TablesApart /\ HoldApart /\ LeavesApart /\ SharedReadOnly

Unused(q) ==
    /\ kern.hold # q /\ viewer # q /\ lost[q] = 0
    /\ \A p \in Pids : root[p] # q
    /\ \A p \in Pids, n \in Nodes : tables[p][n] # q
    /\ \A p \in Pids, va \in UserVA : present(map[p][va]) => map[p][va].pa # q

\* Nobody refers to a page that kalloc hands out.
LEMMA FreshIsUnused ==
    ASSUME Orderly, NEW q, Fresh(q)
    PROVE  Unused(q)
<1>1. q \in Allocatable /\ pages[q] = 0
  BY DEF Fresh
<1>2. /\ LeafRefs(q) = {} /\ TableRefs(q) = {} /\ RootRefs(q) = {}
      /\ kern.hold # q /\ viewer # q /\ lost[q] = 0
  BY <1>1, FreeIsUnused
<1>3. ASSUME NEW p \in Pids, NEW n \in Nodes PROVE tables[p][n] # q
  <2>1. <<p, n>> \notin TableRefs(q)
    BY <1>2
  <2> QED BY <2>1 DEF TableRefs
<1>4. ASSUME NEW p \in Pids, NEW va \in UserVA, present(map[p][va]) PROVE map[p][va].pa # q
  <2>1. <<p, va>> \notin LeafRefs(q)
    BY <1>2
  <2> QED BY <1>4, <2>1 DEF LeafRefs
<1> QED BY <1>2, <1>3, <1>4 DEF RootRefs, Unused

\* What the tables hold after a write.
LEMMA LeafWritten ==
    ASSUME Orderly, NEW p \in Pids, NEW va \in VA, NEW e, WritesLeaf(p, va, e)
    PROVE  /\ \A r \in Pids, w \in VA :
                  map'[r][w] = IF r = p /\ w = va THEN e ELSE map[r][w]
           /\ root' = root /\ tables' = tables /\ viewer' = viewer
BY DEF Orderly, TypeOK, WritesLeaf

\* The inner nodes after a write.
LEMMA TableWritten ==
    ASSUME Orderly, NEW p \in Pids, NEW n \in Nodes, NEW q, WritesTable(p, n, q)
    PROVE  \A r \in Pids, m \in Nodes :
               tables'[r][m] = IF r = p /\ m = n THEN q ELSE tables[r][m]
BY DEF Orderly, TypeOK, WritesTable

\* The roots after a write.
LEMMA RootWritten ==
    ASSUME Orderly, NEW p \in Pids, NEW q, WritesRoot(p, q)
    PROVE  \A r \in Pids : root'[r] = IF r = p THEN q ELSE root[r]
BY DEF Orderly, TypeOK, WritesRoot

\* The leaves after a table has been emptied.
LEMMA MapEmptied ==
    ASSUME Orderly, NEW p \in Pids, EmptiesMap(p)
    PROVE  \A r \in Pids, w \in VA : map'[r][w] = IF r = p THEN NoEntry ELSE map[r][w]
BY DEF Orderly, TypeOK, EmptiesMap

\* A restarted kernel has nothing.
LEMMA AfterReboot ==
    ASSUME SoftReboot
    PROVE  /\ \A r \in Pids : root'[r] = Null
           /\ \A r \in Pids, n \in Nodes : tables'[r][n] = Null
           /\ \A r \in Pids, w \in VA : map'[r][w] = NoEntry
           /\ viewer' = Null /\ kern'.hold = None
           /\ \A q \in Pages : lost'[q] = 0 /\ pages'[q] = 0
BY DEF SoftReboot, Go

\* What a reference may be, and that null is not an allocatable page.
LEMMA HoldTyped ==
    ASSUME Orderly
    PROVE  /\ \A p \in Pids : root[p] \in Allocatable \cup {Null}
           /\ \A p \in Pids, n \in Nodes : tables[p][n] \in Allocatable \cup {Null}
           /\ viewer \in Allocatable \cup {Null}
           /\ \A p \in Pids, va \in UserVA :
                  present(map[p][va]) => map[p][va].pa \in Allocatable \cup {Null}
           /\ Null \notin Allocatable /\ None \notin Allocatable /\ None # Null
           /\ UserVA \subseteq VA /\ Allocatable \subseteq Pages
           /\ \A va \in UserVA : ~(va < PROC_START)
<1>1. \A va \in UserVA : ~(va < PROC_START)
  BY KernelConstants DEF UserVA
<1>2. UserVA \subseteq VA /\ Allocatable \subseteq Pages
      /\ Null \notin Allocatable /\ None \notin Allocatable /\ None # Null
  BY Sizes
<1>3. \A p \in Pids, va \in UserVA :
          present(map[p][va]) => map[p][va].pa \in Allocatable \cup {Null}
  BY DEF Orderly, UserEntries
<1> QED BY <1>1, <1>2, <1>3 DEF Orderly, Nulls

\* A reference may be lost while the bound is not reached.
LEMMA LoseBounded ==
    ASSUME Orderly, NEW q \in Pages, Lose(q), lost[q] <= MaxLost
    PROVE  LostBound'
<1>1. lost \in [Pages -> 0..255] /\ MaxLost \in Nat
  BY KernelConstants DEF Orderly, TypeOK
<1> SUFFICES ASSUME NEW r \in Pages PROVE lost'[r] <= MaxLost + 1
  BY DEF LostBound
<1>2. lost[r] <= MaxLost + 1
  BY DEF Orderly, LostBound
<1>3. lost'[r] = IF r = q THEN lost[q] + 1 ELSE lost[r]
  BY <1>1 DEF Lose
<1>4. lost[q] \in 0..255
  BY <1>1
<1> QED BY <1>1, <1>2, <1>3, <1>4

\* Every entry stays a kernel entry or a user entry.
LEMMA EntriesKept == Orderly /\ Move => (KernelEntries' /\ UserEntries')
<1> SUFFICES ASSUME Orderly, Move PROVE (KernelEntries' /\ UserEntries')
  OBVIOUS
<1> USE DEF Orderly
<1>1. CASE Leaves
  BY <1>1, HoldTyped DEF Leaves, HandsStill, KernelEntries, UserEntries
<1>2. CASE LosesPage
  BY <1>2, HoldTyped DEF LosesPage, KernelEntries, UserEntries
<1>3. CASE DropsPage
  BY <1>3, HoldTyped DEF DropsPage, KernelEntries, UserEntries
<1>4. CASE SoftReboot
  BY <1>4, HoldTyped, AfterReboot, NoEntryFacts DEF KernelEntries, UserEntries
<1>5. ASSUME NEW q \in Allocatable, TakesPage(q) PROVE (KernelEntries' /\ UserEntries')
  BY <1>5, HoldTyped, FreshIsUnused DEF TakesPage, Unused, KernelEntries, UserEntries
<1>6. ASSUME NEW q \in Allocatable, TakesViewer(q) PROVE (KernelEntries' /\
       UserEntries')
  BY <1>6, HoldTyped, FreshIsUnused DEF TakesViewer, HandsStill, Unused, KernelEntries,
         UserEntries
<1>7. ASSUME NEW p \in Pids, NEW q \in Allocatable, TakesRoot(p, q) PROVE
       (KernelEntries' /\ UserEntries')
  BY <1>7, HoldTyped, FreshIsUnused, RootWritten DEF TakesRoot, HandsStill, Unused,
         KernelEntries, UserEntries
<1>8. ASSUME NEW p \in Pids, NEW n \in Nodes, NEW q \in Allocatable, TakesTable(p, n, q)
       PROVE (KernelEntries' /\ UserEntries')
  BY <1>8, HoldTyped, FreshIsUnused, TableWritten DEF TakesTable, HandsStill, Unused,
         KernelEntries, UserEntries
<1>9. ASSUME NEW p \in Pids, NEW va \in VA, NEW e \in [pa: Pages, perm: Perm],
       MapsPage(p, va, e) PROVE (KernelEntries' /\ UserEntries')
  BY <1>9, HoldTyped, LeafWritten DEF MapsPage, KernelEntries, UserEntries
<1>10. ASSUME NEW p \in Pids, NEW va \in VA, NEW e \in [pa: Pages, perm: Perm],
       MapsNothing(p, va, e) PROVE (KernelEntries' /\ UserEntries')
  BY <1>10, HoldTyped, LeafWritten DEF MapsNothing, HandsStill, KernelEntries, UserEntries
<1>11. ASSUME NEW p \in Pids, NEW va \in VA, NEW e \in [pa: Pages, perm: Perm],
       MapsKernel(p, va, e) PROVE (KernelEntries' /\ UserEntries')
  BY <1>11, HoldTyped, LeafWritten DEF MapsKernel, HandsStill, KernelEntries, UserEntries
<1>12. ASSUME NEW p \in Pids, NEW va \in VA, NEW e \in [pa: Pages, perm: Perm],
       SharesPage(p, va, e) PROVE (KernelEntries' /\ UserEntries')
  <2>1. current \in Pids /\ present(e)
    BY <1>12 DEF TypeOK, SharesPage, user, present
  <2>2. e.pa \in Allocatable \cup {Null} /\ user(e)
    BY <1>12, <2>1, HoldTyped DEF SharesPage
  <2> QED BY <1>12, <2>2, HoldTyped, LeafWritten DEF SharesPage, KernelEntries, UserEntries
<1>13. ASSUME NEW p \in Pids, NEW va \in VA, FreesLeaf(p, va) PROVE (KernelEntries' /\
       UserEntries')
  BY <1>13, HoldTyped, LeafWritten, NoEntryFacts DEF FreesLeaf, HandsStill, KernelEntries,
         UserEntries
<1>14. ASSUME NEW p \in Pids, NEW n \in Nodes, FreesTable(p, n) PROVE (KernelEntries' /\
       UserEntries')
  BY <1>14, HoldTyped, TableWritten DEF FreesTable, HandsStill, KernelEntries, UserEntries
<1>15. ASSUME NEW p \in Pids, FreesRoot(p) PROVE (KernelEntries' /\ UserEntries')
  BY <1>15, HoldTyped, RootWritten, MapEmptied, NoEntryFacts DEF FreesRoot, HandsStill,
         KernelEntries, UserEntries
<1> QED BY <1>1, <1>2, <1>3, <1>4, <1>5, <1>6, <1>7, <1>8, <1>9, <1>10, <1>11, <1>12,
       <1>13, <1>14, <1>15 DEF Move

\* Roots, nodes and the viewer's page are null or allocatable.
LEMMA NullsKept == Orderly /\ Move => Nulls'
<1> SUFFICES ASSUME Orderly, Move PROVE Nulls'
  OBVIOUS
<1> USE DEF Orderly
<1>1. CASE Leaves
  BY <1>1, HoldTyped DEF Leaves, HandsStill, Nulls, TypeOK, WritesRoot, WritesTable
<1>2. CASE LosesPage
  BY <1>2, HoldTyped DEF LosesPage, Nulls, TypeOK, WritesRoot, WritesTable
<1>3. CASE DropsPage
  BY <1>3, HoldTyped DEF DropsPage, Nulls, TypeOK, WritesRoot, WritesTable
<1>4. CASE SoftReboot
  BY <1>4 DEF SoftReboot, Nulls
<1>5. ASSUME NEW q \in Allocatable, TakesPage(q) PROVE Nulls'
  BY <1>5, HoldTyped, FreshIsUnused DEF TakesPage, Unused, Nulls, TypeOK, WritesRoot,
         WritesTable
<1>6. ASSUME NEW q \in Allocatable, TakesViewer(q) PROVE Nulls'
  BY <1>6, HoldTyped, FreshIsUnused DEF TakesViewer, HandsStill, Unused, Nulls, TypeOK,
         WritesRoot, WritesTable
<1>7. ASSUME NEW p \in Pids, NEW q \in Allocatable, TakesRoot(p, q) PROVE Nulls'
  BY <1>7, HoldTyped, FreshIsUnused, RootWritten DEF TakesRoot, HandsStill, Unused, Nulls,
         TypeOK, WritesRoot, WritesTable
<1>8. ASSUME NEW p \in Pids, NEW n \in Nodes, NEW q \in Allocatable, TakesTable(p, n, q)
       PROVE Nulls'
  BY <1>8, HoldTyped, FreshIsUnused, TableWritten DEF TakesTable, HandsStill, Unused, Nulls,
         TypeOK, WritesRoot, WritesTable
<1>9. ASSUME NEW p \in Pids, NEW va \in VA, NEW e \in [pa: Pages, perm: Perm],
       MapsPage(p, va, e) PROVE Nulls'
  BY <1>9, HoldTyped, LeafWritten DEF MapsPage, Nulls, TypeOK, WritesRoot, WritesTable
<1>10. ASSUME NEW p \in Pids, NEW va \in VA, NEW e \in [pa: Pages, perm: Perm],
       MapsNothing(p, va, e) PROVE Nulls'
  BY <1>10, HoldTyped, LeafWritten DEF MapsNothing, HandsStill, Nulls, TypeOK, WritesRoot,
         WritesTable
<1>11. ASSUME NEW p \in Pids, NEW va \in VA, NEW e \in [pa: Pages, perm: Perm],
       MapsKernel(p, va, e) PROVE Nulls'
  BY <1>11, HoldTyped, LeafWritten DEF MapsKernel, HandsStill, Nulls, TypeOK, WritesRoot,
         WritesTable
<1>12. ASSUME NEW p \in Pids, NEW va \in VA, NEW e \in [pa: Pages, perm: Perm],
       SharesPage(p, va, e) PROVE Nulls'
  BY <1>12, HoldTyped, LeafWritten DEF SharesPage, HandsStill, Nulls, TypeOK, WritesRoot,
         WritesTable
<1>13. ASSUME NEW p \in Pids, NEW va \in VA, FreesLeaf(p, va) PROVE Nulls'
  BY <1>13, HoldTyped, LeafWritten, NoEntryFacts DEF FreesLeaf, HandsStill, Nulls, TypeOK,
         WritesRoot, WritesTable
<1>14. ASSUME NEW p \in Pids, NEW n \in Nodes, FreesTable(p, n) PROVE Nulls'
  BY <1>14, HoldTyped, TableWritten DEF FreesTable, HandsStill, Nulls, TypeOK, WritesRoot,
         WritesTable
<1>15. ASSUME NEW p \in Pids, FreesRoot(p) PROVE Nulls'
  BY <1>15, HoldTyped, RootWritten, MapEmptied, NoEntryFacts DEF FreesRoot, HandsStill,
         Nulls, TypeOK, WritesRoot, WritesTable
<1> QED BY <1>1, <1>2, <1>3, <1>4, <1>5, <1>6, <1>7, <1>8, <1>9, <1>10, <1>11, <1>12,
       <1>13, <1>14, <1>15 DEF Move

\* No page loses more references than the bound.
LEMMA LostKept == Orderly /\ Move => LostBound'
<1> SUFFICES ASSUME Orderly, Move PROVE LostBound'
  OBVIOUS
<1> USE DEF Orderly
<1>1. CASE Leaves
  BY <1>1, HoldTyped DEF Leaves, HandsStill, LostBound
<1>2. CASE LosesPage
  BY <1>2, LoseBounded, HoldTyped DEF LosesPage
<1>3. CASE DropsPage
  BY <1>3, HoldTyped DEF DropsPage, LostBound
<1>4. CASE SoftReboot
  <2>1. 0 <= MaxLost + 1
    BY KernelConstants
  <2> QED BY <1>4, <2>1, AfterReboot DEF LostBound
<1>5. ASSUME NEW q \in Allocatable, TakesPage(q) PROVE LostBound'
  BY <1>5, HoldTyped, FreshIsUnused DEF TakesPage, Unused, LostBound
<1>6. ASSUME NEW q \in Allocatable, TakesViewer(q) PROVE LostBound'
  BY <1>6, HoldTyped, FreshIsUnused DEF TakesViewer, HandsStill, Unused, LostBound
<1>7. ASSUME NEW p \in Pids, NEW q \in Allocatable, TakesRoot(p, q) PROVE LostBound'
  BY <1>7, HoldTyped, FreshIsUnused, RootWritten DEF TakesRoot, HandsStill, Unused,
         LostBound
<1>8. ASSUME NEW p \in Pids, NEW n \in Nodes, NEW q \in Allocatable, TakesTable(p, n, q)
       PROVE LostBound'
  BY <1>8, HoldTyped, FreshIsUnused, TableWritten DEF TakesTable, HandsStill, Unused,
         LostBound
<1>9. ASSUME NEW p \in Pids, NEW va \in VA, NEW e \in [pa: Pages, perm: Perm],
       MapsPage(p, va, e) PROVE LostBound'
  <2>1. CASE present(map[p][va])
    <3>1. map[p][va].pa \in Pages
      BY DEF TypeOK
    <3> QED BY <1>9, <2>1, <3>1, LoseBounded DEF MapsPage
  <2>2. CASE ~present(map[p][va])
    BY <1>9, <2>2 DEF MapsPage, LostBound
  <2> QED BY <2>1, <2>2
<1>10. ASSUME NEW p \in Pids, NEW va \in VA, NEW e \in [pa: Pages, perm: Perm],
       MapsNothing(p, va, e) PROVE LostBound'
  BY <1>10, HoldTyped, LeafWritten DEF MapsNothing, HandsStill, LostBound
<1>11. ASSUME NEW p \in Pids, NEW va \in VA, NEW e \in [pa: Pages, perm: Perm],
       MapsKernel(p, va, e) PROVE LostBound'
  BY <1>11, HoldTyped, LeafWritten DEF MapsKernel, HandsStill, LostBound
<1>12. ASSUME NEW p \in Pids, NEW va \in VA, NEW e \in [pa: Pages, perm: Perm],
       SharesPage(p, va, e) PROVE LostBound'
  BY <1>12, HoldTyped, LeafWritten DEF SharesPage, HandsStill, LostBound
<1>13. ASSUME NEW p \in Pids, NEW va \in VA, FreesLeaf(p, va) PROVE LostBound'
  BY <1>13, HoldTyped, LeafWritten, NoEntryFacts DEF FreesLeaf, HandsStill, LostBound
<1>14. ASSUME NEW p \in Pids, NEW n \in Nodes, FreesTable(p, n) PROVE LostBound'
  BY <1>14, HoldTyped, TableWritten DEF FreesTable, HandsStill, LostBound
<1>15. ASSUME NEW p \in Pids, FreesRoot(p) PROVE LostBound'
  BY <1>15, HoldTyped, RootWritten, MapEmptied, NoEntryFacts DEF FreesRoot, HandsStill,
         LostBound
<1> QED BY <1>1, <1>2, <1>3, <1>4, <1>5, <1>6, <1>7, <1>8, <1>9, <1>10, <1>11, <1>12,
       <1>13, <1>14, <1>15 DEF Move

\* A root page is nothing else.
LEMMA RootsApartKept == Orderly /\ Apart /\ Move => RootsApart'
<1> SUFFICES ASSUME Orderly, Apart, Move PROVE RootsApart'
  OBVIOUS
<1> USE DEF Apart
<1>1. CASE Leaves
  BY <1>1, HoldTyped DEF Leaves, HandsStill, RootsApart
<1>2. CASE LosesPage
  BY <1>2, HoldTyped DEF LosesPage, RootsApart
<1>3. CASE DropsPage
  BY <1>3, HoldTyped DEF DropsPage, RootsApart
<1>4. CASE SoftReboot
  BY <1>4, HoldTyped, AfterReboot, NoEntryFacts DEF RootsApart
<1>5. ASSUME NEW q \in Allocatable, TakesPage(q) PROVE RootsApart'
  BY <1>5, HoldTyped, FreshIsUnused DEF TakesPage, Unused, RootsApart
<1>6. ASSUME NEW q \in Allocatable, TakesViewer(q) PROVE RootsApart'
  BY <1>6, HoldTyped, FreshIsUnused DEF TakesViewer, HandsStill, Unused, RootsApart
<1>7. ASSUME NEW p \in Pids, NEW q \in Allocatable, TakesRoot(p, q) PROVE RootsApart'
  BY <1>7, HoldTyped, FreshIsUnused, RootWritten DEF TakesRoot, HandsStill, Unused,
         RootsApart
<1>8. ASSUME NEW p \in Pids, NEW n \in Nodes, NEW q \in Allocatable, TakesTable(p, n, q)
       PROVE RootsApart'
  BY <1>8, HoldTyped, FreshIsUnused, TableWritten DEF TakesTable, HandsStill, Unused,
         RootsApart
<1>9. ASSUME NEW p \in Pids, NEW va \in VA, NEW e \in [pa: Pages, perm: Perm],
       MapsPage(p, va, e) PROVE RootsApart'
  BY <1>9, HoldTyped, LeafWritten DEF MapsPage, RootsApart
<1>10. ASSUME NEW p \in Pids, NEW va \in VA, NEW e \in [pa: Pages, perm: Perm],
       MapsNothing(p, va, e) PROVE RootsApart'
  BY <1>10, HoldTyped, LeafWritten DEF MapsNothing, HandsStill, RootsApart
<1>11. ASSUME NEW p \in Pids, NEW va \in VA, NEW e \in [pa: Pages, perm: Perm],
       MapsKernel(p, va, e) PROVE RootsApart'
  BY <1>11, HoldTyped, LeafWritten DEF MapsKernel, HandsStill, RootsApart
<1>12. ASSUME NEW p \in Pids, NEW va \in VA, NEW e \in [pa: Pages, perm: Perm],
       SharesPage(p, va, e) PROVE RootsApart'
  BY <1>12, HoldTyped, LeafWritten DEF SharesPage, HandsStill, RootsApart
<1>13. ASSUME NEW p \in Pids, NEW va \in VA, FreesLeaf(p, va) PROVE RootsApart'
  BY <1>13, HoldTyped, LeafWritten, NoEntryFacts DEF FreesLeaf, HandsStill, RootsApart
<1>14. ASSUME NEW p \in Pids, NEW n \in Nodes, FreesTable(p, n) PROVE RootsApart'
  BY <1>14, HoldTyped, TableWritten DEF FreesTable, HandsStill, RootsApart
<1>15. ASSUME NEW p \in Pids, FreesRoot(p) PROVE RootsApart'
  BY <1>15, HoldTyped, RootWritten, MapEmptied, NoEntryFacts DEF FreesRoot, HandsStill,
         RootsApart
<1> QED BY <1>1, <1>2, <1>3, <1>4, <1>5, <1>6, <1>7, <1>8, <1>9, <1>10, <1>11, <1>12,
       <1>13, <1>14, <1>15 DEF Move

\* An inner node's page is nothing else.
LEMMA TablesApartKept == Orderly /\ Apart /\ Move => TablesApart'
<1> SUFFICES ASSUME Orderly, Apart, Move PROVE TablesApart'
  OBVIOUS
<1> USE DEF Apart
<1>1. CASE Leaves
  BY <1>1, HoldTyped DEF Leaves, HandsStill, TablesApart
<1>2. CASE LosesPage
  BY <1>2, HoldTyped DEF LosesPage, TablesApart
<1>3. CASE DropsPage
  BY <1>3, HoldTyped DEF DropsPage, TablesApart
<1>4. CASE SoftReboot
  BY <1>4, HoldTyped, AfterReboot, NoEntryFacts DEF TablesApart
<1>5. ASSUME NEW q \in Allocatable, TakesPage(q) PROVE TablesApart'
  BY <1>5, HoldTyped, FreshIsUnused DEF TakesPage, Unused, TablesApart
<1>6. ASSUME NEW q \in Allocatable, TakesViewer(q) PROVE TablesApart'
  BY <1>6, HoldTyped, FreshIsUnused DEF TakesViewer, HandsStill, Unused, TablesApart
<1>7. ASSUME NEW p \in Pids, NEW q \in Allocatable, TakesRoot(p, q) PROVE TablesApart'
  BY <1>7, HoldTyped, FreshIsUnused, RootWritten DEF TakesRoot, HandsStill, Unused,
         TablesApart
<1>8. ASSUME NEW p \in Pids, NEW n \in Nodes, NEW q \in Allocatable, TakesTable(p, n, q)
       PROVE TablesApart'
  BY <1>8, HoldTyped, FreshIsUnused, TableWritten DEF TakesTable, HandsStill, Unused,
         TablesApart
<1>9. ASSUME NEW p \in Pids, NEW va \in VA, NEW e \in [pa: Pages, perm: Perm],
       MapsPage(p, va, e) PROVE TablesApart'
  BY <1>9, HoldTyped, LeafWritten DEF MapsPage, TablesApart
<1>10. ASSUME NEW p \in Pids, NEW va \in VA, NEW e \in [pa: Pages, perm: Perm],
       MapsNothing(p, va, e) PROVE TablesApart'
  BY <1>10, HoldTyped, LeafWritten DEF MapsNothing, HandsStill, TablesApart
<1>11. ASSUME NEW p \in Pids, NEW va \in VA, NEW e \in [pa: Pages, perm: Perm],
       MapsKernel(p, va, e) PROVE TablesApart'
  BY <1>11, HoldTyped, LeafWritten DEF MapsKernel, HandsStill, TablesApart
<1>12. ASSUME NEW p \in Pids, NEW va \in VA, NEW e \in [pa: Pages, perm: Perm],
       SharesPage(p, va, e) PROVE TablesApart'
  BY <1>12, HoldTyped, LeafWritten DEF SharesPage, HandsStill, TablesApart
<1>13. ASSUME NEW p \in Pids, NEW va \in VA, FreesLeaf(p, va) PROVE TablesApart'
  BY <1>13, HoldTyped, LeafWritten, NoEntryFacts DEF FreesLeaf, HandsStill, TablesApart
<1>14. ASSUME NEW p \in Pids, NEW n \in Nodes, FreesTable(p, n) PROVE TablesApart'
  BY <1>14, HoldTyped, TableWritten DEF FreesTable, HandsStill, TablesApart
<1>15. ASSUME NEW p \in Pids, FreesRoot(p) PROVE TablesApart'
  BY <1>15, HoldTyped, RootWritten, MapEmptied, NoEntryFacts DEF FreesRoot, HandsStill,
         TablesApart
<1> QED BY <1>1, <1>2, <1>3, <1>4, <1>5, <1>6, <1>7, <1>8, <1>9, <1>10, <1>11, <1>12,
       <1>13, <1>14, <1>15 DEF Move

\* The viewer's page is not in hand.
LEMMA HoldApartKept == Orderly /\ Apart /\ Move => HoldApart'
<1> SUFFICES ASSUME Orderly, Apart, Move PROVE HoldApart'
  OBVIOUS
<1> USE DEF Apart
<1>1. CASE Leaves
  BY <1>1, HoldTyped DEF Leaves, HandsStill, HoldApart
<1>2. CASE LosesPage
  BY <1>2, HoldTyped DEF LosesPage, HoldApart
<1>3. CASE DropsPage
  BY <1>3, HoldTyped DEF DropsPage, HoldApart
<1>4. CASE SoftReboot
  BY <1>4, HoldTyped, AfterReboot, NoEntryFacts DEF HoldApart
<1>5. ASSUME NEW q \in Allocatable, TakesPage(q) PROVE HoldApart'
  BY <1>5, HoldTyped, FreshIsUnused DEF TakesPage, Unused, HoldApart
<1>6. ASSUME NEW q \in Allocatable, TakesViewer(q) PROVE HoldApart'
  BY <1>6, HoldTyped, FreshIsUnused DEF TakesViewer, HandsStill, Unused, HoldApart
<1>7. ASSUME NEW p \in Pids, NEW q \in Allocatable, TakesRoot(p, q) PROVE HoldApart'
  BY <1>7, HoldTyped, FreshIsUnused, RootWritten DEF TakesRoot, HandsStill, Unused,
         HoldApart
<1>8. ASSUME NEW p \in Pids, NEW n \in Nodes, NEW q \in Allocatable, TakesTable(p, n, q)
       PROVE HoldApart'
  BY <1>8, HoldTyped, FreshIsUnused, TableWritten DEF TakesTable, HandsStill, Unused,
         HoldApart
<1>9. ASSUME NEW p \in Pids, NEW va \in VA, NEW e \in [pa: Pages, perm: Perm],
       MapsPage(p, va, e) PROVE HoldApart'
  BY <1>9, HoldTyped, LeafWritten DEF MapsPage, HoldApart
<1>10. ASSUME NEW p \in Pids, NEW va \in VA, NEW e \in [pa: Pages, perm: Perm],
       MapsNothing(p, va, e) PROVE HoldApart'
  BY <1>10, HoldTyped, LeafWritten DEF MapsNothing, HandsStill, HoldApart
<1>11. ASSUME NEW p \in Pids, NEW va \in VA, NEW e \in [pa: Pages, perm: Perm],
       MapsKernel(p, va, e) PROVE HoldApart'
  BY <1>11, HoldTyped, LeafWritten DEF MapsKernel, HandsStill, HoldApart
<1>12. ASSUME NEW p \in Pids, NEW va \in VA, NEW e \in [pa: Pages, perm: Perm],
       SharesPage(p, va, e) PROVE HoldApart'
  BY <1>12, HoldTyped, LeafWritten DEF SharesPage, HandsStill, HoldApart
<1>13. ASSUME NEW p \in Pids, NEW va \in VA, FreesLeaf(p, va) PROVE HoldApart'
  BY <1>13, HoldTyped, LeafWritten, NoEntryFacts DEF FreesLeaf, HandsStill, HoldApart
<1>14. ASSUME NEW p \in Pids, NEW n \in Nodes, FreesTable(p, n) PROVE HoldApart'
  BY <1>14, HoldTyped, TableWritten DEF FreesTable, HandsStill, HoldApart
<1>15. ASSUME NEW p \in Pids, FreesRoot(p) PROVE HoldApart'
  BY <1>15, HoldTyped, RootWritten, MapEmptied, NoEntryFacts DEF FreesRoot, HandsStill,
         HoldApart
<1> QED BY <1>1, <1>2, <1>3, <1>4, <1>5, <1>6, <1>7, <1>8, <1>9, <1>10, <1>11, <1>12,
       <1>13, <1>14, <1>15 DEF Move

\* A mapped page is neither a table's, nor the viewer's, nor in hand.
LEMMA LeavesApartKept == Orderly /\ Apart /\ Move => LeavesApart'
<1> SUFFICES ASSUME Orderly, Apart, Move PROVE LeavesApart'
  OBVIOUS
<1> USE DEF Apart
<1>1. CASE Leaves
  BY <1>1, HoldTyped DEF Leaves, HandsStill, LeavesApart
<1>2. CASE LosesPage
  BY <1>2, HoldTyped DEF LosesPage, LeavesApart
<1>3. CASE DropsPage
  BY <1>3, HoldTyped DEF DropsPage, LeavesApart
<1>4. CASE SoftReboot
  BY <1>4, HoldTyped, AfterReboot, NoEntryFacts DEF LeavesApart
<1>5. ASSUME NEW q \in Allocatable, TakesPage(q) PROVE LeavesApart'
  BY <1>5, HoldTyped, FreshIsUnused DEF TakesPage, Unused, LeavesApart
<1>6. ASSUME NEW q \in Allocatable, TakesViewer(q) PROVE LeavesApart'
  BY <1>6, HoldTyped, FreshIsUnused DEF TakesViewer, HandsStill, Unused, LeavesApart
<1>7. ASSUME NEW p \in Pids, NEW q \in Allocatable, TakesRoot(p, q) PROVE LeavesApart'
  BY <1>7, HoldTyped, FreshIsUnused, RootWritten DEF TakesRoot, HandsStill, Unused,
         LeavesApart
<1>8. ASSUME NEW p \in Pids, NEW n \in Nodes, NEW q \in Allocatable, TakesTable(p, n, q)
       PROVE LeavesApart'
  BY <1>8, HoldTyped, FreshIsUnused, TableWritten DEF TakesTable, HandsStill, Unused,
         LeavesApart
<1>9. ASSUME NEW p \in Pids, NEW va \in VA, NEW e \in [pa: Pages, perm: Perm],
       MapsPage(p, va, e) PROVE LeavesApart'
  <2> SUFFICES ASSUME NEW r \in Pids, NEW w \in UserVA,
                      present(map'[r][w]), map'[r][w].pa # Null
               PROVE  /\ map'[r][w].pa # viewer' /\ map'[r][w].pa # kern'.hold
                      /\ \A s \in Pids : /\ map'[r][w].pa # root'[s]
                                         /\ \A n \in Nodes : map'[r][w].pa # tables'[s][n]
    BY DEF LeavesApart, present
  <2>1. CASE r = p /\ w = va
    <3>1. map'[r][w].pa = kern.hold /\ kern.hold # Null /\ kern.hold # None
      BY <1>9, <2>1, HoldTyped, LeafWritten DEF MapsPage
    <3>2. viewer' = viewer /\ root' = root /\ tables' = tables /\ kern'.hold = None
      BY <1>9, LeafWritten DEF MapsPage
    <3> QED BY <3>1, <3>2 DEF RootsApart, TablesApart, HoldApart
  <2>2. CASE ~(r = p /\ w = va)
    <3>1. map'[r][w] = map[r][w]
      BY <1>9, <2>2, HoldTyped, LeafWritten DEF MapsPage
    <3>2. viewer' = viewer /\ root' = root /\ tables' = tables /\ kern'.hold = None
      BY <1>9, LeafWritten DEF MapsPage
    <3> QED BY <3>1, <3>2, HoldTyped DEF LeavesApart
  <2> QED BY <2>1, <2>2
<1>10. ASSUME NEW p \in Pids, NEW va \in VA, NEW e \in [pa: Pages, perm: Perm],
       MapsNothing(p, va, e) PROVE LeavesApart'
  BY <1>10, HoldTyped, LeafWritten DEF MapsNothing, HandsStill, LeavesApart
<1>11. ASSUME NEW p \in Pids, NEW va \in VA, NEW e \in [pa: Pages, perm: Perm],
       MapsKernel(p, va, e) PROVE LeavesApart'
  BY <1>11, HoldTyped, LeafWritten DEF MapsKernel, HandsStill, LeavesApart
<1>12. ASSUME NEW p \in Pids, NEW va \in VA, NEW e \in [pa: Pages, perm: Perm],
       SharesPage(p, va, e) PROVE LeavesApart'
  <2>1. current \in Pids /\ present(e) /\ e = map[current][va] /\ va \in UserVA
    BY <1>12 DEF Orderly, TypeOK, SharesPage, user, present
  <2>2. \A r \in Pids, w \in UserVA : map'[r][w] \in {map[r][w], map[current][w]}
    BY <1>12, <2>1, HoldTyped, LeafWritten DEF SharesPage
  <2>3. viewer' = viewer /\ root' = root /\ tables' = tables /\ kern'.hold = kern.hold
    BY <1>12, LeafWritten DEF SharesPage, HandsStill
  <2> QED BY <2>1, <2>2, <2>3 DEF LeavesApart
<1>13. ASSUME NEW p \in Pids, NEW va \in VA, FreesLeaf(p, va) PROVE LeavesApart'
  BY <1>13, HoldTyped, LeafWritten, NoEntryFacts DEF FreesLeaf, HandsStill, LeavesApart
<1>14. ASSUME NEW p \in Pids, NEW n \in Nodes, FreesTable(p, n) PROVE LeavesApart'
  BY <1>14, HoldTyped, TableWritten DEF FreesTable, HandsStill, LeavesApart
<1>15. ASSUME NEW p \in Pids, FreesRoot(p) PROVE LeavesApart'
  BY <1>15, HoldTyped, RootWritten, MapEmptied, NoEntryFacts DEF FreesRoot, HandsStill,
         LeavesApart
<1> QED BY <1>1, <1>2, <1>3, <1>4, <1>5, <1>6, <1>7, <1>8, <1>9, <1>10, <1>11, <1>12,
       <1>13, <1>14, <1>15 DEF Move

\* Two leaves share a page only at the same address and read-only.
LEMMA SharedReadOnlyKept == Orderly /\ Apart /\ Move => SharedReadOnly'
<1> SUFFICES ASSUME Orderly, Apart, Move PROVE SharedReadOnly'
  OBVIOUS
<1> USE DEF Apart
<1>1. CASE Leaves
  BY <1>1, HoldTyped DEF Leaves, HandsStill, SharedReadOnly
<1>2. CASE LosesPage
  BY <1>2, HoldTyped DEF LosesPage, SharedReadOnly
<1>3. CASE DropsPage
  BY <1>3, HoldTyped DEF DropsPage, SharedReadOnly
<1>4. CASE SoftReboot
  BY <1>4, HoldTyped, AfterReboot, NoEntryFacts DEF SharedReadOnly
<1>5. ASSUME NEW q \in Allocatable, TakesPage(q) PROVE SharedReadOnly'
  BY <1>5, HoldTyped, FreshIsUnused DEF TakesPage, Unused, SharedReadOnly
<1>6. ASSUME NEW q \in Allocatable, TakesViewer(q) PROVE SharedReadOnly'
  BY <1>6, HoldTyped, FreshIsUnused DEF TakesViewer, HandsStill, Unused, SharedReadOnly
<1>7. ASSUME NEW p \in Pids, NEW q \in Allocatable, TakesRoot(p, q) PROVE
       SharedReadOnly'
  BY <1>7, HoldTyped, FreshIsUnused, RootWritten DEF TakesRoot, HandsStill, Unused,
         SharedReadOnly
<1>8. ASSUME NEW p \in Pids, NEW n \in Nodes, NEW q \in Allocatable, TakesTable(p, n, q)
       PROVE SharedReadOnly'
  BY <1>8, HoldTyped, FreshIsUnused, TableWritten DEF TakesTable, HandsStill, Unused,
         SharedReadOnly
<1>9. ASSUME NEW p \in Pids, NEW va \in VA, NEW e \in [pa: Pages, perm: Perm],
       MapsPage(p, va, e) PROVE SharedReadOnly'
  <2> SUFFICES ASSUME NEW r \in Pids, NEW w \in UserVA, NEW s \in Pids, NEW x \in UserVA,
                      present(map'[r][w]), map'[r][w].pa # Null, present(map'[s][x]),
                      map'[s][x].pa = map'[r][w].pa, <<r, w>> # <<s, x>>
               PROVE  x = w /\ ~writable(map'[r][w])
    BY DEF SharedReadOnly, present, writable
  <2>1. \A y \in Pids, z \in UserVA : map'[y][z] = IF y = p /\ z = va THEN e ELSE map[y][z]
    BY <1>9, HoldTyped, LeafWritten DEF MapsPage
  <2>2. e.pa = kern.hold
    BY <1>9 DEF MapsPage
  <2>3. \A y \in Pids, z \in UserVA :
            present(map[y][z]) /\ map[y][z].pa # Null => map[y][z].pa # kern.hold
    BY DEF LeavesApart
  <2>4. map'[r][w] = map[r][w] /\ map'[s][x] = map[s][x]
    BY <2>1, <2>2, <2>3
  <2> QED BY <2>4 DEF SharedReadOnly
<1>10. ASSUME NEW p \in Pids, NEW va \in VA, NEW e \in [pa: Pages, perm: Perm],
       MapsNothing(p, va, e) PROVE SharedReadOnly'
  BY <1>10, HoldTyped, LeafWritten DEF MapsNothing, HandsStill, SharedReadOnly
<1>11. ASSUME NEW p \in Pids, NEW va \in VA, NEW e \in [pa: Pages, perm: Perm],
       MapsKernel(p, va, e) PROVE SharedReadOnly'
  BY <1>11, HoldTyped, LeafWritten DEF MapsKernel, HandsStill, SharedReadOnly
<1>12. ASSUME NEW p \in Pids, NEW va \in VA, NEW e \in [pa: Pages, perm: Perm],
       SharesPage(p, va, e) PROVE SharedReadOnly'
  <2> SUFFICES ASSUME NEW r \in Pids, NEW w \in UserVA, NEW s \in Pids, NEW x \in UserVA,
                      present(map'[r][w]), map'[r][w].pa # Null, present(map'[s][x]),
                      map'[s][x].pa = map'[r][w].pa, <<r, w>> # <<s, x>>
               PROVE  x = w /\ ~writable(map'[r][w])
    BY DEF SharedReadOnly, present, writable
  <2>1. \A y \in Pids, z \in UserVA : map'[y][z] = IF y = p /\ z = va THEN e ELSE map[y][z]
    BY <1>12, HoldTyped, LeafWritten DEF SharesPage
  <2>2. current \in Pids /\ e = map[current][va] /\ ~writable(e) /\ va \in UserVA
    BY <1>12 DEF Orderly, TypeOK, SharesPage
  <2>3. CASE r = p /\ w = va
    <3>1. map'[r][w] = map[current][va] /\ map'[s][x] = map[s][x]
      BY <2>1, <2>2, <2>3
    <3> QED BY <2>2, <2>3, <3>1 DEF SharedReadOnly
  <2>4. CASE s = p /\ x = va
    <3>1. map'[s][x] = map[current][va] /\ map'[r][w] = map[r][w]
      BY <2>1, <2>2, <2>4
    <3> QED BY <2>2, <2>4, <3>1 DEF SharedReadOnly
  <2>5. CASE ~(r = p /\ w = va) /\ ~(s = p /\ x = va)
    <3>1. map'[r][w] = map[r][w] /\ map'[s][x] = map[s][x]
      BY <2>1, <2>5
    <3> QED BY <3>1 DEF SharedReadOnly
  <2> QED BY <2>3, <2>4, <2>5
<1>13. ASSUME NEW p \in Pids, NEW va \in VA, FreesLeaf(p, va) PROVE SharedReadOnly'
  BY <1>13, HoldTyped, LeafWritten, NoEntryFacts DEF FreesLeaf, HandsStill, SharedReadOnly
<1>14. ASSUME NEW p \in Pids, NEW n \in Nodes, FreesTable(p, n) PROVE SharedReadOnly'
  BY <1>14, HoldTyped, TableWritten DEF FreesTable, HandsStill, SharedReadOnly
<1>15. ASSUME NEW p \in Pids, FreesRoot(p) PROVE SharedReadOnly'
  BY <1>15, HoldTyped, RootWritten, MapEmptied, NoEntryFacts DEF FreesRoot, HandsStill,
         SharedReadOnly
<1> QED BY <1>1, <1>2, <1>3, <1>4, <1>5, <1>6, <1>7, <1>8, <1>9, <1>10, <1>11, <1>12,
       <1>13, <1>14, <1>15 DEF Move


-----------------------------------------------------------------------------
(* The moves keep the counts exact.                                        *)

Leaf(r) == Cardinality(LeafRefs(r))
Node(r) == Cardinality(TableRefs(r))
Root(r) == Cardinality(RootRefs(r))
InHand(r) == IF kern.hold = r THEN 1 ELSE 0
InView(r) == IF viewer = r THEN 1 ELSE 0

\* One element more or less in a finite set.
LEMMA OneElement ==
    ASSUME NEW S, IsFiniteSet(S), NEW x, NEW T, NEW b \in BOOLEAN,
           T = IF b THEN S \cup {x} ELSE S \ {x}
    PROVE  /\ Cardinality(T) = Cardinality(S) + (IF b THEN 1 ELSE 0) - (IF x \in S THEN 1 ELSE 0)
           /\ Cardinality(T) \in Nat
<1>1. Cardinality(S) \in Nat /\ IsFiniteSet(S \cup {x}) /\ IsFiniteSet(S \ {x})
  BY FS_CardinalityType, FS_AddElement, FS_RemoveElement
<1>2. Cardinality(S \cup {x}) = IF x \in S THEN Cardinality(S) ELSE Cardinality(S) + 1
  BY FS_AddElement
<1>3. Cardinality(S \ {x}) = IF x \in S THEN Cardinality(S) - 1 ELSE Cardinality(S)
  BY FS_RemoveElement
<1>4. Cardinality(T) \in Nat
  BY <1>1, FS_CardinalityType
<1>5. CASE b
  BY <1>1, <1>2, <1>4, <1>5
<1>6. CASE ~b
  BY <1>1, <1>3, <1>4, <1>6
<1> QED BY <1>5, <1>6

\* What a write does to the number of leaves, nodes and roots that refer to r.
LEMMA LeafCount ==
    ASSUME Orderly, NEW r \in Allocatable, NEW p \in Pids, NEW va \in UserVA,
           NEW e, WritesLeaf(p, va, e)
    PROVE  /\ Leaf(r)' = Leaf(r) + (IF present(e) /\ e.pa = r THEN 1 ELSE 0)
                       - (IF present(map[p][va]) /\ map[p][va].pa = r THEN 1 ELSE 0)
           /\ Leaf(r)' \in Nat
<1> DEFINE b == present(e) /\ e.pa = r
           x == <<p, va>>
<1>1. IsFiniteSet(LeafRefs(r)) /\ b \in BOOLEAN
  BY FreeIsUnused DEF present
<1>2. va \in VA
  BY HoldTyped
<1>3. \A s \in Pids, w \in UserVA : map'[s][w] = IF s = p /\ w = va THEN e ELSE map[s][w]
  BY <1>2, LeafWritten, HoldTyped
<1>4. LeafRefs(r)' = IF b THEN LeafRefs(r) \cup {x} ELSE LeafRefs(r) \ {x}
  <2>1. ASSUME NEW l \in Pids \X UserVA
        PROVE  l \in LeafRefs(r)' <=> IF l = x THEN b ELSE l \in LeafRefs(r)
    <3>1. l = <<l[1], l[2]>> /\ l[1] \in Pids /\ l[2] \in UserVA
      OBVIOUS
    <3>2. l \in LeafRefs(r)' <=> present(map'[l[1]][l[2]]) /\ map'[l[1]][l[2]].pa = r
      BY DEF LeafRefs, present
    <3>3. l \in LeafRefs(r) <=> present(map[l[1]][l[2]]) /\ map[l[1]][l[2]].pa = r
      BY DEF LeafRefs
    <3>4. CASE l = x
      BY <1>3, <3>1, <3>2, <3>4
    <3>5. CASE l # x
      <4>1. map'[l[1]][l[2]] = map[l[1]][l[2]]
        BY <1>3, <3>1, <3>5
      <4> QED BY <3>2, <3>3, <3>5, <4>1
    <3> QED BY <3>4, <3>5
  <2>2. LeafRefs(r)' \subseteq Pids \X UserVA /\ LeafRefs(r) \subseteq Pids \X UserVA
    BY DEF LeafRefs
  <2>3. x \in Pids \X UserVA
    OBVIOUS
  <2> HIDE DEF b, x
  <2>4. CASE b
    BY <2>1, <2>2, <2>3, <2>4
  <2>5. CASE ~b
    BY <2>1, <2>2, <2>3, <2>5
  <2> QED BY <2>4, <2>5
<1>5. x \in LeafRefs(r) <=> present(map[p][va]) /\ map[p][va].pa = r
  BY DEF LeafRefs
<1>6. /\ Cardinality(LeafRefs(r)') = Cardinality(LeafRefs(r)) + (IF b THEN 1 ELSE 0)
                                  - (IF x \in LeafRefs(r) THEN 1 ELSE 0)
      /\ Cardinality(LeafRefs(r)') \in Nat
  <2> HIDE DEF b, x
  <2> QED BY <1>1, <1>4, OneElement
<1> QED BY <1>5, <1>6 DEF Leaf

\* What a write does to the number of inner nodes that refer to r.
LEMMA NodeCount ==
    ASSUME Orderly, NEW r \in Allocatable, NEW p \in Pids, NEW n \in Nodes,
           NEW q, WritesTable(p, n, q)
    PROVE  /\ Node(r)' = Node(r) + (IF q = r THEN 1 ELSE 0)
                       - (IF tables[p][n] = r THEN 1 ELSE 0)
           /\ Node(r)' \in Nat
<1> DEFINE b == q = r
           x == <<p, n>>
<1>1. IsFiniteSet(TableRefs(r)) /\ b \in BOOLEAN
  BY FreeIsUnused
<1>2. \A s \in Pids, m \in Nodes : tables'[s][m] = IF s = p /\ m = n THEN q ELSE tables[s][m]
  BY TableWritten
<1>3. TableRefs(r)' = IF b THEN TableRefs(r) \cup {x} ELSE TableRefs(r) \ {x}
  <2>1. ASSUME NEW l \in Pids \X Nodes
        PROVE  l \in TableRefs(r)' <=> IF l = x THEN b ELSE l \in TableRefs(r)
    <3>1. l = <<l[1], l[2]>> /\ l[1] \in Pids /\ l[2] \in Nodes
      OBVIOUS
    <3> QED BY <1>2, <3>1 DEF TableRefs
  <2>2. TableRefs(r)' \subseteq Pids \X Nodes /\ TableRefs(r) \subseteq Pids \X Nodes
    BY DEF TableRefs
  <2>3. x \in Pids \X Nodes
    OBVIOUS
  <2> HIDE DEF b, x
  <2>4. CASE b
    BY <2>1, <2>2, <2>3, <2>4
  <2>5. CASE ~b
    BY <2>1, <2>2, <2>3, <2>5
  <2> QED BY <2>4, <2>5
<1>4. x \in TableRefs(r) <=> tables[p][n] = r
  BY DEF TableRefs
<1>5. /\ Cardinality(TableRefs(r)') = Cardinality(TableRefs(r)) + (IF b THEN 1 ELSE 0)
                                  - (IF x \in TableRefs(r) THEN 1 ELSE 0)
      /\ Cardinality(TableRefs(r)') \in Nat
  <2> HIDE DEF b, x
  <2> QED BY <1>1, <1>3, OneElement
<1> QED BY <1>4, <1>5 DEF Node

\* What a write does to the number of roots that refer to r.
LEMMA RootCount ==
    ASSUME Orderly, NEW r \in Allocatable, NEW p \in Pids, NEW q, WritesRoot(p, q)
    PROVE  /\ Root(r)' = Root(r) + (IF q = r THEN 1 ELSE 0) - (IF root[p] = r THEN 1 ELSE 0)
           /\ Root(r)' \in Nat
<1> DEFINE b == q = r
<1>1. IsFiniteSet(RootRefs(r)) /\ b \in BOOLEAN
  BY FreeIsUnused
<1>2. \A s \in Pids : root'[s] = IF s = p THEN q ELSE root[s]
  BY RootWritten
<1>3. RootRefs(r)' = IF b THEN RootRefs(r) \cup {p} ELSE RootRefs(r) \ {p}
  BY <1>2 DEF RootRefs
<1>4. p \in RootRefs(r) <=> root[p] = r
  BY DEF RootRefs
<1>5. /\ Cardinality(RootRefs(r)') = Cardinality(RootRefs(r)) + (IF b THEN 1 ELSE 0)
                                  - (IF p \in RootRefs(r) THEN 1 ELSE 0)
      /\ Cardinality(RootRefs(r)') \in Nat
  <2> HIDE DEF b
  <2> QED BY <1>1, <1>3, OneElement
<1> QED BY <1>4, <1>5 DEF Root

\* A table that is not written keeps its numbers of references.
LEMMA CountsStill ==
    ASSUME NEW r
    PROVE  /\ map' = map => Leaf(r)' = Leaf(r)
           /\ tables' = tables => Node(r)' = Node(r)
           /\ root' = root => Root(r)' = Root(r)
<1>1. ASSUME map' = map PROVE Leaf(r)' = Leaf(r)
  BY <1>1 DEF Leaf, LeafRefs, present
<1>2. ASSUME tables' = tables PROVE Node(r)' = Node(r)
  BY <1>2 DEF Node, TableRefs
<1>3. ASSUME root' = root PROVE Root(r)' = Root(r)
  BY <1>3 DEF Root, RootRefs
<1> QED BY <1>1, <1>2, <1>3

\* The count of a page, as a sum.
LEMMA Sum ==
    ASSUME Orderly, NEW r \in Allocatable
    PROVE  /\ pages[r] = Leaf(r) + Node(r) + Root(r) + InHand(r) + InView(r) + lost[r]
           /\ Leaf(r) \in Nat /\ Node(r) \in Nat /\ Root(r) \in Nat
           /\ lost[r] \in Nat /\ pages[r] \in Nat
           /\ InHand(r) \in {0, 1} /\ InView(r) \in {0, 1}
<1>1. pages[r] = Refs(r) + lost[r]
  BY DEF Orderly, RefcountExact
<1>2. Refs(r) = Leaf(r) + Node(r) + Root(r) + InHand(r) + InView(r)
  BY DEF Refs, Leaf, Node, Root, InHand, InView
<1>3. /\ Leaf(r) \in Nat /\ Node(r) \in Nat /\ Root(r) \in Nat
      /\ lost[r] \in Nat /\ pages[r] \in Nat
  BY FreeIsUnused DEF Leaf, Node, Root
<1> QED BY <1>1, <1>2, <1>3 DEF InHand, InView

\* All terms of a free page's count are zero.
LEMMA FreeSum ==
    ASSUME Orderly, NEW r \in Allocatable, pages[r] = 0
    PROVE  /\ Leaf(r) = 0 /\ Node(r) = 0 /\ Root(r) = 0 /\ lost[r] = 0
           /\ InHand(r) = 0 /\ InView(r) = 0
BY FreeIsUnused, FS_EmptySet DEF Leaf, Node, Root, InHand, InView

\* The sum after a step is the count after it.
LEMMA SumAfter ==
    ASSUME NEW r,
           pages'[r] = Leaf(r)' + Node(r)' + Root(r)' + InHand(r)' + InView(r)' + lost'[r]
    PROVE  pages'[r] = Refs(r)' + lost'[r]
BY DEF Refs, Leaf, Node, Root, InHand, InView

\* A page that fork shares is referred to by other leaves at the same address
\* only, so that its count has room for one more.
LEMMA ShareFits ==
    ASSUME Orderly, Apart, NEW p \in Pids, NEW va \in VA, NEW e, SharesPage(p, va, e),
           e.pa \in Allocatable
    PROVE  pages[e.pa] + 1 <= 255
<1> DEFINE q == e.pa
           P == Pids \ {p}
           S == P \X {va}
<1>1. /\ va \in UserVA /\ current \in Pids /\ e = map[current][va] /\ present(e)
      /\ ~present(map[p][va])
  BY DEF SharesPage, Orderly, TypeOK, user, present
<1>2. q # Null
  BY HoldTyped
<1>3. Node(q) = 0 /\ Root(q) = 0 /\ InHand(q) = 0 /\ InView(q) = 0
  <2>1. TableRefs(q) = {} /\ RootRefs(q) = {} /\ viewer # q /\ kern.hold # q
    BY <1>1, <1>2 DEF TableRefs, RootRefs, Apart, LeavesApart
  <2> QED BY <2>1, FS_EmptySet DEF Node, Root, InHand, InView
<1>4. LeafRefs(q) \subseteq S
  <2> SUFFICES ASSUME NEW l \in LeafRefs(q) PROVE l \in S
    OBVIOUS
  <2>1. /\ l \in Pids \X UserVA /\ l[1] \in Pids /\ l[2] \in UserVA /\ l = <<l[1], l[2]>>
        /\ present(map[l[1]][l[2]]) /\ map[l[1]][l[2]].pa = q
    BY DEF LeafRefs
  <2>2. l[2] = va
    BY <1>1, <1>2, <2>1 DEF Apart, SharedReadOnly
  <2>3. l[1] # p
    BY <1>1, <2>1, <2>2
  <2> QED BY <2>1, <2>2, <2>3
<1>5. IsFiniteSet(S) /\ Cardinality(S) = NPROC - 1
  <2>1. IsFiniteSet(Pids) /\ Cardinality(Pids) = NPROC
    <3>1. 0 \in Int /\ NPROC - 1 \in Int
      BY KernelConstants
    <3> QED BY <3>1, FS_Interval, KernelConstants DEF Pids
  <2>2. IsFiniteSet(P) /\ Cardinality(P) = NPROC - 1
    BY <2>1, FS_RemoveElement
  <2>3. IsFiniteSet({va}) /\ Cardinality({va}) = 1
    BY FS_Singleton
  <2>4. IsFiniteSet(S) /\ Cardinality(S) = Cardinality(P) * Cardinality({va})
    <3> HIDE DEF P
    <3> QED BY <2>2, <2>3, FS_Product
  <2> QED BY <2>2, <2>3, <2>4, KernelConstants
<1>6. Leaf(q) <= NPROC - 1
  <2> HIDE DEF S, q
  <2> QED BY <1>4, <1>5, FS_Subset DEF Leaf
<1>7. lost[q] <= MaxLost + 1
  BY HoldTyped DEF Orderly, LostBound
<1>8. q \in Allocatable
  OBVIOUS
<1> HIDE DEF q
<1>9. pages[q] = Leaf(q) + lost[q] /\ Leaf(q) \in Nat /\ lost[q] \in Nat
  BY <1>3, <1>8, Sum
<1>10. pages[q] + 1 <= 255
  BY <1>6, <1>7, <1>9, KernelConstants
<1> QED BY <1>10 DEF q

\* Every move keeps the counts exact.
LEMMA CountsKept == Orderly /\ Apart /\ Move => RefcountExact'
<1> SUFFICES ASSUME Orderly, Apart, Move PROVE RefcountExact'
  OBVIOUS
<1>1. CASE Leaves
  <2> SUFFICES ASSUME NEW r \in Allocatable PROVE pages'[r] = Refs(r)' + lost'[r]
    BY DEF RefcountExact
  <2>1. Leaf(r)' = Leaf(r)
    BY <1>1, CountsStill DEF Leaves
  <2>2. Node(r)' = Node(r)
    BY <1>1, CountsStill DEF Leaves
  <2>3. Root(r)' = Root(r)
    BY <1>1, CountsStill DEF Leaves
  <2>4. InHand(r)' = InHand(r) /\ InView(r)' = InView(r)
    BY <1>1 DEF Leaves, HandsStill, InHand, InView
  <2>5. lost'[r] = lost[r] /\ pages'[r] = pages[r]
    BY <1>1 DEF Leaves
  <2>6. pages'[r] = Leaf(r)' + Node(r)' + Root(r)' + InHand(r)' + InView(r)' + lost'[r]
    BY <2>1, <2>2, <2>3, <2>4, <2>5, Sum
  <2> QED BY <2>6, SumAfter
<1>2. CASE LosesPage
  <2> SUFFICES ASSUME NEW r \in Allocatable PROVE pages'[r] = Refs(r)' + lost'[r]
    BY DEF RefcountExact
  <2>1. Leaf(r)' = Leaf(r)
    BY <1>2, CountsStill DEF LosesPage
  <2>2. Node(r)' = Node(r)
    BY <1>2, CountsStill DEF LosesPage
  <2>3. Root(r)' = Root(r)
    BY <1>2, CountsStill DEF LosesPage
  <2>4. InHand(r)' = 0 /\ InView(r)' = InView(r)
    BY <1>2, HoldTyped DEF LosesPage, InHand, InView
  <2>5. lost'[r] = (IF r = kern.hold THEN lost[r] + 1 ELSE lost[r]) /\ pages'[r] = pages[r]
    BY <1>2, HoldTyped DEF LosesPage, Lose, Orderly, TypeOK
  <2>6. pages'[r] = Leaf(r)' + Node(r)' + Root(r)' + InHand(r)' + InView(r)' + lost'[r]
    BY <2>1, <2>2, <2>3, <2>4, <2>5, Sum DEF InHand
  <2> QED BY <2>6, SumAfter
<1>3. CASE DropsPage
  <2> SUFFICES ASSUME NEW r \in Allocatable PROVE pages'[r] = Refs(r)' + lost'[r]
    BY DEF RefcountExact
  <2>1. Leaf(r)' = Leaf(r)
    BY <1>3, CountsStill DEF DropsPage
  <2>2. Node(r)' = Node(r)
    BY <1>3, CountsStill DEF DropsPage
  <2>3. Root(r)' = Root(r)
    BY <1>3, CountsStill DEF DropsPage
  <2>4. InHand(r)' = 0 /\ InView(r)' = InView(r)
    BY <1>3, HoldTyped DEF DropsPage, InHand, InView
  <2>5. lost'[r] = lost[r] /\ pages'[r] = IF r = kern.hold /\ pages[r] # 0 THEN pages[r] - 1 ELSE pages[r]
    BY <1>3, HoldTyped DEF DropsPage, Release, Orderly, TypeOK
  <2>6. pages'[r] = Leaf(r)' + Node(r)' + Root(r)' + InHand(r)' + InView(r)' + lost'[r]
    BY <2>1, <2>2, <2>3, <2>4, <2>5, Sum DEF InHand
  <2> QED BY <2>6, SumAfter
<1>4. CASE SoftReboot
  <2> SUFFICES ASSUME NEW r \in Allocatable PROVE pages'[r] = Refs(r)' + lost'[r]
    BY DEF RefcountExact
  <2>1. LeafRefs(r)' = {} /\ TableRefs(r)' = {} /\ RootRefs(r)' = {}
    <3>1. r # Null
      BY HoldTyped
    <3>2. \A s \in Pids, w \in UserVA : ~present(map'[s][w])
      BY <1>4, AfterReboot, HoldTyped, NoEntryFacts
    <3> QED BY <1>4, <3>1, <3>2, AfterReboot DEF LeafRefs, TableRefs, RootRefs, present
  <2>2. Leaf(r)' = 0 /\ Node(r)' = 0 /\ Root(r)' = 0
    BY <2>1, FS_EmptySet DEF Leaf, Node, Root
  <2>3. InHand(r)' = 0 /\ InView(r)' = 0 /\ pages'[r] = 0 /\ lost'[r] = 0
    BY <1>4, AfterReboot, HoldTyped DEF InHand, InView
  <2>4. pages'[r] = Leaf(r)' + Node(r)' + Root(r)' + InHand(r)' + InView(r)' + lost'[r]
    BY <2>2, <2>3
  <2> QED BY <2>4, SumAfter
<1>5. ASSUME NEW q \in Allocatable, TakesPage(q) PROVE RefcountExact'
  <2> SUFFICES ASSUME NEW r \in Allocatable PROVE pages'[r] = Refs(r)' + lost'[r]
    BY DEF RefcountExact
  <2>1. Leaf(r)' = Leaf(r)
    BY <1>5, CountsStill DEF TakesPage
  <2>2. Node(r)' = Node(r)
    BY <1>5, CountsStill DEF TakesPage
  <2>3. Root(r)' = Root(r)
    BY <1>5, CountsStill DEF TakesPage
  <2>4. InHand(r)' = (IF r = q THEN 1 ELSE 0) /\ (r # q => InHand(r) = 0) /\ InView(r)' = InView(r)
    BY <1>5 DEF TakesPage, InHand, InView
  <2>5. lost'[r] = lost[r] /\ pages'[r] = IF r = q THEN 1 ELSE pages[r]
    BY <1>5, HoldTyped DEF TakesPage, Fresh, Orderly, TypeOK
  <2>6. pages'[r] = Leaf(r)' + Node(r)' + Root(r)' + InHand(r)' + InView(r)' + lost'[r]
    <3>1. CASE r = q
      <4>1. pages[r] = 0
        BY <1>5, <3>1 DEF TakesPage, Fresh
      <4>2. /\ Leaf(r) = 0 /\ Node(r) = 0 /\ Root(r) = 0 /\ lost[r] = 0
            /\ InHand(r) = 0 /\ InView(r) = 0
        BY <4>1, FreeSum
      <4> QED BY <2>1, <2>2, <2>3, <2>4, <2>5, <3>1, <4>2
    <3>2. CASE r # q
      BY <2>1, <2>2, <2>3, <2>4, <2>5, <3>2, Sum
    <3> QED BY <3>1, <3>2
  <2> QED BY <2>6, SumAfter
<1>6. ASSUME NEW q \in Allocatable, TakesViewer(q) PROVE RefcountExact'
  <2> SUFFICES ASSUME NEW r \in Allocatable PROVE pages'[r] = Refs(r)' + lost'[r]
    BY DEF RefcountExact
  <2>1. Leaf(r)' = Leaf(r)
    BY <1>6, CountsStill DEF TakesViewer
  <2>2. Node(r)' = Node(r)
    BY <1>6, CountsStill DEF TakesViewer
  <2>3. Root(r)' = Root(r)
    BY <1>6, CountsStill DEF TakesViewer
  <2>4. InHand(r)' = InHand(r) /\ InView(r)' = (IF r = q THEN 1 ELSE 0) /\ InView(r) = 0
    BY <1>6, HoldTyped DEF TakesViewer, HandsStill, InHand, InView
  <2>5. lost'[r] = lost[r] /\ pages'[r] = IF r = q THEN 1 ELSE pages[r]
    BY <1>6, HoldTyped DEF TakesViewer, Fresh, Orderly, TypeOK
  <2>6. pages'[r] = Leaf(r)' + Node(r)' + Root(r)' + InHand(r)' + InView(r)' + lost'[r]
    <3>1. CASE r = q
      <4>1. pages[r] = 0
        BY <1>6, <3>1 DEF TakesViewer, Fresh
      <4>2. /\ Leaf(r) = 0 /\ Node(r) = 0 /\ Root(r) = 0 /\ lost[r] = 0
            /\ InHand(r) = 0 /\ InView(r) = 0
        BY <4>1, FreeSum
      <4> QED BY <2>1, <2>2, <2>3, <2>4, <2>5, <3>1, <4>2
    <3>2. CASE r # q
      BY <2>1, <2>2, <2>3, <2>4, <2>5, <3>2, Sum
    <3> QED BY <3>1, <3>2
  <2> QED BY <2>6, SumAfter
<1>7. ASSUME NEW p \in Pids, NEW q \in Allocatable, TakesRoot(p, q) PROVE RefcountExact'
  <2> SUFFICES ASSUME NEW r \in Allocatable PROVE pages'[r] = Refs(r)' + lost'[r]
    BY DEF RefcountExact
  <2>1. Leaf(r)' = Leaf(r)
    BY <1>7, CountsStill DEF TakesRoot
  <2>2. Node(r)' = Node(r)
    BY <1>7, CountsStill DEF TakesRoot
  <2>3. Root(r)' = Root(r) + (IF q = r THEN 1 ELSE 0)
    BY <1>7, RootCount, HoldTyped, Sum DEF TakesRoot
  <2>4. InHand(r)' = InHand(r) /\ InView(r)' = InView(r)
    BY <1>7 DEF TakesRoot, HandsStill, InHand, InView
  <2>5. lost'[r] = lost[r] /\ pages'[r] = IF r = q THEN 1 ELSE pages[r]
    BY <1>7, HoldTyped DEF TakesRoot, Fresh, Orderly, TypeOK
  <2>6. pages'[r] = Leaf(r)' + Node(r)' + Root(r)' + InHand(r)' + InView(r)' + lost'[r]
    <3>1. CASE r = q
      <4>1. pages[r] = 0
        BY <1>7, <3>1 DEF TakesRoot, Fresh
      <4>2. /\ Leaf(r) = 0 /\ Node(r) = 0 /\ Root(r) = 0 /\ lost[r] = 0
            /\ InHand(r) = 0 /\ InView(r) = 0
        BY <4>1, FreeSum
      <4> QED BY <2>1, <2>2, <2>3, <2>4, <2>5, <3>1, <4>2
    <3>2. CASE r # q
      BY <2>1, <2>2, <2>3, <2>4, <2>5, <3>2, Sum
    <3> QED BY <3>1, <3>2
  <2> QED BY <2>6, SumAfter
<1>8. ASSUME NEW p \in Pids, NEW n \in Nodes, NEW q \in Allocatable, TakesTable(p, n, q)
       PROVE RefcountExact'
  <2> SUFFICES ASSUME NEW r \in Allocatable PROVE pages'[r] = Refs(r)' + lost'[r]
    BY DEF RefcountExact
  <2>1. Leaf(r)' = Leaf(r)
    BY <1>8, CountsStill DEF TakesTable
  <2>2. Node(r)' = Node(r) + (IF q = r THEN 1 ELSE 0)
    BY <1>8, NodeCount, HoldTyped, Sum DEF TakesTable
  <2>3. Root(r)' = Root(r)
    BY <1>8, CountsStill DEF TakesTable
  <2>4. InHand(r)' = InHand(r) /\ InView(r)' = InView(r)
    BY <1>8 DEF TakesTable, HandsStill, InHand, InView
  <2>5. lost'[r] = lost[r] /\ pages'[r] = IF r = q THEN 1 ELSE pages[r]
    BY <1>8, HoldTyped DEF TakesTable, Fresh, Orderly, TypeOK
  <2>6. pages'[r] = Leaf(r)' + Node(r)' + Root(r)' + InHand(r)' + InView(r)' + lost'[r]
    <3>1. CASE r = q
      <4>1. pages[r] = 0
        BY <1>8, <3>1 DEF TakesTable, Fresh
      <4>2. /\ Leaf(r) = 0 /\ Node(r) = 0 /\ Root(r) = 0 /\ lost[r] = 0
            /\ InHand(r) = 0 /\ InView(r) = 0
        BY <4>1, FreeSum
      <4> QED BY <2>1, <2>2, <2>3, <2>4, <2>5, <3>1, <4>2
    <3>2. CASE r # q
      BY <2>1, <2>2, <2>3, <2>4, <2>5, <3>2, Sum
    <3> QED BY <3>1, <3>2
  <2> QED BY <2>6, SumAfter
<1>9. ASSUME NEW p \in Pids, NEW va \in VA, NEW e \in [pa: Pages, perm: Perm],
       MapsPage(p, va, e) PROVE RefcountExact'
  <2> SUFFICES ASSUME NEW r \in Allocatable PROVE pages'[r] = Refs(r)' + lost'[r]
    BY DEF RefcountExact
  <2>1. Leaf(r)' = Leaf(r) + (IF kern.hold = r THEN 1 ELSE 0)
               - (IF present(map[p][va]) /\ map[p][va].pa = r THEN 1 ELSE 0)
    BY <1>9, LeafCount DEF MapsPage, user, present
  <2>2. Node(r)' = Node(r)
    BY <1>9, CountsStill DEF MapsPage, WritesLeaf
  <2>3. Root(r)' = Root(r)
    BY <1>9, CountsStill DEF MapsPage, WritesLeaf
  <2>4. InHand(r)' = 0 /\ InHand(r) = (IF kern.hold = r THEN 1 ELSE 0) /\ InView(r)' = InView(r)
    BY <1>9, HoldTyped DEF MapsPage, WritesLeaf, InHand, InView
  <2>5. /\ pages'[r] = pages[r]
        /\ lost'[r] = lost[r] + (IF present(map[p][va]) /\ map[p][va].pa = r THEN 1 ELSE 0)
    <3>1. CASE present(map[p][va])
      <4>1. lost \in [Pages -> 0..255] /\ r \in Pages
        BY HoldTyped DEF Orderly, TypeOK
      <4>2. pages' = pages /\ lost' = [lost EXCEPT ![map[p][va].pa] = @ + 1]
        BY <1>9, <3>1 DEF MapsPage, Lose
      <4> QED BY <3>1, <4>1, <4>2
    <3>2. CASE ~present(map[p][va])
      BY <1>9, <3>2, Sum DEF MapsPage
    <3> QED BY <3>1, <3>2
  <2>6. pages'[r] = Leaf(r)' + Node(r)' + Root(r)' + InHand(r)' + InView(r)' + lost'[r]
    BY <2>1, <2>2, <2>3, <2>4, <2>5, Sum
  <2> QED BY <2>6, SumAfter
<1>10. ASSUME NEW p \in Pids, NEW va \in VA, NEW e \in [pa: Pages, perm: Perm],
       MapsNothing(p, va, e) PROVE RefcountExact'
  <2> SUFFICES ASSUME NEW r \in Allocatable PROVE pages'[r] = Refs(r)' + lost'[r]
    BY DEF RefcountExact
  <2>1. Leaf(r)' = Leaf(r)
    BY <1>10, LeafCount, Sum DEF MapsNothing
  <2>2. Node(r)' = Node(r)
    BY <1>10, CountsStill DEF MapsNothing, WritesLeaf
  <2>3. Root(r)' = Root(r)
    BY <1>10, CountsStill DEF MapsNothing, WritesLeaf
  <2>4. InHand(r)' = InHand(r) /\ InView(r)' = InView(r)
    BY <1>10 DEF MapsNothing, WritesLeaf, HandsStill, InHand, InView
  <2>5. lost'[r] = lost[r] /\ pages'[r] = pages[r]
    BY <1>10 DEF MapsNothing
  <2>6. pages'[r] = Leaf(r)' + Node(r)' + Root(r)' + InHand(r)' + InView(r)' + lost'[r]
    BY <2>1, <2>2, <2>3, <2>4, <2>5, Sum
  <2> QED BY <2>6, SumAfter
<1>11. ASSUME NEW p \in Pids, NEW va \in VA, NEW e \in [pa: Pages, perm: Perm],
       MapsKernel(p, va, e) PROVE RefcountExact'
  <2> SUFFICES ASSUME NEW r \in Allocatable PROVE pages'[r] = Refs(r)' + lost'[r]
    BY DEF RefcountExact
  <2>1. Leaf(r)' = Leaf(r)
    <3>1. \A s \in Pids, w \in UserVA : map'[s][w] = map[s][w]
      BY <1>11, LeafWritten, HoldTyped DEF MapsKernel
    <3>2. ASSUME NEW l \in Pids \X UserVA
          PROVE  present(map'[l[1]][l[2]]) = present(map[l[1]][l[2]])
                 /\ map'[l[1]][l[2]].pa = map[l[1]][l[2]].pa
      BY <3>1
    <3>3. LeafRefs(r)' = LeafRefs(r)
      BY <3>2 DEF LeafRefs, present
    <3> QED BY <3>3 DEF Leaf
  <2>2. Node(r)' = Node(r)
    BY <1>11, CountsStill DEF MapsKernel, WritesLeaf
  <2>3. Root(r)' = Root(r)
    BY <1>11, CountsStill DEF MapsKernel, WritesLeaf
  <2>4. InHand(r)' = InHand(r) /\ InView(r)' = InView(r)
    BY <1>11 DEF MapsKernel, WritesLeaf, HandsStill, InHand, InView
  <2>5. lost'[r] = lost[r] /\ pages'[r] = pages[r]
    BY <1>11 DEF MapsKernel
  <2>6. pages'[r] = Leaf(r)' + Node(r)' + Root(r)' + InHand(r)' + InView(r)' + lost'[r]
    BY <2>1, <2>2, <2>3, <2>4, <2>5, Sum
  <2> QED BY <2>6, SumAfter
<1>12. ASSUME NEW p \in Pids, NEW va \in VA, NEW e \in [pa: Pages, perm: Perm],
       SharesPage(p, va, e) PROVE RefcountExact'
  <2> SUFFICES ASSUME NEW r \in Allocatable PROVE pages'[r] = Refs(r)' + lost'[r]
    BY DEF RefcountExact
  <2>1. Leaf(r)' = Leaf(r) + (IF e.pa = r THEN 1 ELSE 0)
    BY <1>12, LeafCount, Sum DEF SharesPage, user, present
  <2>2. Node(r)' = Node(r)
    BY <1>12, CountsStill DEF SharesPage, WritesLeaf
  <2>3. Root(r)' = Root(r)
    BY <1>12, CountsStill DEF SharesPage, WritesLeaf
  <2>4. InHand(r)' = InHand(r) /\ InView(r)' = InView(r)
    BY <1>12 DEF SharesPage, WritesLeaf, HandsStill, InHand, InView
  <2>5. lost'[r] = lost[r] /\ pages'[r] = pages[r] + (IF e.pa = r THEN 1 ELSE 0)
    <3>1. CASE e.pa = r
      <4>1. pages[r] + 1 <= 255 /\ pages[r] \in Nat
        BY <1>12, <3>1, ShareFits, Sum
      <4>2. (pages[r] + 1) % 256 = pages[r] + 1
        BY <4>1
      <4>3. pages'[r] = (pages[r] + 1) % 256
        BY <1>12, <3>1, HoldTyped DEF SharesPage, Orderly, TypeOK
      <4> QED BY <1>12, <3>1, <4>2, <4>3 DEF SharesPage
    <3>2. CASE e.pa # r
      BY <1>12, <3>2, HoldTyped, Sum DEF SharesPage, Orderly, TypeOK
    <3> QED BY <3>1, <3>2
  <2>6. pages'[r] = Leaf(r)' + Node(r)' + Root(r)' + InHand(r)' + InView(r)' + lost'[r]
    BY <2>1, <2>2, <2>3, <2>4, <2>5, Sum
  <2> QED BY <2>6, SumAfter
<1>13. ASSUME NEW p \in Pids, NEW va \in VA, FreesLeaf(p, va) PROVE RefcountExact'
  <2> SUFFICES ASSUME NEW r \in Allocatable PROVE pages'[r] = Refs(r)' + lost'[r]
    BY DEF RefcountExact
  <2>1. /\ Leaf(r)' = Leaf(r) - (IF map[p][va].pa = r THEN 1 ELSE 0)
        /\ Leaf(r)' \in Nat
    BY <1>13, LeafCount, NoEntryFacts, Sum DEF FreesLeaf
  <2>2. Node(r)' = Node(r)
    BY <1>13, CountsStill DEF FreesLeaf, WritesLeaf
  <2>3. Root(r)' = Root(r)
    BY <1>13, CountsStill DEF FreesLeaf, WritesLeaf
  <2>4. InHand(r)' = InHand(r) /\ InView(r)' = InView(r)
    BY <1>13 DEF FreesLeaf, WritesLeaf, HandsStill, InHand, InView
  <2>5. lost'[r] = lost[r] /\ pages'[r] = IF r = map[p][va].pa /\ pages[r] # 0 THEN pages[r] - 1 ELSE pages[r]
    BY <1>13, HoldTyped DEF FreesLeaf, Release, Orderly, TypeOK
  <2>6. pages'[r] = Leaf(r)' + Node(r)' + Root(r)' + InHand(r)' + InView(r)' + lost'[r]
    BY <2>1, <2>2, <2>3, <2>4, <2>5, Sum
  <2> QED BY <2>6, SumAfter
<1>14. ASSUME NEW p \in Pids, NEW n \in Nodes, FreesTable(p, n) PROVE RefcountExact'
  <2> SUFFICES ASSUME NEW r \in Allocatable PROVE pages'[r] = Refs(r)' + lost'[r]
    BY DEF RefcountExact
  <2>1. Leaf(r)' = Leaf(r)
    BY <1>14, CountsStill DEF FreesTable
  <2>2. /\ Node(r)' = Node(r) - (IF tables[p][n] = r THEN 1 ELSE 0)
        /\ Node(r)' \in Nat
    BY <1>14, NodeCount, HoldTyped, Sum DEF FreesTable
  <2>3. Root(r)' = Root(r)
    BY <1>14, CountsStill DEF FreesTable
  <2>4. InHand(r)' = InHand(r) /\ InView(r)' = InView(r)
    BY <1>14 DEF FreesTable, HandsStill, InHand, InView
  <2>5. lost'[r] = lost[r] /\ pages'[r] = IF r = tables[p][n] /\ pages[r] # 0 THEN pages[r] - 1 ELSE pages[r]
    BY <1>14, HoldTyped DEF FreesTable, Release, Orderly, TypeOK
  <2>6. pages'[r] = Leaf(r)' + Node(r)' + Root(r)' + InHand(r)' + InView(r)' + lost'[r]
    BY <2>1, <2>2, <2>3, <2>4, <2>5, Sum
  <2> QED BY <2>6, SumAfter
<1>15. ASSUME NEW p \in Pids, FreesRoot(p) PROVE RefcountExact'
  <2> SUFFICES ASSUME NEW r \in Allocatable PROVE pages'[r] = Refs(r)' + lost'[r]
    BY DEF RefcountExact
  <2>1. Leaf(r)' = Leaf(r)
    <3>1. \A s \in Pids, w \in UserVA : map'[s][w] = IF s = p THEN NoEntry ELSE map[s][w]
      BY <1>15, MapEmptied, HoldTyped DEF FreesRoot
    <3>2. ASSUME NEW l \in Pids \X UserVA
          PROVE  present(map'[l[1]][l[2]]) /\ map'[l[1]][l[2]].pa = r
                 <=> present(map[l[1]][l[2]]) /\ map[l[1]][l[2]].pa = r
      BY <1>15, <3>1, NoEntryFacts DEF FreesRoot
    <3>3. LeafRefs(r)' = LeafRefs(r)
      BY <3>2 DEF LeafRefs, present
    <3> QED BY <3>3 DEF Leaf
  <2>2. Node(r)' = Node(r)
    BY <1>15, CountsStill DEF FreesRoot
  <2>3. /\ Root(r)' = Root(r) - (IF root[p] = r THEN 1 ELSE 0)
        /\ Root(r)' \in Nat
    BY <1>15, RootCount, HoldTyped, Sum DEF FreesRoot
  <2>4. InHand(r)' = InHand(r) /\ InView(r)' = InView(r)
    BY <1>15 DEF FreesRoot, HandsStill, InHand, InView
  <2>5. lost'[r] = lost[r] /\ pages'[r] = IF r = root[p] /\ pages[r] # 0 THEN pages[r] - 1 ELSE pages[r]
    BY <1>15, HoldTyped DEF FreesRoot, Release, Orderly, TypeOK
  <2>6. pages'[r] = Leaf(r)' + Node(r)' + Root(r)' + InHand(r)' + InView(r)' + lost'[r]
    BY <2>1, <2>2, <2>3, <2>4, <2>5, Sum
  <2> QED BY <2>6, SumAfter
<1> QED BY <1>1, <1>2, <1>3, <1>4, <1>5, <1>6, <1>7, <1>8, <1>9, <1>10, <1>11, <1>12,
       <1>13, <1>14, <1>15 DEF Move

-----------------------------------------------------------------------------
(* kalloc finds every free page.                                           *)

\* kalloc's search start passes only the page it hands out.
LEMMA KallocKeepsSearch ==
    ASSUME TypeOK, NoFreePageLost, NEW v, Kalloc(kalloc, v)
    PROVE  NoFreePageLost'
<1> SUFFICES ASSUME NEW q \in Allocatable, pages'[q] = 0 PROVE q >= next_alloc_pa'
  BY DEF NoFreePageLost
<1>1. q \in Nat /\ q \in Pages /\ pages \in [Pages -> 0..255]
  BY Sizes DEF TypeOK
<1>2. CASE kalloc = Null /\ FreePages = {}
  <2>1. pages' = pages
    BY <1>2 DEF Kalloc
  <2>2. q \in FreePages
    BY <2>1 DEF FreePages, NoFreePageLost
  <2> QED BY <1>2, <2>2
<1>3. CASE kalloc \in Allocatable /\ kalloc # Null
  <2>1. pages' = [pages EXCEPT ![kalloc] = 1] /\ next_alloc_pa' = kalloc + 1
    BY <1>3 DEF Kalloc
  <2>2. q # kalloc /\ pages[q] = 0
    BY <1>1, <1>3, <2>1, Sizes
  <2>3. kalloc <= q
    BY <1>3, <2>2, KallocResult DEF NoFreePageLost
  <2>4. kalloc \in Nat
    BY <1>3, Sizes
  <2> QED BY <1>1, <2>1, <2>2, <2>3, <2>4
<1> QED BY <1>2, <1>3, KallocResult

\* kfree moves the search start back to the page it frees.
LEMMA KfreeKeepsSearch ==
    ASSUME TypeOK, NoFreePageLost, NEW pa \in Pages, Kfree(pa)
    PROVE  NoFreePageLost'
<1> SUFFICES ASSUME NEW q \in Allocatable, pages'[q] = 0 PROVE q >= next_alloc_pa'
  BY DEF NoFreePageLost
<1>1. /\ q \in Nat /\ q \in Pages /\ pa \in Nat /\ next_alloc_pa \in Nat /\ q # Null
      /\ pages \in [Pages -> 0..255]
  BY Sizes DEF TypeOK
<1>2. next_alloc_pa' = IF pa # Null /\ pa < next_alloc_pa THEN pa ELSE next_alloc_pa
  BY DEF Kfree
<1>3. CASE q = pa
  BY <1>1, <1>2, <1>3
<1>4. CASE q # pa
  <2>1. pages[q] = 0
    BY <1>1, <1>4 DEF Kfree
  <2>2. q >= next_alloc_pa
    BY <2>1 DEF NoFreePageLost
  <2> QED BY <1>1, <1>2, <2>2
<1> QED BY <1>3, <1>4

\* Every step keeps the free pages within kalloc's search.
LEMMA SearchKept == Orderly /\ Apart /\ NoFreePageLost /\ [Next]_vars => NoFreePageLost'
<1> SUFFICES ASSUME Orderly, Apart, NoFreePageLost, [Next]_vars PROVE NoFreePageLost'
  OBVIOUS
<1>0. TypeOK /\ Loops
  BY DEF Orderly
<1>1. CASE SetupStart
  BY <1>1, <1>0, KallocKeepsSearch DEF SetupStart
<1>2. CASE Load
  BY <1>2 DEF Load, memory, NoFreePageLost
<1>3. CASE SetupDone
  BY <1>3 DEF SetupDone, memory, NoFreePageLost
<1>4. CASE BootDone
  BY <1>4 DEF BootDone, memory, NoFreePageLost
<1>5. CASE TakePage
  BY <1>5, <1>0, KallocKeepsSearch DEF TakePage
<1>6. CASE GrowTable
  BY <1>6, <1>0, KallocKeepsSearch DEF GrowTable
<1>7. CASE Install
  <2>1. next_alloc_pa' = next_alloc_pa
    BY <1>7 DEF Install
  <2>2. \A q \in Allocatable : pages'[q] = 0 => pages[q] = 0
    <3> SUFFICES ASSUME NEW q \in Allocatable, pages'[q] = 0, pages[q] # 0 PROVE FALSE
      OBVIOUS
    <3>1. Op("fork") /\ present(Source) /\ ~writable(Source) /\ q = Source.pa
          /\ pages' = [pages EXCEPT ![Source.pa] = (@ + 1) % 256]
      <4>1. pages' # pages
        OBVIOUS
      <4>2. Op("fork") /\ present(Source) /\ ~writable(Source)
            /\ pages' = [pages EXCEPT ![Source.pa] = (@ + 1) % 256]
        BY <1>7, <4>1 DEF Install
      <4>3. q \in Pages /\ pages \in [Pages -> 0..255]
        BY <1>0, Sizes DEF TypeOK
      <4> QED BY <4>2, <4>3
    <3>2. kern.va \in VA /\ kern.pid \in Pids /\ current \in Pids
      BY <1>7, <1>0, EntryForm DEF Install, TypeOK, Orderly
    <3>3. ~NeedsPage
      BY <3>1 DEF NeedsPage, Op
    <3>4. Entry = Source
      BY <3>1, <3>3 DEF Entry, Op
    <3>5. kern.va \in UserVA
      <4>1. ASSUME kern.va < PROC_START PROVE FALSE
        <5>1. Source \in {NoEntry, KernelEntry(kern.va)}
          BY <3>2, <4>1 DEF Orderly, KernelEntries, Source
        <5> QED BY <3>1, <3>2, <4>1, <5>1, KernelEntryFacts, NoEntryFacts
      <4> QED BY <3>2, <4>1, KernelConstants DEF VA, UserVA
    <3>6. user(Source)
      BY <3>1, <3>2, <3>5 DEF Orderly, UserEntries, Source
    <3>7. ~present(map[kern.pid][kern.va])
      <4>1. kern.va >= kern.va
        BY <3>2 DEF VA
      <4>2. map[kern.pid][kern.va] = NoEntry
        BY <3>1, <3>2, <4>1 DEF Orderly, LoopProgress
      <4> QED BY <4>2, NoEntryFacts
    <3>8. kern.hold = None /\ kern'.hold = None
      BY <1>7, <1>0, <3>1, <3>3, AdvanceDropsPage DEF Install, Loops
    <3>9. WritesLeaf(kern.pid, kern.va, Source) /\ UNCHANGED lost
      BY <1>7, <3>1, <3>4 DEF Install, WritesLeaf, Op
    <3>10. SharesPage(kern.pid, kern.va, Source)
      BY <3>1, <3>5, <3>6, <3>7, <3>8, <3>9 DEF SharesPage, Source, HandsStill
    <3>11. pages[q] + 1 <= 255 /\ pages[q] \in 0..255
      <4>1. pages[Source.pa] + 1 <= 255
        BY <3>1, <3>2, <3>10, ShareFits
      <4> QED BY <1>0, <3>1, <4>1, Sizes, ZenonT(30) DEF TypeOK
    <3>12. pages'[q] = (pages[q] + 1) % 256
      BY <1>0, <3>1, Sizes DEF TypeOK
    <3>13. (pages[q] + 1) % 256 = pages[q] + 1
      BY <3>11
    <3> QED BY <3>11, <3>12, <3>13
  <2> QED BY <2>1, <2>2 DEF NoFreePageLost
<1>8. CASE ForkDone
  BY <1>8 DEF ForkDone, memory, NoFreePageLost
<1>9. CASE FreeUserPage
  <2>1. UNCHANGED <<pages, next_alloc_pa>> \/ Kfree(map[kern.pid][kern.va].pa)
    BY <1>9 DEF FreeUserPage, memory
  <2>2. map[kern.pid][kern.va].pa \in Pages
    <3>1. kern.va \in VA /\ kern.pid \in Pids
      BY <1>9, <1>0, LoopFacts DEF FreeUserPage, UnderWay
    <3> QED BY <1>0, <3>1 DEF TypeOK
  <2> QED BY <1>0, <2>1, <2>2, KfreeKeepsSearch DEF NoFreePageLost
<1>10. CASE FreeTable
  <2>1. kern.pid \in Pids /\ Greatest(TableNodes) \in Nodes
    BY <1>10, <1>0, ChosenNodes DEF FreeTable, Loops, TableNodes
  <2>2. tables[kern.pid][Greatest(TableNodes)] \in Pages
    BY <1>0, <2>1 DEF TypeOK
  <2> QED BY <1>10, <1>0, <2>2, KfreeKeepsSearch DEF FreeTable
<1>11. CASE FreeRoot
  <2>1. root[kern.pid] \in Pages
    BY <1>11, <1>0 DEF FreeRoot, Loops, TypeOK
  <2> QED BY <1>11, <1>0, <2>1, KfreeKeepsSearch DEF FreeRoot
<1>12. CASE DropHeld
  <2>1. kern.hold \in Pages
    BY <1>12, <1>0, Sizes DEF DropHeld, Loops
  <2> QED BY <1>12, <1>0, <2>1, KfreeKeepsSearch DEF DropHeld
<1>13. CASE ForkStart
  <2>1. UNCHANGED <<pages, next_alloc_pa>> \/ Kalloc(kalloc, "zero")
    BY <1>13 DEF ForkStart, memory
  <2> QED BY <1>0, <2>1, KallocKeepsSearch DEF NoFreePageLost
<1>14. CASE ExitStart
  BY <1>14 DEF ExitStart, memory, NoFreePageLost
<1>15. CASE PageFault
  BY <1>15 DEF PageFault, memory, NoFreePageLost
<1>16. CASE Panic
  BY <1>16 DEF Panic, memory, NoFreePageLost
<1>17. ASSUME NEW va \in VA, PageAlloc(va) PROVE NoFreePageLost'
  <2>1. UNCHANGED <<pages, next_alloc_pa>> \/ Kalloc(kalloc, "zero")
    BY <1>17 DEF PageAlloc, memory
  <2> QED BY <1>0, <2>1, KallocKeepsSearch DEF NoFreePageLost
<1>18. ASSUME NEW va \in UserVA, NEW v \in UserValue, UserWrite(va, v) PROVE NoFreePageLost'
  BY <1>18 DEF UserWrite, memory, NoFreePageLost
<1>19. CASE Memshow
  BY <1>19, <1>0, KallocKeepsSearch DEF Memshow
<1>20. CASE Timer
  BY <1>20 DEF Timer, memory, NoFreePageLost
<1>21. CASE SoftReboot
  <2>1. \A q \in Allocatable : q >= 0
    BY Sizes
  <2> QED BY <1>21, <2>1 DEF SoftReboot, NoFreePageLost
<1>22. CASE UNCHANGED vars
  BY <1>22 DEF vars, memory, NoFreePageLost
<1> QED BY <1>1, <1>2, <1>3, <1>4, <1>5, <1>6, <1>7, <1>8, <1>9, <1>10, <1>11, <1>12,
       <1>13, <1>14, <1>15, <1>16, <1>17, <1>18, <1>19, <1>20, <1>21, <1>22 DEF Next,
       KernelStep, UserStep

-----------------------------------------------------------------------------
(* The loops.                                                              *)

\* The kernel returns to a process, or to the idle loop, with nothing in hand.
LEMMA ScheduleLoops ==
    ASSUME NEW st \in [Pids -> {"FREE", "RUNNABLE", "BROKEN"}], current \in Pids, schedule(st),
           state' = st
    PROVE  Loops'
<1>1. kern'.hold = None /\ kern'.op \in {"user", "idle"}
      /\ (kern'.op = "user" => state'[current'] = "RUNNABLE")
  BY ScheduleType
<1> QED BY <1>1 DEF Loops, Op

\* After its last turn at an address a building loop goes on to the next.
LEMMA AdvanceLoops ==
    ASSUME TypeOK, Loops, Busy, Advance, UNCHANGED <<state, current, nboot>>
    PROVE  Loops'
<1>a. /\ MEMSIZE_VIRTUAL \in Nat /\ STACK = MEMSIZE_VIRTUAL - 1 /\ STACK \in Nat
  BY KernelConstants DEF STACK
<1>b. /\ kern.va \in Nat
      /\ kern = [op |-> kern.op, pid |-> kern.pid, va |-> kern.va, hold |-> kern.hold]
  BY DEF TypeOK
<1>c. None \notin Allocatable
  BY Sizes
<1>1. CASE Op("alloc")
  <2>1. kern' = [op |-> "user", pid |-> Null, va |-> 0, hold |-> None]
    BY <1>1 DEF Advance, ReturnToUser, Go
  <2>2. state'[current'] = "RUNNABLE"
    BY <1>1 DEF Loops
  <2> QED BY <2>1, <2>2 DEF Loops, Op
<1>2. CASE ~Op("alloc")
  <2>1. kern' = [kern EXCEPT !.va = @ + 1, !.hold = None]
    BY <1>2 DEF Advance
  <2>2. kern'.op = kern.op /\ kern'.pid = kern.pid /\ kern'.va = kern.va + 1 /\ kern'.hold = None
    BY <1>b, <2>1
  <2>3. kern.op \in {"setup", "stack", "fork"}
    BY <1>2 DEF Busy, Building, Op
  <2>4. Op("setup") => kern.va + 1 <= STACK
    BY <1>a, <1>b DEF Busy, End, Op
  <2>5. Op("stack") => kern.va + 1 >= STACK
    BY <1>a, <1>b DEF Loops
  <2>6. CASE Op("fork")
    BY <1>c, <2>2, <2>6 DEF Loops, Op
  <2>7. CASE Op("setup")
    BY <1>c, <2>2, <2>4, <2>7 DEF Loops, Op
  <2>8. CASE Op("stack")
    BY <1>c, <2>2, <2>5, <2>8 DEF Loops, Op
  <2> QED BY <2>3, <2>6, <2>7, <2>8 DEF Op
<1> QED BY <1>1, <1>2

\* Every step keeps the loops in order.
LEMMA LoopsKept == Orderly /\ [Next]_vars => Loops'
<1> SUFFICES ASSUME Orderly, [Next]_vars PROVE Loops'
  OBVIOUS
<1>0. TypeOK /\ Loops
  BY DEF Orderly
<1>a. /\ nboot \in Nat /\ nboot >= 1 /\ nboot < NPROC /\ NPROC \in Nat
      /\ MEMSIZE_VIRTUAL \in Nat /\ STACK = MEMSIZE_VIRTUAL - 1 /\ PROC_START \in Nat
      /\ PROC_START <= STACK /\ STACK \in Nat
  BY <1>0, KernelConstants DEF TypeOK, STACK
<1>b. /\ kern.va \in Nat /\ kern.pid \in Nat /\ current \in Pids /\ Pids = 0..NPROC-1
      /\ state \in [Pids -> {"FREE", "RUNNABLE", "BROKEN"}]
      /\ kern = [op |-> kern.op, pid |-> kern.pid, va |-> kern.va, hold |-> kern.hold]
  BY <1>0, KernelConstants DEF TypeOK, Pids
<1>c. None \notin Allocatable /\ Null \notin Allocatable /\ None # Null
  BY Sizes
<1>1. CASE SetupStart
  <2>1. /\ kern.pid \in 1..nboot + 1 /\ kern.hold = None /\ kern.op = "boot" /\ kern.pid <= nboot
        /\ \A p \in Pids : p >= kern.pid => state[p] = "FREE"
    BY <1>1, <1>0 DEF SetupStart, Loops, Op
  <2>2. UNCHANGED <<nboot, state>>
    BY <1>1 DEF SetupStart
  <2>3. CASE kalloc = Null
    <3>1. kern'.op = "boot" /\ kern'.pid = kern.pid + 1 /\ kern'.hold = None
      BY <1>1, <1>b, <2>1, <2>3 DEF SetupStart
    <3>2. kern'.pid \in 1..nboot' + 1
      BY <1>a, <1>b, <2>1, <2>2, <3>1
    <3>3. \A p \in Pids : p >= kern'.pid => state'[p] = "FREE"
      BY <1>a, <1>b, <2>1, <2>2, <3>1
    <3> QED BY <3>1, <3>2, <3>3 DEF Loops, Op
  <2>4. CASE kalloc # Null
    <3>1. kern' = [op |-> "setup", pid |-> kern.pid, va |-> 0, hold |-> None]
      BY <1>1, <2>4 DEF SetupStart, Go
    <3>2. kern.pid \in 1..nboot' /\ 0 <= STACK
      BY <1>a, <1>b, <2>1, <2>2
    <3> QED BY <1>c, <2>1, <2>2, <3>1, <3>2 DEF Loops, Op
  <2> QED BY <2>3, <2>4
<1>2. CASE Load
  <2>1. kern.hold = None
    <3>1. ~Busy
      BY <1>2, <1>a, <1>b DEF Load, Busy, End
    <3> QED BY <1>2, <1>0, <3>1 DEF Load, Loops
  <2>2. /\ kern.pid \in 1..nboot /\ kern.va = STACK
        /\ \A p \in Pids : p >= kern.pid => state[p] = "FREE"
    BY <1>2, <1>0 DEF Load, Loops
  <2>3. UNCHANGED <<nboot, state>>
    BY <1>2 DEF Load, procs
  <2>4. (kern'.op = "panic" /\ kern'.hold = None) \/ kern' = [kern EXCEPT !.op = "stack"]
    BY <1>2 DEF Load, Go
  <2>5. CASE kern'.op = "panic" /\ kern'.hold = None
    BY <2>5 DEF Loops, Op
  <2>6. CASE kern' = [kern EXCEPT !.op = "stack"]
    <3>1. kern'.op = "stack" /\ kern'.pid = kern.pid /\ kern'.va = STACK /\ kern'.hold = None
      BY <1>b, <2>1, <2>2, <2>6
    <3>2. STACK >= STACK
      BY <1>a
    <3> QED BY <1>c, <2>2, <2>3, <3>1, <3>2 DEF Loops, Op
  <2> QED BY <2>4, <2>5, <2>6
<1>3. CASE SetupDone
  <2>1. /\ kern.pid \in 1..nboot
        /\ \A p \in Pids : p >= kern.pid => state[p] = "FREE"
    BY <1>3, <1>0 DEF SetupDone, Loops
  <2>2. kern' = [op |-> "boot", pid |-> kern.pid + 1, va |-> 0, hold |-> None] /\ nboot' = nboot
    BY <1>3 DEF SetupDone, Go
  <2>3. kern.pid + 1 \in 1..nboot' + 1
    BY <1>a, <2>1, <2>2
  <2>4. \A p \in Pids : p >= kern.pid + 1 => state'[p] = "FREE"
    <3>1. \A p \in Pids : p >= kern.pid + 1 => p # kern.pid /\ p >= kern.pid
      BY <1>a, <1>b
    <3> QED BY <1>3, <1>b, <2>1, <3>1 DEF SetupDone
  <2> QED BY <2>2, <2>3, <2>4 DEF Loops, Op
<1>4. CASE BootDone
  <2>1. CASE state[1] = "RUNNABLE"
    BY <1>4, <2>1 DEF BootDone, ReturnToUser, Go, procs, Loops, Op
  <2>2. CASE state[1] # "RUNNABLE"
    BY <1>4, <2>2 DEF BootDone, Go, Loops, Op
  <2> QED BY <2>1, <2>2
<1>5. CASE TakePage
  <2>1. kern.hold = None /\ Busy /\ NeedsPage /\ UNCHANGED <<state, map, current, nboot, lost>>
    BY <1>5 DEF TakePage, procs
  <2>2. \/ kalloc = Null
        \/ kalloc \in Allocatable /\ kalloc \in Pages /\ pages' = [pages EXCEPT ![kalloc] = 1]
    BY <1>5, <1>0, KallocResult DEF TakePage, Kalloc
  <2>3. CASE kalloc = Null /\ Op("fork")
    <3>1. kern' = [op |-> "exit", pid |-> kern.pid, va |-> PROC_START, hold |-> None]
      BY <1>5, <2>1, <2>3 DEF TakePage, FailFork, Go
    <3>2. /\ kern.pid \in 1..NPROC-1 /\ state[kern.pid] = "FREE" /\ state[current] = "RUNNABLE"
      BY <1>0, <2>3 DEF Loops
    <3>3. kern.pid # current /\ kern.pid \in Pids /\ PROC_START >= PROC_START
      BY <1>a, <1>b, <3>2
    <3> QED BY <2>1, <3>1, <3>2, <3>3 DEF Loops, Op
  <2>4. CASE ~(kalloc = Null /\ Op("fork"))
    <3>1. kern' = [kern EXCEPT !.hold = kalloc]
      BY <1>5, <2>4 DEF TakePage
    <3>2. kern'.op = kern.op /\ kern'.pid = kern.pid /\ kern'.va = kern.va /\ kern'.hold = kalloc
      BY <1>b, <3>1
    <3>3. Busy' /\ NeedsPage'
      BY <2>1, <3>2 DEF Busy, Building, End, NeedsPage, Op, Source, user, writable, SegmentOf
    <3>4. kern.op \in {"setup", "stack", "fork"}
      BY <2>1 DEF Busy, Building, NeedsPage, Op
    <3>5. kalloc \in Allocatable => pages'[kalloc] = 1
      BY <1>0, <1>c, <2>2, Sizes DEF TypeOK
    <3>6. CASE Op("fork")
      BY <1>0, <2>1, <2>2, <2>4, <3>2, <3>3, <3>6 DEF Loops, Op
    <3>7. CASE kern.op \in {"setup", "stack"}
      BY <1>0, <2>1, <2>2, <3>2, <3>3, <3>5, <3>7 DEF Loops, Op
    <3> QED BY <3>4, <3>6, <3>7 DEF Op
  <2> QED BY <2>3, <2>4
<1>6. CASE GrowTable
  <2>1. Busy /\ HasPage /\ UNCHANGED <<state, map, current, nboot>>
    BY <1>6 DEF GrowTable
  <2>2. \/ kalloc = Null
        \/ kalloc \in Allocatable /\ pages[kalloc] = 0 /\ pages' = [pages EXCEPT ![kalloc] = 1]
    BY <1>6, <1>0, KallocResult DEF GrowTable, Kalloc
  <2>3. CASE kalloc # Null
    <3>1. kern' = kern /\ lost' = lost
      BY <1>6, <2>3 DEF GrowTable
    <3>2. ASSUME kern.hold \in Allocatable, pages[kern.hold] = 1 PROVE pages'[kern.hold] = 1
      BY <1>0, <2>2, <2>3, <3>2, Sizes, ZenonT(30) DEF TypeOK
    <3>3. Busy' = Busy /\ NeedsPage' = NeedsPage /\ Source' = Source
      BY <2>1, <3>1 DEF Busy, Building, End, NeedsPage, Op, Source, user, writable, SegmentOf
    <3>4. ASSUME Op("alloc") PROVE Missing(current, kern.va)' \subseteq Missing(current, kern.va)
      <4> DEFINE n == Least(Missing(kern.pid, kern.va))
      <4>1. kern.va \in VA /\ kern.pid \in Pids /\ kern.pid = current
        BY <1>0, <2>1, <3>4, EntryForm DEF Orderly, Loops
      <4>2. n \in Nodes /\ tables[kern.pid][n] = Null
        BY <1>6, <4>1, ChosenNodes DEF GrowTable, NeedsTable, Missing
      <4>3. tables' = [tables EXCEPT ![kern.pid][n] = kalloc]
        BY <1>6, <2>3 DEF GrowTable
      <4>4. tables \in [Pids -> [Nodes -> Pages]] /\ Path[kern.va] \subseteq Nodes
        BY <1>0, <4>1, KernelConstants DEF TypeOK
      <4>5. \A m \in Nodes : tables'[current][m] = IF m = n THEN kalloc ELSE tables[current][m]
        BY <4>1, <4>2, <4>3, <4>4
      <4>6. Missing(current, kern.va)' = {m \in Path[kern.va] : tables'[current][m] = Null}
        BY <2>1, <3>1 DEF Missing
      <4> QED BY <2>3, <4>4, <4>5, <4>6 DEF Missing
    <3>5. CASE Op("alloc")
      <4>1. Missing(current, kern.va)' # {} => Missing(current, kern.va) # {}
        BY <3>4, <3>5
      <4>2. present(Source)' = present(Source)
        BY <3>3 DEF present
      <4> QED BY <1>0, <2>1, <3>1, <3>5, <4>1, <4>2 DEF Loops, Op
    <3>6. CASE Op("fork")
      BY <1>0, <2>1, <3>1, <3>3, <3>6 DEF Loops, Op
    <3>7. CASE kern.op \in {"setup", "stack"}
      BY <1>0, <2>1, <3>1, <3>2, <3>3, <3>7 DEF Loops, Op
    <3> QED BY <2>1, <3>5, <3>6, <3>7 DEF Busy, Building, Op
  <2>4. CASE kalloc = Null /\ Op("fork")
    <3>1. kern' = [op |-> "exit", pid |-> kern.pid, va |-> PROC_START, hold |-> kern.hold]
      BY <1>6, <2>1, <2>4 DEF GrowTable, FailFork, Go
    <3>2. /\ kern.pid \in 1..NPROC-1 /\ state[kern.pid] = "FREE" /\ state[current] = "RUNNABLE"
          /\ kern.hold \in Allocatable \cup {None}
      BY <1>0, <2>4 DEF Loops
    <3>3. kern.pid # current /\ kern.pid \in Pids /\ PROC_START >= PROC_START
      BY <1>a, <1>b, <3>2
    <3> QED BY <2>1, <3>1, <3>2, <3>3 DEF Loops, Op
  <2>5. CASE kalloc = Null /\ ~Op("fork")
    <3>1. Advance
      BY <1>6, <2>5 DEF GrowTable
    <3> QED BY <1>0, <2>1, <3>1, AdvanceLoops
  <2> QED BY <2>3, <2>4, <2>5
<1>7. CASE Install
  <2>1. Busy /\ Advance /\ UNCHANGED <<state, current, nboot>>
    BY <1>7 DEF Install
  <2> QED BY <1>0, <2>1, AdvanceLoops
<1>8. CASE ForkDone
  <2>1. kern' = [op |-> "user", pid |-> Null, va |-> 0, hold |-> None]
    BY <1>8 DEF ForkDone, ReturnToUser, Go
  <2>2. state[current] = "RUNNABLE"
    BY <1>8, <1>0 DEF ForkDone, Loops
  <2>3. state'[current'] = "RUNNABLE"
    BY <1>8, <1>b, <2>2 DEF ForkDone
  <2> QED BY <2>1, <2>3 DEF Loops, Op
<1>9. CASE FreeUserPage
  <2>1. kern' = [kern EXCEPT !.va = @ + 1] /\ UNCHANGED <<state, current>> /\ kern.op = "exit"
    BY <1>9 DEF FreeUserPage, Op
  <2>2. kern'.op = kern.op /\ kern'.pid = kern.pid /\ kern'.va = kern.va + 1 /\ kern'.hold = kern.hold
    BY <1>b, <2>1
  <2>3. kern.va >= PROC_START => kern.va + 1 >= PROC_START
    BY <1>a, <1>b
  <2> QED BY <1>0, <2>1, <2>2, <2>3 DEF Loops, Op
<1>10. CASE FreeTable
  <2>1. UNCHANGED <<kern, state, current>> /\ kern.op = "exit"
    BY <1>10 DEF FreeTable, Op
  <2> QED BY <1>0, <2>1 DEF Loops, Op
<1>11. CASE FreeRoot
  <2>1. CASE kern.pid = current
    <3>1. state' \in [Pids -> {"FREE", "RUNNABLE", "BROKEN"}]
      BY <1>11, <1>b DEF FreeRoot
    <3>2. schedule(state')
      BY <1>11, <2>1 DEF FreeRoot
    <3> QED BY <1>b, <3>1, <3>2, ScheduleLoops
  <2>2. CASE kern.pid # current
    <3>1. current' = current /\ kern.hold \in Allocatable \cup {None} /\ state[current] = "RUNNABLE"
      BY <1>11, <1>0, <2>2 DEF FreeRoot, Loops
    <3>2. state'[current'] = "RUNNABLE"
      BY <1>11, <1>b, <2>2, <3>1 DEF FreeRoot
    <3>3. CASE kern.hold = None
      BY <1>11, <2>2, <3>2, <3>3 DEF FreeRoot, ReturnToUser, Go, Loops, Op
    <3>4. CASE kern.hold # None
      <4>1. kern' = [kern EXCEPT !.op = "drop"]
        BY <1>11, <2>2, <3>4 DEF FreeRoot
      <4>2. kern'.op = "drop" /\ kern'.hold = kern.hold
        BY <1>b, <4>1
      <4> QED BY <3>1, <3>2, <3>4, <4>2 DEF Loops, Op
    <3> QED BY <3>3, <3>4
  <2> QED BY <2>1, <2>2
<1>12. CASE DropHeld
  <2>1. state[current] = "RUNNABLE" /\ UNCHANGED <<state, current>>
    BY <1>12, <1>0 DEF DropHeld, Loops, procs
  <2> QED BY <1>12, <2>1 DEF DropHeld, ReturnToUser, Go, Loops, Op
<1>13. CASE ForkStart
  <2>1. kern.op = "user" /\ state[current] = "RUNNABLE" /\ kern.hold = None
    BY <1>13, <1>0 DEF ForkStart, Trap, Loops, Op
  <2>2. UNCHANGED <<state, current>>
    BY <1>13 DEF ForkStart
  <2>3. CASE kern' = kern
    BY <2>1, <2>2, <2>3 DEF Loops, Op
  <2>4. CASE kern' # kern
    <3>1. FreeSlots # {} /\ kern' = [op |-> "fork", pid |-> Least(FreeSlots), va |-> 0, hold |-> None]
      BY <1>13, <2>4 DEF ForkStart, Go
    <3>2. Least(FreeSlots) \in 1..NPROC-1 /\ state[Least(FreeSlots)] = "FREE"
      BY <1>0, <3>1, ChosenSlots
    <3> QED BY <2>1, <2>2, <3>1, <3>2 DEF Loops, Op
  <2> QED BY <2>3, <2>4
<1>14. CASE ExitStart
  <2>1. kern.op = "user" /\ state[current] = "RUNNABLE" /\ kern.hold = None
    BY <1>14, <1>0 DEF ExitStart, Trap, Loops, Op
  <2>2. UNCHANGED <<state, current>>
        /\ kern' = [op |-> "exit", pid |-> current, va |-> PROC_START, hold |-> None]
    BY <1>14 DEF ExitStart, Go, procs
  <2>3. PROC_START >= PROC_START
    BY <1>a
  <2> QED BY <1>b, <2>1, <2>2, <2>3 DEF Loops, Op
<1>15. CASE PageFault
  <2>1. state' \in [Pids -> {"FREE", "RUNNABLE", "BROKEN"}] /\ schedule(state')
    BY <1>15, <1>b DEF PageFault
  <2> QED BY <1>b, <2>1, ScheduleLoops
<1>16. CASE Panic
  BY <1>16 DEF Panic, Go, Loops, Op
<1>17. ASSUME NEW va \in VA, PageAlloc(va) PROVE Loops'
  <2>1. kern.op = "user" /\ state[current] = "RUNNABLE" /\ kern.hold = None
    BY <1>17, <1>0 DEF PageAlloc, Trap, Loops, Op
  <2>2. UNCHANGED <<state, current, map, tables, lost>>
    BY <1>17 DEF PageAlloc, procs
  <2>3. CASE kern' = kern
    BY <2>1, <2>2, <2>3 DEF Loops, Op
  <2>4. CASE kern' # kern
    <3>1. /\ va \in UserVA /\ kalloc # Null
          /\ kern' = [op |-> "alloc", pid |-> current, va |-> va, hold |-> kalloc]
      BY <1>17, <2>4 DEF PageAlloc, Go, memory
    <3>2. kalloc \in Allocatable
      BY <1>0, <3>1, KallocResult
    <3>3. present(Source)' \/ Missing(current, kern.va)' # {} => MayLose(va)
      BY <2>2, <3>1 DEF MayLose, Source, Missing, present
    <3>4. MayLose(va) => \A q \in Pages : lost'[q] < MaxLost
      BY <1>17, <2>2, <3>1 DEF PageAlloc
    <3> QED BY <2>1, <2>2, <3>1, <3>2, <3>3, <3>4 DEF Loops, Op
  <2> QED BY <2>3, <2>4
<1>18. ASSUME NEW va \in UserVA, NEW v \in UserValue, UserWrite(va, v) PROVE Loops'
  <2>1. UNCHANGED <<state, current, kern>> /\ kern.op = "user"
    BY <1>18 DEF UserWrite, procs, Op
  <2> QED BY <1>0, <2>1 DEF Loops, Op
<1>19. CASE Memshow
  <2>1. UNCHANGED <<state, current>> /\ kern.op = "user"
    BY <1>19 DEF Memshow, procs, Op
  <2>2. kern' = kern \/ (kern'.op = "panic" /\ kern'.hold = None)
    BY <1>19 DEF Memshow, Go
  <2> QED BY <1>0, <2>1, <2>2 DEF Loops, Op
<1>20. CASE Timer
  <2>1. state' = state /\ schedule(state)
    BY <1>20 DEF Timer, procs
  <2> QED BY <1>b, <2>1, ScheduleLoops
<1>21. CASE SoftReboot
  <2>1. /\ kern' = [op |-> "boot", pid |-> 1, va |-> 0, hold |-> None]
        /\ \A p \in Pids : state'[p] = "FREE"
    BY <1>21 DEF SoftReboot, Go
  <2>2. 1 \in 1..nboot' + 1
    <3>1. nboot' \in 1..NPROC-1
      BY <1>21, KernelConstants DEF SoftReboot
    <3>2. \A k \in 1..NPROC-1 : 1 \in 1..k + 1
      BY KernelConstants
    <3> QED BY <3>1, <3>2
  <2> QED BY <2>1, <2>2 DEF Loops, Op
<1>22. CASE UNCHANGED vars
  <2>1. UNCHANGED <<pages, state, tables, map, current, kern, nboot, lost>>
    BY <1>22 DEF vars, memory, procs
  <2> QED BY <1>0, <2>1
          DEF Loops, Op, Busy, Building, End, NeedsPage, SegmentOf, Source, Missing, present,
              user, writable
<1> QED BY <1>1, <1>2, <1>3, <1>4, <1>5, <1>6, <1>7, <1>8, <1>9, <1>10, <1>11, <1>12,
       <1>13, <1>14, <1>15, <1>16, <1>17, <1>18, <1>19, <1>20, <1>21, <1>22 DEF Next,
       KernelStep, UserStep

-----------------------------------------------------------------------------
(* What free slots and the loops' processes have in their tables.          *)

\* A step that leaves the free slots' tables leaves them empty.
LEMMA SlotsStill ==
    ASSUME FreeSlotsEmpty, ~Op("panic"),
           \A p \in Pids : state'[p] = "FREE" /\ ~(UnderWay' /\ p = kern'.pid) =>
               /\ state[p] = "FREE" /\ ~(UnderWay /\ p = kern.pid)
               /\ root'[p] = root[p] /\ tables'[p] = tables[p] /\ map'[p] = map[p]
    PROVE  FreeSlotsEmpty'
BY DEF FreeSlotsEmpty

\* Every step leaves a free slot without memory.
LEMMA SlotsKept == Orderly /\ [Next]_vars => FreeSlotsEmpty'
<1> SUFFICES ASSUME Orderly, [Next]_vars PROVE FreeSlotsEmpty'
  OBVIOUS
<1>0. TypeOK /\ Loops /\ FreeSlotsEmpty
  BY DEF Orderly
<1>b. /\ state \in [Pids -> {"FREE", "RUNNABLE", "BROKEN"}] /\ current \in Pids
      /\ tables \in [Pids -> [Nodes -> Pages]] /\ root \in [Pids -> Pages]
      /\ map \in [Pids -> [VA -> [pa: Pages, perm: Perm]]]
      /\ kern = [op |-> kern.op, pid |-> kern.pid, va |-> kern.va, hold |-> kern.hold]
  BY <1>0 DEF TypeOK
<1>1. CASE SetupStart
  <2>1. kern.pid \in Pids /\ kern.op = "boot"
    BY <1>1, <1>0, LoopFacts DEF SetupStart, Op
  <2>2. root[kern.pid] = Null
    <3>1. state[kern.pid] = "FREE"
      <4>1. kern.pid >= kern.pid
        BY <2>1, KernelConstants DEF Pids
      <4> QED BY <1>1, <1>0, <2>1, <4>1 DEF SetupStart, Loops
    <3> QED BY <1>0, <2>1, <3>1 DEF FreeSlotsEmpty, UnderWay, Op
  <2>3. \/ kalloc = Null /\ kern'.op = "boot"
        \/ kern'.op = "setup" /\ kern'.pid = kern.pid
    BY <1>1, <1>b, <2>1 DEF SetupStart, Go
  <2>8. ~Op("panic")
    BY <1>1 DEF SetupStart, Op
  <2>9. \A p \in Pids : state'[p] = "FREE" /\ ~(UnderWay' /\ p = kern'.pid) =>
            /\ state[p] = "FREE" /\ ~(UnderWay /\ p = kern.pid)
            /\ root'[p] = root[p] /\ tables'[p] = tables[p] /\ map'[p] = map[p]
    BY <1>1, <1>b, <2>1, <2>2, <2>3 DEF SetupStart, UnderWay, Op
  <2> QED BY <1>0, <2>8, <2>9, SlotsStill
<1>2. CASE Load
  <2>1. CASE kern'.op = "panic"
    BY <2>1 DEF FreeSlotsEmpty, Op
  <2>2. CASE kern' = [kern EXCEPT !.op = "stack"]
    <3>1. kern'.op = "stack" /\ kern'.pid = kern.pid /\ kern.op = "setup"
      BY <1>2, <1>b, <2>2 DEF Load, Op
    <3>8. ~Op("panic")
      BY <1>2 DEF Load, Op
    <3>9. \A p \in Pids : state'[p] = "FREE" /\ ~(UnderWay' /\ p = kern'.pid) =>
            /\ state[p] = "FREE" /\ ~(UnderWay /\ p = kern.pid)
            /\ root'[p] = root[p] /\ tables'[p] = tables[p] /\ map'[p] = map[p]
      BY <1>2, <3>1 DEF Load, UnderWay, Op, procs
  <3> QED BY <1>0, <3>8, <3>9, SlotsStill
  <2> QED BY <1>2, <2>1, <2>2 DEF Load, Go
<1>3. CASE SetupDone
  <2>1. kern.pid \in Pids
    BY <1>3, <1>0, LoopFacts DEF SetupDone, UnderWay
  <2>8. ~Op("panic")
    BY <1>3 DEF SetupDone, Op
  <2>9. \A p \in Pids : state'[p] = "FREE" /\ ~(UnderWay' /\ p = kern'.pid) =>
            /\ state[p] = "FREE" /\ ~(UnderWay /\ p = kern.pid)
            /\ root'[p] = root[p] /\ tables'[p] = tables[p] /\ map'[p] = map[p]
    BY <1>3, <1>b, <2>1 DEF SetupDone, UnderWay, Op, Go
  <2> QED BY <1>0, <2>8, <2>9, SlotsStill
<1>4. CASE BootDone
  <2>8. ~Op("panic")
    BY <1>4 DEF BootDone, Op
  <2>9. \A p \in Pids : state'[p] = "FREE" /\ ~(UnderWay' /\ p = kern'.pid) =>
            /\ state[p] = "FREE" /\ ~(UnderWay /\ p = kern.pid)
            /\ root'[p] = root[p] /\ tables'[p] = tables[p] /\ map'[p] = map[p]
    BY <1>4 DEF BootDone, UnderWay, Op, Go, ReturnToUser, procs
  <2> QED BY <1>0, <2>8, <2>9, SlotsStill
<1>5. CASE TakePage
  <2>1. kern.op \in {"setup", "stack", "fork"}
    BY <1>5 DEF TakePage, Busy, Building, NeedsPage, Op
  <2>2. kern'.pid = kern.pid /\ kern'.op \in {kern.op, "exit"}
    BY <1>5, <1>b DEF TakePage, FailFork, Go
  <2>8. ~Op("panic")
    BY <1>5 DEF TakePage, Busy, Building, Op
  <2>9. \A p \in Pids : state'[p] = "FREE" /\ ~(UnderWay' /\ p = kern'.pid) =>
            /\ state[p] = "FREE" /\ ~(UnderWay /\ p = kern.pid)
            /\ root'[p] = root[p] /\ tables'[p] = tables[p] /\ map'[p] = map[p]
    BY <1>5, <2>1, <2>2 DEF TakePage, UnderWay, Op, procs
  <2> QED BY <1>0, <2>8, <2>9, SlotsStill
<1>6. CASE GrowTable
  <2>2. \/ kern'.op \in {kern.op, "exit"} /\ kern'.pid = kern.pid
        \/ kern.op = "alloc"
    <3>1. kern' = kern \/ FailFork \/ Advance
      BY <1>6 DEF GrowTable
    <3>2. FailFork => kern'.op = "exit" /\ kern'.pid = kern.pid
      BY DEF FailFork, Go
    <3>3. Advance /\ ~Op("alloc") => kern'.op = kern.op /\ kern'.pid = kern.pid
      BY <1>b DEF Advance
    <3> QED BY <3>1, <3>2, <3>3 DEF Op
  <2>3. kern.op \in {"setup", "stack", "fork", "alloc"} /\ kern.pid \in Pids
    BY <1>6, <1>0, LoopFacts DEF GrowTable, Busy, Building, Op
  <2>4. kern.op = "alloc" => kern.pid = current /\ state[kern.pid] = "RUNNABLE"
    BY <1>0 DEF Loops, Op
  <2>5. kern.op = "alloc" => kern'.op \in {"alloc", "user"}
    BY <1>6 DEF GrowTable, Advance, ReturnToUser, Go, Op
  <2>6. /\ \A p \in Pids : p # kern.pid => tables'[p] = tables[p] /\ map'[p] = map[p]
        /\ UNCHANGED <<state, root>>
    BY <1>6, <1>b, <2>3 DEF GrowTable
  <2>8. ~Op("panic")
    BY <1>6 DEF GrowTable, Busy, Building, Op
  <2>9. \A p \in Pids : state'[p] = "FREE" /\ ~(UnderWay' /\ p = kern'.pid) =>
            /\ state[p] = "FREE" /\ ~(UnderWay /\ p = kern.pid)
            /\ root'[p] = root[p] /\ tables'[p] = tables[p] /\ map'[p] = map[p]
    BY <2>2, <2>3, <2>4, <2>5, <2>6 DEF UnderWay, Op
  <2> QED BY <1>0, <2>8, <2>9, SlotsStill
<1>7. CASE Install
  <2>2. \/ kern'.op \in {kern.op, "exit"} /\ kern'.pid = kern.pid
        \/ kern.op = "alloc"
    BY <1>7, <1>b DEF Install, FailFork, Go, Advance, Op
  <2>3. kern.op \in {"setup", "stack", "fork", "alloc"} /\ kern.pid \in Pids
    BY <1>7, <1>0, LoopFacts DEF Install, Busy, Building, Op
  <2>4. kern.op = "alloc" => kern.pid = current /\ state[kern.pid] = "RUNNABLE"
    BY <1>0 DEF Loops, Op
  <2>5. kern.op = "alloc" => kern'.op \in {"alloc", "user"}
    BY <1>7 DEF Install, Advance, ReturnToUser, Go, Op
  <2>6. /\ \A p \in Pids : p # kern.pid => tables'[p] = tables[p] /\ map'[p] = map[p]
        /\ UNCHANGED <<state, root>>
    BY <1>7, <1>b, <2>3 DEF Install
  <2>8. ~Op("panic")
    BY <1>7 DEF Install, Busy, Building, Op
  <2>9. \A p \in Pids : state'[p] = "FREE" /\ ~(UnderWay' /\ p = kern'.pid) =>
            /\ state[p] = "FREE" /\ ~(UnderWay /\ p = kern.pid)
            /\ root'[p] = root[p] /\ tables'[p] = tables[p] /\ map'[p] = map[p]
    BY <2>2, <2>3, <2>4, <2>5, <2>6 DEF UnderWay, Op
  <2> QED BY <1>0, <2>8, <2>9, SlotsStill
<1>8. CASE ForkDone
  <2>1. kern.pid \in Pids
    BY <1>8, <1>0, LoopFacts DEF ForkDone, UnderWay
  <2>8. ~Op("panic")
    BY <1>8 DEF ForkDone, Op
  <2>9. \A p \in Pids : state'[p] = "FREE" /\ ~(UnderWay' /\ p = kern'.pid) =>
            /\ state[p] = "FREE" /\ ~(UnderWay /\ p = kern.pid)
            /\ root'[p] = root[p] /\ tables'[p] = tables[p] /\ map'[p] = map[p]
    BY <1>8, <1>b, <2>1 DEF ForkDone, UnderWay, Op, Go, ReturnToUser
  <2> QED BY <1>0, <2>8, <2>9, SlotsStill
<1>9. CASE FreeUserPage
  <2>1. kern.pid \in Pids /\ kern.op = "exit"
    BY <1>9, <1>0, LoopFacts DEF FreeUserPage, UnderWay, Op
  <2>2. kern'.pid = kern.pid /\ kern'.op = "exit"
    BY <1>9, <1>b, <2>1 DEF FreeUserPage
  <2>3. /\ \A p \in Pids : p # kern.pid => tables'[p] = tables[p] /\ map'[p] = map[p]
        /\ UNCHANGED <<state, root>>
    BY <1>9, <1>b, <2>1 DEF FreeUserPage
  <2>8. ~Op("panic")
    BY <1>9 DEF FreeUserPage, Op
  <2>9. \A p \in Pids : state'[p] = "FREE" /\ ~(UnderWay' /\ p = kern'.pid) =>
            /\ state[p] = "FREE" /\ ~(UnderWay /\ p = kern.pid)
            /\ root'[p] = root[p] /\ tables'[p] = tables[p] /\ map'[p] = map[p]
    BY <2>1, <2>2, <2>3 DEF UnderWay, Op
  <2> QED BY <1>0, <2>8, <2>9, SlotsStill
<1>10. CASE FreeTable
  <2>1. kern.pid \in Pids /\ kern.op = "exit"
    BY <1>10, <1>0, LoopFacts DEF FreeTable, UnderWay, Op
  <2>2. kern'.pid = kern.pid /\ kern'.op = "exit"
    BY <1>10, <1>b, <2>1 DEF FreeTable
  <2>3. /\ \A p \in Pids : p # kern.pid => tables'[p] = tables[p] /\ map'[p] = map[p]
        /\ UNCHANGED <<state, root>>
    BY <1>10, <1>b, <2>1 DEF FreeTable
  <2>8. ~Op("panic")
    BY <1>10 DEF FreeTable, Op
  <2>9. \A p \in Pids : state'[p] = "FREE" /\ ~(UnderWay' /\ p = kern'.pid) =>
            /\ state[p] = "FREE" /\ ~(UnderWay /\ p = kern.pid)
            /\ root'[p] = root[p] /\ tables'[p] = tables[p] /\ map'[p] = map[p]
    BY <2>1, <2>2, <2>3 DEF UnderWay, Op
  <2> QED BY <1>0, <2>8, <2>9, SlotsStill
<1>11. CASE FreeRoot
  <2>1. kern.pid \in Pids /\ kern.op = "exit" /\ TableNodes = {}
    BY <1>11, <1>0, LoopFacts DEF FreeRoot, UnderWay, Op
  <2>2. /\ root'[kern.pid] = Null /\ \A va \in VA : map'[kern.pid][va] = NoEntry
        /\ \A n \in Nodes : tables'[kern.pid][n] = Null
    BY <1>11, <1>b, <2>1 DEF FreeRoot, TableNodes
  <2>3. \A p \in Pids : p # kern.pid =>
            root'[p] = root[p] /\ tables'[p] = tables[p] /\ map'[p] = map[p] /\ state'[p] = state[p]
    BY <1>11, <1>b, <2>1 DEF FreeRoot
  <2> SUFFICES ASSUME NEW p \in Pids, state'[p] = "FREE"
               PROVE  /\ root'[p] = Null
                      /\ \A n \in Nodes : tables'[p][n] = Null
                      /\ \A va \in VA : map'[p][va] = NoEntry
    BY DEF FreeSlotsEmpty
  <2>4. CASE p = kern.pid
    BY <2>2, <2>4
  <2>5. CASE p # kern.pid
    BY <1>0, <2>1, <2>3, <2>5 DEF FreeSlotsEmpty, Op
  <2> QED BY <2>4, <2>5
<1>12. CASE DropHeld
  <2>8. ~Op("panic")
    BY <1>12 DEF DropHeld, Op
  <2>9. \A p \in Pids : state'[p] = "FREE" /\ ~(UnderWay' /\ p = kern'.pid) =>
            /\ state[p] = "FREE" /\ ~(UnderWay /\ p = kern.pid)
            /\ root'[p] = root[p] /\ tables'[p] = tables[p] /\ map'[p] = map[p]
    BY <1>12 DEF DropHeld, UnderWay, Op, procs
  <2> QED BY <1>0, <2>8, <2>9, SlotsStill
<1>13. CASE ForkStart
  <2>1. FreeSlots # {} => Least(FreeSlots) \in Pids
    BY <1>0, ChosenSlots, KernelConstants DEF Pids
  <2>8. ~Op("panic")
    BY <1>13 DEF ForkStart, Trap, Op
  <2>9. \A p \in Pids : state'[p] = "FREE" /\ ~(UnderWay' /\ p = kern'.pid) =>
            /\ state[p] = "FREE" /\ ~(UnderWay /\ p = kern.pid)
            /\ root'[p] = root[p] /\ tables'[p] = tables[p] /\ map'[p] = map[p]
    BY <1>13, <1>b, <2>1 DEF ForkStart, Trap, UnderWay, Op, Go
  <2> QED BY <1>0, <2>8, <2>9, SlotsStill
<1>14. CASE ExitStart
  <2>8. ~Op("panic")
    BY <1>14 DEF ExitStart, Trap, Op
  <2>9. \A p \in Pids : state'[p] = "FREE" /\ ~(UnderWay' /\ p = kern'.pid) =>
            /\ state[p] = "FREE" /\ ~(UnderWay /\ p = kern.pid)
            /\ root'[p] = root[p] /\ tables'[p] = tables[p] /\ map'[p] = map[p]
    BY <1>14 DEF ExitStart, Trap, UnderWay, Op, procs
  <2> QED BY <1>0, <2>8, <2>9, SlotsStill
<1>15. CASE PageFault
  <2>8. ~Op("panic")
    BY <1>15 DEF PageFault, Trap, Op
  <2>9. \A p \in Pids : state'[p] = "FREE" /\ ~(UnderWay' /\ p = kern'.pid) =>
            /\ state[p] = "FREE" /\ ~(UnderWay /\ p = kern.pid)
            /\ root'[p] = root[p] /\ tables'[p] = tables[p] /\ map'[p] = map[p]
    BY <1>15, <1>b DEF PageFault, Trap, UnderWay, Op
  <2> QED BY <1>0, <2>8, <2>9, SlotsStill
<1>16. CASE Panic
  BY <1>16 DEF Panic, Go, FreeSlotsEmpty, Op
<1>17. ASSUME NEW va \in VA, PageAlloc(va) PROVE FreeSlotsEmpty'
  <2>8. ~Op("panic")
    BY <1>17 DEF PageAlloc, Trap, Op
  <2>9. \A p \in Pids : state'[p] = "FREE" /\ ~(UnderWay' /\ p = kern'.pid) =>
            /\ state[p] = "FREE" /\ ~(UnderWay /\ p = kern.pid)
            /\ root'[p] = root[p] /\ tables'[p] = tables[p] /\ map'[p] = map[p]
    BY <1>17 DEF PageAlloc, Trap, UnderWay, Op, procs
  <2> QED BY <1>0, <2>8, <2>9, SlotsStill
<1>18. ASSUME NEW va \in UserVA, NEW v \in UserValue, UserWrite(va, v) PROVE FreeSlotsEmpty'
  <2>8. ~Op("panic")
    BY <1>18 DEF UserWrite, Op
  <2>9. \A p \in Pids : state'[p] = "FREE" /\ ~(UnderWay' /\ p = kern'.pid) =>
            /\ state[p] = "FREE" /\ ~(UnderWay /\ p = kern.pid)
            /\ root'[p] = root[p] /\ tables'[p] = tables[p] /\ map'[p] = map[p]
    BY <1>18 DEF UserWrite, UnderWay, Op, procs
  <2> QED BY <1>0, <2>8, <2>9, SlotsStill
<1>19. CASE Memshow
  <2>8. ~Op("panic")
    BY <1>19 DEF Memshow, Op
  <2>9. \A p \in Pids : state'[p] = "FREE" /\ ~(UnderWay' /\ p = kern'.pid) =>
            /\ state[p] = "FREE" /\ ~(UnderWay /\ p = kern.pid)
            /\ root'[p] = root[p] /\ tables'[p] = tables[p] /\ map'[p] = map[p]
    BY <1>19 DEF Memshow, UnderWay, Op, procs
  <2> QED BY <1>0, <2>8, <2>9, SlotsStill
<1>20. CASE Timer
  <2>8. ~Op("panic")
    BY <1>20 DEF Timer, Trap, Op
  <2>9. \A p \in Pids : state'[p] = "FREE" /\ ~(UnderWay' /\ p = kern'.pid) =>
            /\ state[p] = "FREE" /\ ~(UnderWay /\ p = kern.pid)
            /\ root'[p] = root[p] /\ tables'[p] = tables[p] /\ map'[p] = map[p]
    BY <1>20 DEF Timer, Trap, UnderWay, Op, procs
  <2> QED BY <1>0, <2>8, <2>9, SlotsStill
<1>21. CASE SoftReboot
  BY <1>21, AfterReboot DEF FreeSlotsEmpty
<1>22. CASE UNCHANGED vars
  BY <1>0, <1>22 DEF vars, procs, FreeSlotsEmpty, UnderWay, Op
<1> QED BY <1>1, <1>2, <1>3, <1>4, <1>5, <1>6, <1>7, <1>8, <1>9, <1>10, <1>11, <1>12,
       <1>13, <1>14, <1>15, <1>16, <1>17, <1>18, <1>19, <1>20, <1>21, <1>22 DEF Next,
       KernelStep, UserStep

\* The entries of the process a loop is at, and how far the loop has come.
LEMMA ProgressStill ==
    ASSUME kern'.op \notin {"setup", "stack", "fork", "exit"}
    PROVE  LoopProgress'
BY DEF LoopProgress, Op

\* A loop that starts at a slot without memory has everything still to map.
LEMMA ProgressStarts ==
    ASSUME kern'.op \in {"setup", "fork"}, kern'.pid \in Pids, map' = map,
           \A va \in VA : map[kern'.pid][va] = NoEntry
    PROVE  LoopProgress'
BY DEF LoopProgress, Op

\* A release starts at the first user page.
LEMMA ReleaseStarts ==
    ASSUME kern'.op = "exit", kern'.va = PROC_START
    PROVE  LoopProgress'
<1>1. \A va \in UserVA : ~(va < PROC_START)
  BY KernelConstants DEF UserVA
<1> QED BY <1>1 DEF LoopProgress, Op

\* A building loop that goes on leaves what it has still to map.
LEMMA BuildGoesOn ==
    ASSUME TypeOK, LoopProgress, kern.op \in {"setup", "stack", "fork"}, kern.va \in Nat,
           kern'.op \in {"setup", "stack", "fork"}, kern'.pid = kern.pid, kern'.va \in Nat,
           kern'.va >= kern.va,
           \A va \in VA : va >= kern'.va => map'[kern.pid][va] = map[kern.pid][va]
    PROVE  LoopProgress'
<1>1. ASSUME NEW va \in VA, va >= kern'.va PROVE va >= kern.va
  <2>1. va \in Nat
    BY Sizes
  <2> QED BY <1>1, <2>1
<1>2. \A va \in VA : va >= kern.va => map[kern.pid][va] = NoEntry
  BY DEF LoopProgress, Op
<1>3. \A va \in VA : va >= kern'.va => map'[kern'.pid][va] = NoEntry
  BY <1>1, <1>2
<1> QED BY <1>3 DEF LoopProgress, Op

\* Every step keeps what the loops have still to map and have already freed.
LEMMA ProgressKept == Orderly /\ [Next]_vars => LoopProgress'
<1> SUFFICES ASSUME Orderly, [Next]_vars PROVE LoopProgress'
  OBVIOUS
<1>0. TypeOK /\ Loops /\ FreeSlotsEmpty /\ LoopProgress
  BY DEF Orderly
<1>b. /\ map \in [Pids -> [VA -> [pa: Pages, perm: Perm]]] /\ kern.va \in Nat /\ VA \subseteq Nat
      /\ kern = [op |-> kern.op, pid |-> kern.pid, va |-> kern.va, hold |-> kern.hold]
      /\ \A i \in Nat : i >= i /\ i + 1 \in Nat /\ i + 1 >= i
      /\ \A i \in Nat, j \in Nat : i >= j + 1 => i # j
      /\ \A i \in Nat, j \in Nat : i < j + 1 => i < j \/ i = j
  BY <1>0, KernelConstants, Sizes DEF TypeOK
<1>1. CASE SetupStart
  <2>1. kern.pid \in Pids /\ kern.op = "boot" /\ map' = map
    BY <1>1, <1>0, LoopFacts DEF SetupStart, Op
  <2>2. CASE kern'.op = "boot"
    BY <2>2, ProgressStill
  <2>3. CASE kern'.op = "setup" /\ kern'.pid = kern.pid
    <3>1. state[kern.pid] = "FREE"
      <4>1. kern.pid >= kern.pid
        BY <2>1, KernelConstants DEF Pids
      <4> QED BY <1>1, <1>0, <2>1, <4>1 DEF SetupStart, Loops
    <3>2. \A va \in VA : map[kern.pid][va] = NoEntry
      BY <1>0, <2>1, <3>1 DEF FreeSlotsEmpty, UnderWay, Op
    <3> QED BY <2>1, <2>3, <3>2, ProgressStarts
  <2> QED BY <1>1, <1>b, <2>1, <2>2, <2>3 DEF SetupStart, Go
<1>2. CASE Load
  <2>1. CASE kern'.op = "panic"
    BY <2>1, ProgressStill
  <2>2. CASE kern' = [kern EXCEPT !.op = "stack"]
    <3>1. kern'.op = "stack" /\ kern'.pid = kern.pid /\ kern'.va = kern.va /\ kern.op = "setup"
      BY <1>2, <1>b, <2>2 DEF Load, Op
    <3>2. map' = map
      BY <1>2 DEF Load, procs
    <3> QED BY <1>0, <1>b, <3>1, <3>2, BuildGoesOn
  <2> QED BY <1>2, <2>1, <2>2 DEF Load, Go
<1>3. CASE SetupDone
  <2>1. kern'.op \in {"boot", "user", "panic"}
    BY <1>3 DEF SetupDone, Go
  <2> QED BY <2>1, ProgressStill
<1>4. CASE BootDone
  <2>1. kern'.op \in {"boot", "user", "panic"}
    BY <1>4 DEF BootDone, Go, ReturnToUser
  <2> QED BY <2>1, ProgressStill
<1>5. CASE TakePage
  <2>1. kern.op \in {"setup", "stack", "fork"} /\ map' = map
    BY <1>5 DEF TakePage, Busy, Building, NeedsPage, Op, procs
  <2>2. CASE FailFork
    BY <2>2, ReleaseStarts DEF FailFork, Go
  <2>3. CASE kern' = [kern EXCEPT !.hold = kalloc]
    <3>1. kern'.op = kern.op /\ kern'.pid = kern.pid /\ kern'.va = kern.va
      BY <1>b, <2>3
    <3> QED BY <1>0, <1>b, <2>1, <3>1, BuildGoesOn
  <2> QED BY <1>5, <2>2, <2>3 DEF TakePage
<1>6. CASE GrowTable
  <2>1. kern.op \in {"setup", "stack", "fork", "alloc"} /\ map' = map
    BY <1>6 DEF GrowTable, Busy, Building, Op
  <2>2. CASE FailFork
    BY <2>2, ReleaseStarts DEF FailFork, Go
  <2>3. CASE kern' = kern
    <3>1. CASE Op("alloc")
      BY <2>3, <3>1, ProgressStill DEF Op
    <3>2. CASE ~Op("alloc")
      BY <1>0, <1>b, <2>1, <2>3, <3>2, BuildGoesOn DEF Op
    <3> QED BY <3>1, <3>2
  <2>4. CASE Advance
    <3>1. CASE Op("alloc")
      BY <2>4, <3>1, ProgressStill DEF Advance, ReturnToUser, Go
    <3>2. CASE ~Op("alloc")
      <4>1. kern' = [kern EXCEPT !.va = @ + 1, !.hold = None]
        BY <2>4, <3>2 DEF Advance
      <4>2. kern'.op = kern.op /\ kern'.pid = kern.pid /\ kern'.va = kern.va + 1
        BY <1>b, <4>1
      <4>3. kern.op \in {"setup", "stack", "fork"}
        BY <2>1, <3>2 DEF Op
      <4> QED BY <1>0, <1>b, <2>1, <4>2, <4>3, BuildGoesOn
    <3> QED BY <3>1, <3>2
  <2> QED BY <1>6, <2>2, <2>3, <2>4 DEF GrowTable
<1>7. CASE Install
  <2>1. kern.op \in {"setup", "stack", "fork", "alloc"}
        /\ \A va \in VA : va >= kern.va + 1 => map'[kern.pid][va] = map[kern.pid][va]
    <3>1. kern.op \in {"setup", "stack", "fork", "alloc"}
      BY <1>7 DEF Install, Busy, Building, Op
    <3>2. kern.va \in VA /\ kern.pid \in Pids
      BY <1>7, EntryForm DEF Install, Orderly
    <3>3. \A va \in VA : va # kern.va => map'[kern.pid][va] = map[kern.pid][va]
      BY <1>7, <1>b, <3>2 DEF Install
    <3> QED BY <1>b, <3>1, <3>3
  <2>2. CASE Advance
    <3>1. CASE Op("alloc")
      BY <2>2, <3>1, ProgressStill DEF Advance, ReturnToUser, Go
    <3>2. CASE ~Op("alloc")
      <4>1. kern' = [kern EXCEPT !.va = @ + 1, !.hold = None]
        BY <2>2, <3>2 DEF Advance
      <4>2. kern'.op = kern.op /\ kern'.pid = kern.pid /\ kern'.va = kern.va + 1
        BY <1>b, <4>1
      <4>3. kern.op \in {"setup", "stack", "fork"}
        BY <2>1, <3>2 DEF Op
      <4> QED BY <1>0, <1>b, <2>1, <4>2, <4>3, BuildGoesOn
    <3> QED BY <3>1, <3>2
  <2> QED BY <1>7, <2>2 DEF Install
<1>8. CASE ForkDone
  <2>1. kern'.op \in {"boot", "user", "panic"}
    BY <1>8 DEF ForkDone, Go, ReturnToUser
  <2> QED BY <2>1, ProgressStill
<1>9. CASE FreeUserPage
  <2>1. kern.pid \in Pids /\ kern.op = "exit" /\ kern.va \in VA
    BY <1>9, <1>0, LoopFacts DEF FreeUserPage, UnderWay, Op
  <2>2. kern'.op = "exit" /\ kern'.pid = kern.pid /\ kern'.va = kern.va + 1
    BY <1>9, <1>b, <2>1 DEF FreeUserPage
  <2>3. \A va \in VA : map'[kern.pid][va] = IF va = kern.va THEN NoEntry ELSE map[kern.pid][va]
    BY <1>9, <1>b, <2>1 DEF FreeUserPage
  <2>4. \A va \in UserVA : va < kern.va + 1 => map'[kern.pid][va] = NoEntry
    BY <1>0, <1>b, <2>1, <2>3, Sizes DEF LoopProgress, Op
  <2> QED BY <2>2, <2>4 DEF LoopProgress, Op
<1>10. CASE FreeTable
  <2>1. UNCHANGED <<kern, map>>
    BY <1>10 DEF FreeTable
  <2> QED BY <1>0, <2>1 DEF LoopProgress, Op
<1>11. CASE FreeRoot
  <2>1. kern'.op \in {"user", "idle", "drop"}
    BY <1>11, <1>b DEF FreeRoot, schedule, ReturnToUser, Go
  <2> QED BY <2>1, ProgressStill
<1>12. CASE DropHeld
  <2>1. kern'.op \in {"boot", "user", "panic"}
    BY <1>12 DEF DropHeld, Go, ReturnToUser
  <2> QED BY <2>1, ProgressStill
<1>13. CASE ForkStart
  <2>1. CASE kern' = kern
    BY <1>13, <2>1, ProgressStill DEF ForkStart, Trap, Op
  <2>2. CASE kern' # kern
    <3>1. /\ FreeSlots # {} /\ map' = map
          /\ kern' = [op |-> "fork", pid |-> Least(FreeSlots), va |-> 0, hold |-> None]
      BY <1>13, <2>2 DEF ForkStart, Go
    <3>2. Least(FreeSlots) \in Pids /\ state[Least(FreeSlots)] = "FREE"
      BY <1>0, <3>1, ChosenSlots, KernelConstants DEF Pids
    <3>3. \A va \in VA : map[Least(FreeSlots)][va] = NoEntry
      BY <1>13, <1>0, <3>2 DEF ForkStart, Trap, FreeSlotsEmpty, UnderWay, Op
    <3> QED BY <3>1, <3>2, <3>3, ProgressStarts
  <2> QED BY <2>1, <2>2
<1>14. CASE ExitStart
  BY <1>14, ReleaseStarts DEF ExitStart, Go
<1>15. CASE PageFault
  <2>1. kern'.op \in {"user", "idle"}
    BY <1>15 DEF PageFault, schedule, ReturnToUser, Go
  <2> QED BY <2>1, ProgressStill
<1>16. CASE Panic
  <2>1. kern'.op \in {"boot", "user", "panic"}
    BY <1>16 DEF Panic, Go
  <2> QED BY <2>1, ProgressStill
<1>17. ASSUME NEW va \in VA, PageAlloc(va) PROVE LoopProgress'
  <2>1. kern'.op \in {"user", "panic", "alloc"}
    BY <1>17 DEF PageAlloc, Op, Trap, Go
  <2> QED BY <2>1, ProgressStill
<1>18. ASSUME NEW va \in UserVA, NEW v \in UserValue, UserWrite(va, v) PROVE LoopProgress'
  <2>1. kern'.op \in {"user", "panic", "alloc"}
    BY <1>18 DEF UserWrite, Op
  <2> QED BY <2>1, ProgressStill
<1>19. CASE Memshow
  <2>1. kern'.op \in {"user", "panic", "alloc"}
    BY <1>19 DEF Memshow, Op, Go
  <2> QED BY <2>1, ProgressStill
<1>20. CASE Timer
  <2>1. kern'.op \in {"user", "idle"}
    BY <1>20 DEF Timer, schedule, ReturnToUser, Go
  <2> QED BY <2>1, ProgressStill
<1>21. CASE SoftReboot
  <2>1. kern'.op \in {"boot", "user", "panic"}
    BY <1>21 DEF SoftReboot, Go
  <2> QED BY <2>1, ProgressStill
<1>22. CASE UNCHANGED vars
  <2>1. UNCHANGED <<kern, map>>
    BY <1>22 DEF vars, procs
  <2> QED BY <1>0, <2>1 DEF LoopProgress, Op
<1> QED BY <1>1, <1>2, <1>3, <1>4, <1>5, <1>6, <1>7, <1>8, <1>9, <1>10, <1>11, <1>12,
       <1>13, <1>14, <1>15, <1>16, <1>17, <1>18, <1>19, <1>20, <1>21, <1>22 DEF Next,
       KernelStep, UserStep

-----------------------------------------------------------------------------
(* While process_setup has found memory.                                   *)

\* A step that leaves the page tables, takes nothing null in hand and makes
\* no process runnable before its tables are complete.
Harmless ==
    /\ map' = map
    /\ Building' => kern'.hold # Null
    /\ \A p \in Pids : state'[p] # "FREE" =>
           \/ state[p] # "FREE"
           \/ BuildsProcess /\ p = kern.pid /\ kern.va >= PROC_START
    /\ BuildsProcess' => \/ kern'.va = 0
                         \/ BuildsProcess /\ kern'.pid = kern.pid /\ kern'.va = kern.va

\* A harmless step keeps the tables complete.
LEMMA HarmlessSteps ==
    ASSUME TypeOK, Complete, ~starved, Harmless
    PROVE  Complete'
<1>1. /\ NoNullLeaf /\ \A p \in Pids : state[p] # "FREE" => KernelPart(p, PROC_START)
      /\ BuildsProcess => KernelPart(kern.pid, kern.va)
  BY DEF Complete
<1>2. NoNullLeaf' /\ (Building' => kern'.hold # Null)
  BY <1>1 DEF NoNullLeaf, Harmless, present
<1>3. kern.va \in Nat /\ PROC_START \in Nat
  BY KernelConstants DEF TypeOK
<1>4. \A p \in Pids : state'[p] # "FREE" => KernelPart(p, PROC_START)
  <2> SUFFICES ASSUME NEW p \in Pids, state'[p] # "FREE" PROVE KernelPart(p, PROC_START)
    OBVIOUS
  <2>1. CASE state[p] # "FREE"
    BY <1>1, <2>1
  <2>2. CASE BuildsProcess /\ p = kern.pid /\ kern.va >= PROC_START
    <3>1. \A va \in 0..PROC_START-1 : va < kern.va
      BY <1>3, <2>2
    <3> QED BY <1>1, <2>2, <3>1 DEF KernelPart
  <2> QED BY <2>1, <2>2 DEF Harmless
<1>5. \A p \in Pids : state'[p] # "FREE" => KernelPart(p, PROC_START)'
  BY <1>4 DEF KernelPart, Harmless
<1>6. BuildsProcess' => KernelPart(kern.pid, kern.va)'
  <2> SUFFICES ASSUME BuildsProcess', NEW va \in 0..PROC_START-1, va < kern'.va
               PROVE  map'[kern'.pid][va] = KernelEntry(va)
    BY DEF KernelPart
  <2>1. kern'.va # 0
    BY <1>3
  <2>2. BuildsProcess /\ kern'.pid = kern.pid /\ kern'.va = kern.va /\ map' = map
    BY <2>1 DEF Harmless
  <2> QED BY <1>1, <2>2 DEF KernelPart
<1> QED BY <1>2, <1>5, <1>6 DEF Complete

\* Every step keeps the tables complete.
LEMMA CompleteKept == Orderly /\ Complete /\ [Next]_vars => Complete'
<1> SUFFICES ASSUME Orderly, Complete, [Next]_vars, ~starved' PROVE Complete'
  BY DEF Complete
<1>0. TypeOK /\ Loops /\ FreeSlotsEmpty /\ LoopProgress
  BY DEF Orderly
<1>b. /\ state \in [Pids -> {"FREE", "RUNNABLE", "BROKEN"}] /\ current \in Pids
      /\ map \in [Pids -> [VA -> [pa: Pages, perm: Perm]]] /\ kern.va \in Nat
      /\ PROC_START \in Nat /\ PROC_START < MEMSIZE_VIRTUAL /\ MEMSIZE_VIRTUAL \in Nat
      /\ kern = [op |-> kern.op, pid |-> kern.pid, va |-> kern.va, hold |-> kern.hold]
      /\ 0..PROC_START-1 \subseteq VA
  BY <1>0, KernelConstants DEF TypeOK, VA
<1>c. None # Null
  BY Sizes
<1>1. CASE SetupStart
  <2>1. kalloc # Null
    BY <1>1 DEF SetupStart
  <2>8. ~starved
    BY <1>1 DEF SetupStart
  <2>9. Harmless
    BY <1>1, <1>c, <2>1 DEF SetupStart, Go, Harmless, Building, BuildsProcess, Op
  <2> QED BY <1>0, <2>8, <2>9, HarmlessSteps
<1>2. CASE Load
  <2>1. kern.op = "setup" /\ kern.hold # Null
    <3>1. ~Busy
      BY <1>2, <1>b DEF Load, Busy, End, STACK
    <3> QED BY <1>2, <1>0, <1>c, <3>1 DEF Load, Loops, Op
  <2>8. ~starved
    BY <1>2 DEF Load
  <2>9. Harmless
    BY <1>2, <1>c, <1>b, <2>1 DEF Load, Go, procs, Harmless, Building, BuildsProcess, Op
  <2> QED BY <1>0, <2>8, <2>9, HarmlessSteps
<1>3. CASE SetupDone
  <2>1. kern.va >= PROC_START /\ kern.op \in {"stack", "fork"} /\ kern.pid \in Pids
    BY <1>3, <1>0, <1>b, LoopFacts DEF SetupDone, End, STACK, Op, UnderWay
  <2>2. \A p \in Pids : state'[p] # "FREE" => state[p] # "FREE" \/ p = kern.pid
    BY <1>3, <1>b, <2>1 DEF SetupDone
  <2>8. ~starved
    BY <1>3 DEF SetupDone
  <2>9. Harmless
    BY <1>3, <1>c, <2>1, <2>2 DEF SetupDone, Go, Harmless, Building, BuildsProcess, Op
  <2> QED BY <1>0, <2>8, <2>9, HarmlessSteps
<1>4. CASE BootDone
  <2>8. ~starved
    BY <1>4 DEF BootDone
  <2>9. Harmless
    BY <1>4, <1>c DEF BootDone, Go, ReturnToUser, procs, Harmless, Building, BuildsProcess,
           Op
  <2> QED BY <1>0, <2>8, <2>9, HarmlessSteps
<1>5. CASE TakePage
  <2>1. ~starved /\ ~(kalloc = Null /\ ~Op("fork"))
    BY <1>5 DEF TakePage
  <2>2. kern.op \in {"setup", "stack", "fork"} /\ UNCHANGED <<map, state>>
    BY <1>5 DEF TakePage, Busy, Building, NeedsPage, Op, procs
  <2>3. CASE kalloc = Null
    <3>1. kern'.op = "exit"
      BY <1>5, <2>1, <2>3 DEF TakePage, FailFork, Go
    <3>2. Harmless
      BY <2>2, <3>1 DEF Harmless, Building, BuildsProcess, Op
    <3> QED BY <1>0, <2>1, <3>2, HarmlessSteps
  <2>4. CASE kalloc # Null
    <3>1. kern'.op = kern.op /\ kern'.pid = kern.pid /\ kern'.va = kern.va /\ kern'.hold = kalloc
      BY <1>5, <1>b, <2>4 DEF TakePage
    <3>2. Harmless
      BY <2>2, <2>4, <3>1 DEF Harmless, Building, BuildsProcess, Op
    <3> QED BY <1>0, <2>1, <3>2, HarmlessSteps
  <2> QED BY <2>3, <2>4
<1>6. CASE GrowTable
  <2>1. ~starved /\ UNCHANGED <<map, state>>
    BY <1>6 DEF GrowTable
  <2>2. CASE kalloc # Null
    <3>1. kern' = kern
      BY <1>6, <2>2 DEF GrowTable
    <3>2. Building => kern.hold # Null
      BY <2>1 DEF Complete
    <3>3. Harmless
      BY <2>1, <3>1, <3>2 DEF Harmless, Building, BuildsProcess, Op
    <3> QED BY <1>0, <2>1, <3>3, HarmlessSteps
  <2>3. CASE kalloc = Null
    <3>1. Op("fork") \/ Op("alloc")
      BY <1>6, <2>3 DEF GrowTable, Busy, Building
    <3>2. kern'.op \in {"exit", "user"}
      BY <1>6, <2>3, <3>1 DEF GrowTable, FailFork, Advance, ReturnToUser, Go, Op
    <3>3. Harmless
      BY <2>1, <3>2 DEF Harmless, Building, BuildsProcess, Op
    <3> QED BY <1>0, <2>1, <3>3, HarmlessSteps
  <2> QED BY <2>2, <2>3
<1>7. CASE Install
  <2>1. ~starved /\ state' = state /\ Busy
    BY <1>7 DEF Install
  <2>2. kern.va \in VA /\ kern.pid \in Pids
    BY <1>7, EntryForm DEF Install, Orderly
  <2>3. /\ NoNullLeaf /\ kern.hold # Null
        /\ \A p \in Pids : state[p] # "FREE" => KernelPart(p, PROC_START)
        /\ BuildsProcess => KernelPart(kern.pid, kern.va)
    BY <2>1 DEF Complete, Busy
  <2>4. \A p \in Pids, va \in VA :
            map'[p][va] = IF p = kern.pid /\ va = kern.va THEN Entry ELSE map[p][va]
    BY <1>7, <1>b, <2>2 DEF Install
  <2>5. /\ kern.va \in UserVA /\ present(Entry) => Entry.pa # Null
        /\ Op("alloc") => kern.va \in UserVA
        /\ kern.va < PROC_START => Entry = KernelEntry(kern.va)
    <3>1. CASE EmptyEntry
      <4>1. kern.va < PROC_START => Entry = KernelEntry(kern.va)
        <5> SUFFICES ASSUME kern.va < PROC_START PROVE Entry = KernelEntry(kern.va)
          OBVIOUS
        <5>1. Op("setup") /\ kern.va < PROC_START
          BY <3>1 DEF EmptyEntry
        <5> QED BY <2>2, <5>1, KernelConstants DEF Entry, Op, VA
      <4> QED BY <3>1, <4>1, NoEntryFacts DEF EmptyEntry, Op
    <3>2. CASE KernelCopy
      <4>1. kern.va \notin UserVA
        BY <1>b, <3>2 DEF KernelCopy, UserVA
      <4> QED BY <3>2, <4>1 DEF KernelCopy, Op
    <3>3. CASE ParentEntry
      <4>1. Entry = map[current][kern.va] /\ Op("fork")
        BY <3>3 DEF ParentEntry, Source
      <4>2. KernelPart(current, PROC_START)
        BY <1>0, <1>b, <2>3, <4>1 DEF Loops
      <4>3. kern.va < PROC_START => Entry = KernelEntry(kern.va)
        <5>1. kern.va < PROC_START => kern.va \in 0..PROC_START-1
          BY <1>b
        <5> QED BY <4>1, <4>2, <5>1 DEF KernelPart
      <4>4. kern.va \in UserVA /\ present(Entry) => Entry.pa # Null
        BY <1>b, <2>3, <4>1 DEF NoNullLeaf
      <4> QED BY <4>1, <4>3, <4>4 DEF Op
    <3>4. CASE HeldEntry
      <4>1. ~(kern.va < PROC_START)
        BY <1>b, <3>4 DEF HeldEntry, UserVA
      <4> QED BY <2>3, <3>4, <4>1 DEF HeldEntry
    <3> QED BY <1>7, <3>1, <3>2, <3>3, <3>4, EntryForm DEF Install, Orderly
  <2>6. NoNullLeaf'
    BY <2>3, <2>4, <2>5, Sizes DEF NoNullLeaf, present
  <2>7. Building' => kern'.hold # Null
    BY <1>7, <1>0, <1>c, AdvanceDropsPage DEF Install
  <2>8. \A p \in Pids : state'[p] # "FREE" => KernelPart(p, PROC_START)'
    <3> SUFFICES ASSUME NEW p \in Pids, state[p] # "FREE", NEW va \in 0..PROC_START-1
                 PROVE  map'[p][va] = KernelEntry(va)
      BY <2>1 DEF KernelPart
    <3>1. map[p][va] = KernelEntry(va) /\ va < PROC_START
      BY <1>b, <2>3 DEF KernelPart
    <3> QED BY <1>b, <2>4, <2>5, <3>1
  <2>9. BuildsProcess' => KernelPart(kern.pid, kern.va)'
    <3> SUFFICES ASSUME BuildsProcess', NEW va \in 0..PROC_START-1, va < kern'.va
                 PROVE  map'[kern'.pid][va] = KernelEntry(va)
      BY DEF KernelPart
    <3>1. ~Op("alloc") /\ kern' = [kern EXCEPT !.va = @ + 1, !.hold = None]
      BY <1>7 DEF Install, Advance, ReturnToUser, Go, BuildsProcess
    <3>2. kern'.pid = kern.pid /\ kern'.va = kern.va + 1 /\ BuildsProcess
      BY <1>b, <2>1, <3>1 DEF BuildsProcess, Busy, Building, Op
    <3>3. CASE va = kern.va
      BY <1>b, <2>2, <2>4, <2>5, <3>2, <3>3
    <3>4. CASE va # kern.va
      <4>1. va < kern.va
        <5>1. va \in Nat /\ va < kern.va + 1 /\ kern.va \in Nat
          BY <1>b, <3>2
        <5> QED BY <3>4, <5>1
      <4>2. map[kern.pid][va] = KernelEntry(va)
        BY <2>3, <3>2, <4>1 DEF KernelPart
      <4> QED BY <1>b, <2>2, <2>4, <3>2, <3>4, <4>2
    <3> QED BY <3>3, <3>4
  <2> QED BY <2>6, <2>7, <2>8, <2>9 DEF Complete
<1>8. CASE ForkDone
  <2>1. kern.va >= PROC_START /\ kern.op \in {"stack", "fork"} /\ kern.pid \in Pids
    BY <1>8, <1>0, <1>b, LoopFacts DEF ForkDone, End, STACK, Op, UnderWay
  <2>2. \A p \in Pids : state'[p] # "FREE" => state[p] # "FREE" \/ p = kern.pid
    BY <1>8, <1>b, <2>1 DEF ForkDone
  <2>8. ~starved
    BY <1>8 DEF ForkDone
  <2>9. Harmless
    BY <1>8, <1>c, <2>1, <2>2 DEF ForkDone, Go, ReturnToUser, Harmless, Building,
           BuildsProcess, Op
  <2> QED BY <1>0, <2>8, <2>9, HarmlessSteps
<1>9. CASE FreeUserPage
  <2>1. ~starved /\ state' = state /\ kern.op = "exit"
    BY <1>9 DEF FreeUserPage, Op
  <2>2. kern.pid \in Pids /\ kern.va \in VA /\ kern.va >= PROC_START
    BY <1>9, <1>0, LoopFacts DEF FreeUserPage, Loops, UnderWay
  <2>3. /\ NoNullLeaf /\ \A p \in Pids : state[p] # "FREE" => KernelPart(p, PROC_START)
    BY <2>1 DEF Complete
  <2>4. \A p \in Pids, va \in VA :
            map'[p][va] = IF p = kern.pid /\ va = kern.va THEN NoEntry ELSE map[p][va]
    BY <1>9, <1>b, <2>2 DEF FreeUserPage
  <2>5. NoNullLeaf'
    BY <2>3, <2>4, Sizes, NoEntryFacts DEF NoNullLeaf, present
  <2>6. kern'.op = "exit"
    BY <1>9, <1>b, <2>1 DEF FreeUserPage
  <2>7. \A p \in Pids : state'[p] # "FREE" => KernelPart(p, PROC_START)'
    <3> SUFFICES ASSUME NEW p \in Pids, state[p] # "FREE", NEW va \in 0..PROC_START-1
                 PROVE  map'[p][va] = KernelEntry(va)
      BY <2>1 DEF KernelPart
    <3>1. map[p][va] = KernelEntry(va) /\ va # kern.va /\ va \in VA
      BY <1>b, <2>2, <2>3 DEF KernelPart
    <3> QED BY <2>4, <3>1
  <2> QED BY <2>5, <2>6, <2>7 DEF Complete, Building, BuildsProcess, Op
<1>10. CASE FreeTable
  <2>8. ~starved
    BY <1>10 DEF FreeTable
  <2>9. Harmless
    BY <1>10, <1>c DEF FreeTable, Harmless, Building, BuildsProcess, Op
  <2> QED BY <1>0, <2>8, <2>9, HarmlessSteps
<1>11. CASE FreeRoot
  <2>1. ~starved /\ kern.pid \in Pids
    BY <1>11, <1>0, LoopFacts DEF FreeRoot, UnderWay
  <2>2. /\ NoNullLeaf /\ \A p \in Pids : state[p] # "FREE" => KernelPart(p, PROC_START)
    BY <2>1 DEF Complete
  <2>3. /\ \A p \in Pids, va \in VA :
                map'[p][va] = IF p = kern.pid THEN NoEntry ELSE map[p][va]
        /\ \A p \in Pids : state'[p] = IF p = kern.pid THEN "FREE" ELSE state[p]
    BY <1>11, <1>b, <2>1 DEF FreeRoot
  <2>4. NoNullLeaf'
    BY <2>2, <2>3, Sizes, NoEntryFacts DEF NoNullLeaf, present
  <2>5. kern'.op \in {"user", "idle", "drop"}
    BY <1>11, <1>b DEF FreeRoot, schedule, ReturnToUser, Go
  <2>6. \A p \in Pids : state'[p] # "FREE" => KernelPart(p, PROC_START)'
    BY <1>b, <2>2, <2>3 DEF KernelPart
  <2> QED BY <2>4, <2>5, <2>6 DEF Complete, Building, BuildsProcess, Op
<1>12. CASE DropHeld
  <2>8. ~starved
    BY <1>12 DEF DropHeld
  <2>9. Harmless
    BY <1>12, <1>c DEF DropHeld, Go, ReturnToUser, procs, Harmless, Building, BuildsProcess,
           Op
  <2> QED BY <1>0, <2>8, <2>9, HarmlessSteps
<1>13. CASE ForkStart
  <2>8. ~starved
    BY <1>13 DEF ForkStart
  <2>9. Harmless
    BY <1>13, <1>c DEF ForkStart, Trap, Go, Harmless, Building, BuildsProcess, Op
  <2> QED BY <1>0, <2>8, <2>9, HarmlessSteps
<1>14. CASE ExitStart
  <2>8. ~starved
    BY <1>14 DEF ExitStart
  <2>9. Harmless
    BY <1>14, <1>c DEF ExitStart, Trap, Go, procs, Harmless, Building, BuildsProcess, Op
  <2> QED BY <1>0, <2>8, <2>9, HarmlessSteps
<1>15. CASE PageFault
  <2>1. state[current] = "RUNNABLE"
    BY <1>15, <1>0 DEF PageFault, Trap, Loops
  <2>2. \A p \in Pids : state'[p] # "FREE" => state[p] # "FREE"
    BY <1>15, <1>b, <2>1 DEF PageFault
  <2>8. ~starved
    BY <1>15 DEF PageFault
  <2>9. Harmless
    BY <1>15, <1>c, <2>1, <2>2 DEF PageFault, schedule, ReturnToUser, Go, Harmless, Building,
           BuildsProcess, Op
  <2> QED BY <1>0, <2>8, <2>9, HarmlessSteps
<1>16. CASE Panic
  <2>8. ~starved
    BY <1>16 DEF Panic
  <2>9. Harmless
    BY <1>16, <1>c DEF Panic, Go, procs, Harmless, Building, BuildsProcess, Op
  <2> QED BY <1>0, <2>8, <2>9, HarmlessSteps
<1>17. ASSUME NEW va \in VA, PageAlloc(va) PROVE Complete'
  <2>8. ~starved
    BY <1>17 DEF PageAlloc
  <2>9. Harmless
    BY <1>17, <1>c DEF PageAlloc, Trap, Go, procs, Harmless, Building, BuildsProcess, Op
  <2> QED BY <1>0, <2>8, <2>9, HarmlessSteps
<1>18. ASSUME NEW va \in UserVA, NEW v \in UserValue, UserWrite(va, v) PROVE Complete'
  <2>8. ~starved
    BY <1>18 DEF UserWrite
  <2>9. Harmless
    BY <1>18, <1>c DEF UserWrite, procs, Harmless, Building, BuildsProcess, Op
  <2> QED BY <1>0, <2>8, <2>9, HarmlessSteps
<1>19. CASE Memshow
  <2>8. ~starved
    BY <1>19 DEF Memshow
  <2>9. Harmless
    BY <1>19, <1>c DEF Memshow, Go, procs, Harmless, Building, BuildsProcess, Op
  <2> QED BY <1>0, <2>8, <2>9, HarmlessSteps
<1>20. CASE Timer
  <2>8. ~starved
    BY <1>20 DEF Timer
  <2>9. Harmless
    BY <1>20, <1>c DEF Timer, schedule, ReturnToUser, Go, procs, Harmless, Building,
           BuildsProcess, Op
  <2> QED BY <1>0, <2>8, <2>9, HarmlessSteps
<1>21. CASE SoftReboot
  <2>1. \A p \in Pids : state'[p] = "FREE"
    BY <1>21 DEF SoftReboot
  <2>2. NoNullLeaf'
    BY <1>21, AfterReboot, NoEntryFacts, Sizes DEF NoNullLeaf, present
  <2>3. kern'.op = "boot"
    BY <1>21 DEF SoftReboot, Go
  <2> QED BY <2>1, <2>2, <2>3 DEF Complete, Building, BuildsProcess, Op
<1>22. CASE UNCHANGED vars
  <2>1. UNCHANGED <<kern, map, state, starved>>
    BY <1>22 DEF vars, procs
  <2> QED BY <2>1 DEF Complete, NoNullLeaf, KernelPart, BuildsProcess, Building, Op, present
<1> QED BY <1>1, <1>2, <1>3, <1>4, <1>5, <1>6, <1>7, <1>8, <1>9, <1>10, <1>11, <1>12,
       <1>13, <1>14, <1>15, <1>16, <1>17, <1>18, <1>19, <1>20, <1>21, <1>22 DEF Next,
       KernelStep, UserStep

-----------------------------------------------------------------------------
(* The theorems.                                                           *)

\* The inductive invariant holds when the kernel starts.
LEMMA InitIInv == Init => IInv
<1> SUFFICES ASSUME Init PROVE IInv
  OBVIOUS
<1>1. TypeOK
  <2>1. 0 \in 0..255 /\ 0 \in 0..NPAGES /\ 1 \in 0..NPROC /\ 0 \in 0..MEMSIZE_VIRTUAL
    BY KernelConstants
  <2> QED BY <2>1, Sizes, NoEntryFacts DEF Init, TypeOK, Value
<1>2. kern = [op |-> "boot", pid |-> 1, va |-> 0, hold |-> None]
  BY DEF Init
<1>3. Loops
  <2>1. nboot \in 1..NPROC-1
    BY KernelConstants DEF Init
  <2>2. \A k \in 1..NPROC-1 : 1 \in 1..k + 1
    BY KernelConstants
  <2>3. \A p \in Pids : state[p] = "FREE"
    BY DEF Init
  <2> QED BY <1>2, <2>1, <2>2, <2>3 DEF Loops, Op
<1>4. /\ \A p \in Pids : root[p] = Null
      /\ \A p \in Pids, n \in Nodes : tables[p][n] = Null
      /\ \A p \in Pids, va \in VA : map[p][va] = NoEntry
      /\ viewer = Null /\ \A q \in Pages : lost[q] = 0 /\ pages[q] = 0
  BY DEF Init
<1>5. FreeSlotsEmpty /\ LoopProgress
  BY <1>2, <1>4 DEF FreeSlotsEmpty, LoopProgress, Op
<1>6. \A p \in Pids, va \in UserVA : ~present(map[p][va])
  BY <1>4, Sizes, NoEntryFacts
<1>7. KernelEntries /\ UserEntries /\ LostBound
  <2>1. 0 <= MaxLost + 1
    BY KernelConstants
  <2> QED BY <1>4, <1>6, <2>1 DEF KernelEntries, UserEntries, LostBound
<1>8. Nulls
  BY DEF Init, Nulls
<1>9. RootsApart /\ TablesApart /\ HoldApart /\ LeavesApart /\ SharedReadOnly
  BY <1>4, <1>6 DEF RootsApart, TablesApart, HoldApart, LeavesApart, SharedReadOnly
<1>10. RefcountExact
  <2> SUFFICES ASSUME NEW q \in Allocatable PROVE pages[q] = Refs(q) + lost[q]
    BY DEF RefcountExact
  <2>1. q # Null /\ q # None /\ q \in Pages
    BY Sizes
  <2>2. LeafRefs(q) = {} /\ TableRefs(q) = {} /\ RootRefs(q) = {}
    BY <1>4, <1>6, <2>1 DEF LeafRefs, TableRefs, RootRefs
  <2>3. /\ Cardinality(LeafRefs(q)) = 0 /\ Cardinality(TableRefs(q)) = 0
        /\ Cardinality(RootRefs(q)) = 0
    BY <2>2, FS_EmptySet
  <2>4. kern.hold # q /\ viewer # q
    BY <1>2, <1>4, <2>1
  <2>5. Refs(q) = 0
    BY <2>3, <2>4 DEF Refs
  <2> QED BY <1>4, <2>1, <2>5
<1>11. NoFreePageLost
  BY Sizes DEF Init, NoFreePageLost
<1>12. Complete
  <2>1. NoNullLeaf /\ ~Building /\ ~BuildsProcess /\ \A p \in Pids : state[p] = "FREE"
    BY <1>2, <1>6 DEF Init, NoNullLeaf, Building, BuildsProcess, Op
  <2> QED BY <2>1 DEF Complete
<1> QED BY <1>1, <1>3, <1>5, <1>7, <1>8, <1>9, <1>10, <1>11, <1>12 DEF IInv

\* Every step of the kernel or of a program keeps the inductive invariant.
LEMMA StepIInv == IInv /\ [Next]_vars => IInv'
<1> SUFFICES ASSUME IInv, [Next]_vars PROVE IInv'
  OBVIOUS
<1>1. Orderly /\ Apart /\ NoFreePageLost /\ Complete
  BY DEF IInv, Orderly, Apart
<1>2. Move
  BY <1>1, StepMoves
<1>3. TypeOK'
  BY <1>1, TypeOKStep DEF Orderly
<1>4. Loops' /\ FreeSlotsEmpty' /\ LoopProgress'
  BY <1>1, LoopsKept, SlotsKept, ProgressKept
<1>5. KernelEntries' /\ UserEntries' /\ Nulls' /\ LostBound'
  BY <1>1, <1>2, EntriesKept, NullsKept, LostKept
<1>6. RootsApart' /\ TablesApart' /\ HoldApart' /\ LeavesApart' /\ SharedReadOnly'
  BY <1>1, <1>2, RootsApartKept, TablesApartKept, HoldApartKept, LeavesApartKept,
     SharedReadOnlyKept
<1>7. RefcountExact' /\ NoFreePageLost' /\ Complete'
  BY <1>1, <1>2, CountsKept, SearchKept, CompleteKept
<1> QED BY <1>3, <1>4, <1>5, <1>6, <1>7 DEF IInv

\* The inductive invariant always holds.
LEMMA Invariance == Spec => []IInv
BY InitIInv, StepIInv, PTL DEF Spec

\* The variables keep the types of kernel.hh: page numbers stay within memory,
\* counts within a byte, the loops within the address space.
THEOREM TypeCorrect == Spec => []TypeOK
<1>1. IInv => TypeOK
  BY DEF IInv
<1> QED BY <1>1, Invariance, PTL

\* kalloc's search start never passes a free page, whatever the order of
\* allocations and frees: kalloc fails only when memory is exhausted.
THEOREM FreePagesFound == Spec => []NoFreePageLost
<1>1. IInv => NoFreePageLost
  BY DEF IInv
<1> QED BY <1>1, Invariance, PTL

\* The reference count of every page is the number of references to it and of
\* those page_alloc and process_setup have lost, on every out-of-memory path.
THEOREM CountsExact == Spec => []RefcountExact
<1>1. IInv => RefcountExact
  BY DEF IInv
<1> QED BY <1>1, Invariance, PTL

\* Unless process_setup has run out of memory, what one process can write no
\* other process sees, and no process sees a page table.
THEOREM MemoryIsolated == Spec => []Isolation
<1>1. IInv => Isolation
  <2> SUFFICES ASSUME IInv, ~starved, NEW p \in Pids, NEW va \in UserVA, present(map[p][va])
               PROVE  LET e == map[p][va] IN
                      /\ e.pa \in Allocatable /\ pages[e.pa] # 0 /\ e.pa # viewer
                      /\ \A r \in Pids : e.pa # root[r] /\ \A n \in Nodes : e.pa # tables[r][n]
                      /\ \A r \in Pids, w \in UserVA :
                             <<r, w>> # <<p, va>> /\ present(map[r][w]) /\ map[r][w].pa = e.pa
                                 => ~writable(e) /\ ~writable(map[r][w]) /\ w = va
    BY DEF Isolation
  <2> DEFINE q == map[p][va].pa
  <2>1. Orderly /\ Apart
    BY DEF IInv, Orderly, Apart
  <2>2. q # Null /\ q \in Allocatable
    BY <2>1, HoldTyped DEF IInv, Complete, NoNullLeaf
  <2>3. q # viewer /\ \A r \in Pids : q # root[r] /\ \A n \in Nodes : q # tables[r][n]
    BY <2>1, <2>2 DEF Apart, LeavesApart
  <2>4. pages[q] # 0
    <3>1. <<p, va>> \in LeafRefs(q)
      BY DEF LeafRefs
    <3> HIDE DEF q
    <3> QED BY <2>1, <2>2, <3>1, FreeIsUnused
  <2>5. ASSUME NEW r \in Pids, NEW w \in UserVA, <<r, w>> # <<p, va>>,
               present(map[r][w]), map[r][w].pa = q
        PROVE  ~writable(map[p][va]) /\ ~writable(map[r][w]) /\ w = va
    BY <2>1, <2>2, <2>5 DEF Apart, SharedReadOnly
  <2> QED BY <2>2, <2>3, <2>4, <2>5
<1> QED BY <1>1, Invariance, PTL

\* Unless process_setup has run out of memory, the process that runs has the
\* whole kernel mapped at its own address, as check_pagetable asserts.
THEOREM KernelStaysMapped == Spec => []KernelMapped
<1>1. IInv => KernelMapped
  <2> SUFFICES ASSUME IInv, Op("user"), ~starved, NEW va \in 0..PROC_START-1
               PROVE  map[current][va] = KernelEntry(va)
    BY DEF KernelMapped
  <2>1. current \in Pids /\ state[current] # "FREE"
    BY DEF IInv, TypeOK, Loops
  <2>2. KernelPart(current, PROC_START)
    BY <2>1 DEF IInv, Complete
  <2>3. va < PROC_START
    BY KernelConstants
  <2> QED BY <2>2, <2>3 DEF KernelPart
<1> QED BY <1>1, Invariance, PTL

-----------------------------------------------------------------------------
(* The memory viewer.                                                      *)

\* Slot 0 is never used, and a process has a page table from the moment its
\* slot is taken until it is free again: none is passed over by the viewer.
Rooted ==
    /\ state[0] = "FREE"
    /\ \A p \in Pids : state[p] # "FREE" => root[p] # Null
    /\ Op("setup") \/ Op("stack") \/ Op("fork") => root[kern.pid] # Null

\* No step takes slot 0 or a table from a process.
LEMMA RootedStep == IInv /\ Rooted /\ [Next]_vars => Rooted'
<1> SUFFICES ASSUME IInv, Rooted, [Next]_vars PROVE Rooted'
  OBVIOUS
<1>0. /\ TypeOK /\ Loops /\ TypeOK' /\ Loops'
      /\ root \in [Pids -> Pages] /\ state \in [Pids -> {"FREE", "RUNNABLE", "BROKEN"}]
      /\ Null = 0 /\ 0 \in Pids /\ current \in Pids
  BY StepIInv, Sizes DEF IInv, TypeOK
<1>a. Op("user") => state[current] # "FREE" /\ current # 0
  BY <1>0 DEF Loops, Rooted
<1>b. kern = [op |-> kern.op, pid |-> kern.pid, va |-> kern.va, hold |-> kern.hold]
  BY <1>0 DEF TypeOK
<1>c. ASSUME Advance PROVE kern'.op = "user" \/ (kern'.op = kern.op /\ kern'.pid = kern.pid)
  <2>1. CASE Op("alloc")
    BY <1>c, <2>1 DEF Advance, ReturnToUser, Go
  <2>2. CASE ~Op("alloc")
    <3>1. kern' = [kern EXCEPT !.va = @ + 1, !.hold = None]
      BY <1>c, <2>2 DEF Advance
    <3> QED BY <1>0, <3>1 DEF TypeOK
  <2> QED BY <2>1, <2>2
<1>1. CASE SetupStart
  <2>1. state' = state /\ root' = [root EXCEPT ![kern.pid] = kalloc]
    BY <1>1 DEF SetupStart
  <2>2. kern.pid \in Pids /\ state[kern.pid] = "FREE"
    BY <1>0, <1>1, KernelConstants DEF SetupStart, Loops, Op, Pids, TypeOK
  <2>3. CASE kalloc = Null
    BY <1>0, <1>1, <1>b, <2>1, <2>2, <2>3 DEF SetupStart, Rooted, Op
  <2>4. CASE kalloc # Null
    <3>1. kern' = [op |-> "setup", pid |-> kern.pid, va |-> 0, hold |-> None]
      BY <1>1, <2>4 DEF SetupStart, Go
    <3> QED BY <1>0, <2>1, <2>2, <2>4, <3>1 DEF Rooted, Op
  <2> QED BY <2>3, <2>4
<1>2. CASE Load
  BY <1>2, <1>b DEF Load, procs, Rooted, Op, Go
<1>3. CASE SetupDone
  <2>1. kern.pid \in Pids /\ kern.pid # 0
    BY <1>0, <1>3, KernelConstants DEF SetupDone, Loops, Op, Pids, TypeOK
  <2> QED BY <1>0, <1>3, <2>1 DEF SetupDone, Rooted, Op, Go
<1>4. CASE BootDone
  BY <1>4 DEF BootDone, procs, Rooted, Op, Go, ReturnToUser
<1>5. CASE TakePage
  <2>1. UNCHANGED <<state, root>> /\ kern'.op \in {kern.op, "exit"} /\ kern'.pid = kern.pid
    BY <1>5, <1>b DEF TakePage, procs, FailFork, Go
  <2> QED BY <2>1 DEF Rooted, Op
<1>6. CASE GrowTable
  <2>1. UNCHANGED <<state, root>>
    BY <1>6 DEF GrowTable
  <2>2. kern' = kern \/ FailFork \/ Advance
    BY <1>6 DEF GrowTable
  <2>3. FailFork => kern'.op = "exit"
    BY DEF FailFork, Go
  <2>4. kern'.op = "user" \/ kern'.op = "exit" \/ (kern'.op = kern.op /\ kern'.pid = kern.pid)
    BY <1>c, <2>2, <2>3
  <2> QED BY <2>1, <2>4 DEF Rooted, Op
<1>7. CASE Install
  <2>1. UNCHANGED <<state, root>>
    BY <1>7 DEF Install
  <2>2. kern'.op = "user" \/ (kern'.op = kern.op /\ kern'.pid = kern.pid)
    BY <1>7, <1>c DEF Install
  <2> QED BY <2>1, <2>2 DEF Rooted, Op
<1>8. CASE ForkDone
  <2>1. kern.pid \in Pids /\ kern.pid # 0
    BY <1>0, <1>8, KernelConstants DEF ForkDone, Loops, Op, Pids, TypeOK
  <2> QED BY <1>0, <1>8, <2>1 DEF ForkDone, Rooted, Op, Go, ReturnToUser
<1>9. CASE FreeUserPage \/ FreeTable
  BY <1>9, <1>b DEF FreeUserPage, FreeTable, Rooted, Op
<1>10. CASE FreeRoot
  <2>1. /\ root' = [root EXCEPT ![kern.pid] = Null] /\ state' = [state EXCEPT ![kern.pid] = "FREE"]
    BY <1>10 DEF FreeRoot
  <2>2. kern'.op \in {"user", "idle", "drop"}
    BY <1>10, <1>b DEF FreeRoot, schedule, ReturnToUser, Go
  <2> QED BY <1>0, <2>1, <2>2 DEF Rooted, Op
<1>11. CASE DropHeld \/ ExitStart \/ Panic
  BY <1>11 DEF DropHeld, ExitStart, Panic, procs, Rooted, Op, Go, ReturnToUser
<1>12. CASE Memshow
  BY <1>12 DEF Memshow, procs, Rooted, Op, Go
<1>13. CASE ForkStart
  <2>1. FreeSlots # {} => Least(FreeSlots) \in Pids /\ state[Least(FreeSlots)] = "FREE"
    <3>1. 1..NPROC-1 \subseteq Pids
      BY KernelConstants DEF Pids
    <3> QED BY <1>0, <3>1, ChosenSlots
  <2>2. CASE UNCHANGED <<root, kern>>
    BY <1>13, <2>2 DEF ForkStart, Rooted, Op
  <2>3. CASE ~UNCHANGED <<root, kern>>
    <3>1. /\ FreeSlots # {} /\ kalloc # Null /\ state' = state
          /\ root' = [root EXCEPT ![Least(FreeSlots)] = kalloc]
          /\ kern' = [op |-> "fork", pid |-> Least(FreeSlots), va |-> 0, hold |-> None]
      BY <1>13, <2>3 DEF ForkStart, Go
    <3> QED BY <1>0, <2>1, <3>1 DEF Rooted, Op
  <2> QED BY <2>2, <2>3
<1>14. CASE \E va \in VA : PageAlloc(va)
  <2>1. UNCHANGED <<state, root>> /\ (kern' = kern \/ kern'.op = "alloc")
    BY <1>14 DEF PageAlloc, procs, Go
  <2> QED BY <2>1 DEF Rooted, Op
<1>15. CASE Timer
  BY <1>15 DEF Timer, procs, Rooted, schedule, Op, Go, ReturnToUser
<1>16. CASE PageFault
  <2>1. /\ root' = root /\ state' = [state EXCEPT ![current] = "BROKEN"]
        /\ kern'.op \in {"user", "idle"}
    BY <1>16 DEF PageFault, schedule, ReturnToUser, Go
  <2>2. state[current] # "FREE" /\ current # 0
    BY <1>16, <1>a DEF PageFault, Trap
  <2> QED BY <1>0, <2>1, <2>2 DEF Rooted, Op
<1>17. CASE \E va \in UserVA, v \in UserValue : UserWrite(va, v)
  BY <1>17 DEF UserWrite, procs, Rooted, Op
<1>18. CASE SoftReboot
  BY <1>0, <1>18 DEF SoftReboot, Rooted, Op, Go
<1>19. CASE UNCHANGED vars
  BY <1>19 DEF vars, procs, Rooted, Op
<1> QED BY <1>1, <1>2, <1>3, <1>4, <1>5, <1>6, <1>7, <1>8, <1>9, <1>10, <1>11, <1>12,
       <1>13, <1>14, <1>15, <1>16, <1>17, <1>18, <1>19 DEF Next, KernelStep, UserStep

\* A set with two members has at least two.
LEMMA TwoMembers ==
    ASSUME NEW S, IsFiniteSet(S), NEW x \in S, NEW y \in S, x # y
    PROVE  Cardinality(S) >= 2
<1>1. IsFiniteSet({x, y}) /\ Cardinality({x, y}) = 2
  <2>1. IsFiniteSet({x}) /\ Cardinality({x}) = 1
    BY FS_Singleton
  <2>2. {x, y} = {x} \cup {y} /\ y \notin {x}
    OBVIOUS
  <2>3. IsFiniteSet({x} \cup {y}) /\ Cardinality({x} \cup {y}) = Cardinality({x}) + 1
    BY <2>1, <2>2, FS_AddElement
  <2> QED BY <2>1, <2>2, <2>3
<1>2. {x, y} \subseteq S
  OBVIOUS
<1> QED BY <1>1, <1>2, FS_Subset, FS_CardinalityType

\* A set with more than one member has two.
LEMMA MoreThanOne ==
    ASSUME NEW S, IsFiniteSet(S), Cardinality(S) > 1
    PROVE  \E x, y \in S : x # y
<1> SUFFICES ASSUME \A x, y \in S : x = y PROVE FALSE
  OBVIOUS
<1>1. CASE S = {}
  BY <1>1, FS_EmptySet
<1>2. CASE S # {}
  <2>1. PICK x \in S : TRUE
    BY <1>2
  <2>2. S = {x}
    BY <2>1
  <2> QED BY <2>2, FS_Singleton
<1> QED BY <1>1, <1>2

\* Seen by the viewer or not, the references to a page are those of the
\* processes it shows and its own.
LEMMA ShownRefs ==
    ASSUME IInv, Rooted, Op("user") \/ Op("idle"), ~starved, NEW q \in Allocatable
    PROVE  /\ kern.hold # q /\ q # Null /\ q # CONSOLE
           /\ \A p \in Pids : UserPage(p, q) <=> \E va \in UserVA : <<p, va>> \in LeafRefs(q)
           /\ \A p \in Pids : UserPage(p, q) => p \in Shown
           /\ \A p \in Pids : TablePage(p, q) <=> p \in RootRefs(q) \/ \E n \in Nodes : <<p, n>> \in TableRefs(q)
           /\ \A p \in Pids : TablePage(p, q) => p \in Shown
<1>1. kern.hold # q /\ q # Null /\ q # CONSOLE
  <2>1. kern.hold = None
    BY DEF IInv, Loops
  <2> QED BY <2>1, Sizes, KernelConstants
<1>2. ASSUME NEW p \in Pids, state[p] # "FREE" PROVE p \in Shown
  BY <1>2 DEF Rooted, Shown, Pids
<1>3. ASSUME NEW p \in Pids, state[p] = "FREE"
      PROVE  /\ root[p] = Null /\ \A n \in Nodes : tables[p][n] = Null
             /\ \A va \in VA : map[p][va] = NoEntry
  BY <1>3 DEF IInv, FreeSlotsEmpty, UnderWay, Op
<1>4. ASSUME NEW p \in Pids
      PROVE  UserPage(p, q) <=> \E va \in UserVA : <<p, va>> \in LeafRefs(q)
  <2>1. ASSUME NEW va \in VA, user(map[p][va]), map[p][va].pa = q
        PROVE  va \in UserVA /\ present(map[p][va])
    <3>1. CASE va < PROC_START
      <4>1. map[p][va] \in {NoEntry, KernelEntry(va)}
        BY <3>1 DEF IInv, KernelEntries
      <4>2. map[p][va] = KernelEntry(va) /\ va = CONSOLE
        BY <2>1, <3>1, <4>1, NoEntryFacts, KernelEntryFacts DEF user, present
      <4>3. map[p][va].pa = CONSOLE
        BY <4>2, KernelConstants DEF KernelEntry, Null
      <4> QED BY <1>1, <2>1, <4>3
    <3>2. CASE ~(va < PROC_START)
      BY <2>1, <3>2, KernelConstants DEF VA, UserVA, user, present
    <3> QED BY <3>1, <3>2
  <2>2. ASSUME NEW va \in UserVA, present(map[p][va]), map[p][va].pa = q
        PROVE  va \in VA /\ user(map[p][va])
    BY <2>2, Sizes DEF IInv, UserEntries
  <2> QED BY <2>1, <2>2 DEF UserPage, LeafRefs
<1>5. ASSUME NEW p \in Pids, UserPage(p, q) PROVE p \in Shown
  <2>1. PICK va \in VA : user(map[p][va])
    BY <1>5 DEF UserPage
  <2>2. state[p] # "FREE"
    BY <1>3, <2>1, NoEntryFacts DEF user, present
  <2> QED BY <1>2, <2>2
<1>6. ASSUME NEW p \in Pids
      PROVE  TablePage(p, q) <=> p \in RootRefs(q) \/ \E n \in Nodes : <<p, n>> \in TableRefs(q)
  BY <1>1 DEF TablePage, RootRefs, TableRefs
<1>7. ASSUME NEW p \in Pids, TablePage(p, q) PROVE p \in Shown
  BY <1>2, <1>3, <1>7 DEF TablePage
<1> QED BY <1>1, <1>4, <1>5, <1>6, <1>7

\* While there are processes, what memshow draws is true of the allocator,
\* although it never looks at the reference counts: no error, free pages drawn
\* as free, shared ones with as many references as they have users.
THEOREM DrawingTheorem == Spec => []DrawingTrue
<1>1. Init => Rooted
  <2>1. 0 \in Pids
    BY Sizes
  <2> QED BY <2>1 DEF Init, Rooted, Op
<1>2. IInv /\ Rooted => DrawingTrue
  <2> SUFFICES ASSUME IInv, Rooted, Op("user") \/ Op("idle"), Shown # {}, viewer # Null, ~starved
               PROVE  /\ \A q \in Pages : symbol_at(q) # "error"
                      /\ \A q \in Allocatable :
                            /\ symbol_at(q) = "." <=> pages[q] = lost[q]
                            /\ symbol_at(q) = "S" => pages[q] >= lost[q] + 2
    BY DEF DrawingTrue
  <2>0. Orderly /\ Apart
    BY DEF IInv, Orderly, Apart
  <2>a. Shown \subseteq Pids /\ f_kernel \notin Pids /\ f_user \notin Pids /\ f_kernel # f_user
    BY KernelConstants DEF Shown, Pids, f_kernel, f_user
  <2>1. ASSUME NEW q \in Pages, q \notin Allocatable, q # CONSOLE PROVE symbol_at(q) # "error"
    <3>1. ASSUME NEW p \in Shown PROVE ~TablePage(p, q) /\ ~UserPage(p, q)
      <4>1. ~TablePage(p, q)
        BY <2>1, <2>a DEF TablePage, IInv, Nulls
      <4>2. ASSUME NEW va \in VA, user(map[p][va]), map[p][va].pa = q PROVE FALSE
        <5>1. CASE va < PROC_START
          <6>1. map[p][va] \in {NoEntry, KernelEntry(va)}
            BY <2>a, <5>1 DEF IInv, KernelEntries
          <6>2. map[p][va] = KernelEntry(va) /\ va = CONSOLE
            BY <4>2, <5>1, <6>1, NoEntryFacts, KernelEntryFacts DEF user, present
          <6> QED BY <2>1, <4>2, <6>2, KernelConstants DEF KernelEntry, Null
        <5>2. CASE ~(va < PROC_START)
          <6>1. va \in UserVA /\ present(map[p][va])
            BY <4>2, <5>2, KernelConstants DEF VA, UserVA, user, present
          <6> QED BY <2>1, <2>a, <4>2, <6>1 DEF IInv, UserEntries, Complete, NoNullLeaf
        <5> QED BY <5>1, <5>2
      <4> QED BY <4>1, <4>2 DEF UserPage
    <3>2. Marks(q) \ {f_kernel, f_user} = {}
      BY <3>1 DEF Marks
    <3> QED BY <2>1, <3>2 DEF symbol_at
  <2>2. symbol_at(CONSOLE) = "C"
    BY KernelConstants DEF symbol_at
  <2>3. ASSUME NEW q \in Allocatable
        PROVE  /\ symbol_at(q) # "error"
               /\ symbol_at(q) = "." <=> pages[q] = lost[q]
               /\ symbol_at(q) = "S" => pages[q] >= lost[q] + 2
    <3> DEFINE v == Marks(q)
               Users == {p \in Shown : UserPage(p, q)}
               Owners == {p \in Shown : TablePage(p, q)}
    <3>1. v = Users \cup Owners
              \cup (IF q = viewer \/ Owners # {} THEN {f_kernel} ELSE {})
              \cup (IF Users # {} THEN {f_user} ELSE {})
      BY DEF Marks
    <3>2. v \ {f_kernel, f_user} = Users \cup Owners
      <4> HIDE DEF v
      <4> QED BY <2>a, <3>1
    <3>3. symbol_at(q) = IF v \subseteq {f_user} THEN "."
                ELSE IF v = {f_kernel} THEN "K"
                ELSE IF {f_kernel, f_user} \subseteq v THEN "error"
                ELSE IF Cardinality(Users \cup Owners) > 1 THEN "S" ELSE "one process"
      <4>1. q # CONSOLE
        BY KernelConstants
      <4> HIDE DEF Users, Owners
      <4> QED BY <3>2, <4>1 DEF symbol_at
    <3> HIDE DEF v
    <3>4. /\ \A p \in Pids : UserPage(p, q) <=> \E va \in UserVA : <<p, va>> \in LeafRefs(q)
          /\ \A p \in Pids : UserPage(p, q) => p \in Shown
          /\ \A p \in Pids : TablePage(p, q) <=> p \in RootRefs(q) \/ \E n \in Nodes : <<p, n>> \in TableRefs(q)
          /\ \A p \in Pids : TablePage(p, q) => p \in Shown
          /\ kern.hold # q /\ q # Null
      BY ShownRefs
    <3>5. Users # {} => q # viewer /\ Owners = {}
      <4> SUFFICES ASSUME NEW p \in Shown, UserPage(p, q) PROVE q # viewer /\ Owners = {}
        OBVIOUS
      <4>1. PICK va \in UserVA : <<p, va>> \in LeafRefs(q)
        BY <2>a, <3>4
      <4>2. present(map[p][va]) /\ map[p][va].pa = q
        BY <4>1 DEF LeafRefs
      <4> QED BY <2>0, <2>a, <3>4, <4>2 DEF Apart, LeavesApart, TablePage
    <3>6. /\ Cardinality(LeafRefs(q)) \in Nat /\ Cardinality(TableRefs(q)) \in Nat
          /\ Cardinality(RootRefs(q)) \in Nat /\ lost[q] \in 0..255 /\ pages[q] \in 0..255
          /\ IsFiniteSet(LeafRefs(q)) /\ IsFiniteSet(TableRefs(q)) /\ IsFiniteSet(RootRefs(q))
      BY <2>0, FreeIsUnused
    <3>7. pages[q] = Refs(q) + lost[q]
      BY DEF IInv, RefcountExact
    <3>8. symbol_at(q) # "error"
      BY <2>a, <3>1, <3>3, <3>5
    <3>9. symbol_at(q) = "." <=> Users = {} /\ Owners = {} /\ q # viewer
      BY <2>a, <3>1, <3>3
    <3>10. Users = {} <=> LeafRefs(q) = {}
      BY <2>a, <3>4 DEF LeafRefs
    <3>11. Owners = {} <=> RootRefs(q) = {} /\ TableRefs(q) = {}
      BY <2>a, <3>4 DEF RootRefs, TableRefs
    <3>12. Refs(q) = Cardinality(LeafRefs(q)) + Cardinality(TableRefs(q)) + Cardinality(RootRefs(q))
                     + (IF viewer = q THEN 1 ELSE 0)
      BY <3>4, <3>6 DEF Refs
    <3>13. symbol_at(q) = "." <=> pages[q] = lost[q]
      <4>1. pages[q] = lost[q] <=> Refs(q) = 0
        BY <3>6, <3>7, <3>12, SMTT(30)
      <4>2. Refs(q) = 0 <=> /\ Cardinality(LeafRefs(q)) = 0 /\ Cardinality(TableRefs(q)) = 0
                            /\ Cardinality(RootRefs(q)) = 0 /\ viewer # q
        <5>1. CASE viewer = q
          BY <3>6, <3>12, <5>1
        <5>2. CASE viewer # q
          BY <3>6, <3>12, <5>2
        <5> QED BY <5>1, <5>2
      <4>3. /\ Cardinality(LeafRefs(q)) = 0 <=> LeafRefs(q) = {}
            /\ Cardinality(TableRefs(q)) = 0 <=> TableRefs(q) = {}
            /\ Cardinality(RootRefs(q)) = 0 <=> RootRefs(q) = {}
        BY <3>6, FS_EmptySet
      <4> HIDE DEF Users, Owners
      <4> QED BY <3>9, <3>10, <3>11, <4>1, <4>2, <4>3
    <3>14. ASSUME symbol_at(q) = "S" PROVE pages[q] >= lost[q] + 2
      <4>1. Cardinality(Users \cup Owners) > 1 /\ v # {f_kernel}
        BY <3>3, <3>14
      <4>2. PICK p, r \in Users \cup Owners : p # r
        <5>1. IsFiniteSet(Users \cup Owners)
          <6>1. Users \cup Owners \subseteq Pids
            BY <2>a
          <6> QED BY <6>1, Sizes, FS_Subset
        <5> QED BY <4>1, <5>1, MoreThanOne
      <4>3. p \in Users /\ r \in Users
        <5> SUFFICES ASSUME Users = {} PROVE FALSE
          BY <3>5
        <5>1. p \in Owners /\ r \in Owners
          BY <4>2
        <5>2. TablePage(p, q) /\ TablePage(r, q) /\ p \in Pids /\ r \in Pids
          BY <2>a, <5>1
        <5> QED BY <2>0, <3>4, <4>2, <5>2 DEF Apart, RootsApart, TablesApart, TablePage
      <4>4. PICK va, w \in UserVA : <<p, va>> \in LeafRefs(q) /\ <<r, w>> \in LeafRefs(q)
        BY <2>a, <3>4, <4>3
      <4>5. Cardinality(LeafRefs(q)) >= 2
        BY <3>6, <4>2, <4>4, TwoMembers
      <4>6. Refs(q) >= 2
        BY <3>6, <3>12, <4>5
      <4>7. Refs(q) \in Nat
        BY <3>6, <3>12
      <4> QED BY <3>6, <3>7, <4>6, <4>7
    <3> QED BY <3>8, <3>13, <3>14
  <2>4. ASSUME NEW q \in Pages PROVE symbol_at(q) # "error"
    <3>1. CASE q \in Allocatable
      BY <2>3, <3>1
    <3>2. CASE q = CONSOLE
      BY <2>2, <3>2
    <3> QED BY <2>1, <3>1, <3>2
  <2> QED BY <2>3, <2>4
<1>3. IInv /\ Rooted /\ [Next]_vars => Rooted'
  BY RootedStep
<1>4. Spec => [](IInv /\ Rooted)
  BY <1>1, <1>3, Invariance, PTL DEF Spec
<1> QED BY <1>2, <1>4, PTL

-----------------------------------------------------------------------------
(* Private memories: the kernel implements ProcessMemory as long as the    *)
(* programs that boot are loaded in order.                                 *)

\* What process_setup maps at a program's address.
ProgramPerm(va) ==
    IF va = STACK \/ \E s \in SegmentOf(va) : s.writable THEN PWU
    ELSE IF SegmentOf(va) # {} THEN {"P", "U"} ELSE {}

\* fork has copied the parent's memory as far as its loop has come.
ForkCopied ==
    Op("fork") =>
        /\ \A va \in UserVA : va < kern.va =>
               /\ map[kern.pid][va].perm = map[current][va].perm
               /\ present(map[current][va]) =>
                      mem[map[kern.pid][va].pa] = mem[map[current][va].pa]
        /\ kern.hold # None => mem[kern.hold] = mem[Source.pa]

\* page_alloc holds an empty page.
AllocZeroed == Op("alloc") => mem[kern.hold] = "zero"

\* process_setup has mapped the program as far as its loops have come.
SetupMapped ==
    Op("setup") \/ Op("stack") =>
        \A va \in UserVA : va < kern.va => map[kern.pid][va].perm = ProgramPerm(va)

\* No process shares a page before there is a program that can fork.
BootUnshared ==
    Op("boot") \/ Op("setup") \/ Op("stack") =>
        \A p, r \in Pids, va, w \in UserVA :
            present(map[p][va]) /\ present(map[r][w]) /\ map[p][va].pa = map[r][w].pa
                => p = r /\ va = w

\* After Load the segments hold the program, and the stack's page is as
\* kalloc has left it.
SetupLoaded ==
    Op("stack") =>
        /\ \A va \in UserVA : va < kern.va /\ present(map[kern.pid][va]) =>
               mem[map[kern.pid][va].pa] = ProgramImage[va]
        /\ kern.hold # None => mem[kern.hold] = "int3"

Contents == ForkCopied /\ AllocZeroed /\ SetupMapped /\ BootUnshared /\ SetupLoaded

\* What the inductive invariant says of entries while nothing has starved.
LEMMA Mapped ==
    ASSUME IInv, ~starved
    PROVE  /\ current \in Pids /\ UserVA \subseteq VA /\ Allocatable \subseteq Pages
           /\ Null \notin Allocatable /\ None \notin Allocatable /\ None \notin Pages
           /\ mem \in [Pages -> Value] /\ \A p \in Pids : map[p] \in [VA -> [pa: Pages, perm: Perm]]
           /\ \A p \in Pids, va \in UserVA : map[p][va] \in [pa: Pages, perm: Perm]
           /\ \A p \in Pids, va \in UserVA : present(map[p][va]) =>
                  /\ map[p][va].pa \in Allocatable /\ map[p][va].pa \in Pages
                  /\ map[p][va].pa # Null /\ map[p][va].pa # kern.hold /\ user(map[p][va])
<1>1. /\ current \in Pids /\ UserVA \subseteq VA /\ Allocatable \subseteq Pages
      /\ Null \notin Allocatable /\ None \notin Allocatable /\ None \notin Pages
      /\ mem \in [Pages -> Value] /\ \A p \in Pids : map[p] \in [VA -> [pa: Pages, perm: Perm]]
  BY Sizes DEF IInv, TypeOK
<1>2. \A p \in Pids, va \in UserVA : map[p][va] \in [pa: Pages, perm: Perm]
  BY <1>1
<1>3. ASSUME NEW p \in Pids, NEW va \in UserVA, present(map[p][va])
      PROVE  /\ map[p][va].pa \in Allocatable /\ map[p][va].pa \in Pages
             /\ map[p][va].pa # Null /\ map[p][va].pa # kern.hold /\ user(map[p][va])
  <2>1. map[p][va].pa # Null
    BY <1>3 DEF IInv, Complete, NoNullLeaf
  <2>2. map[p][va].pa \in Allocatable /\ user(map[p][va])
    BY <1>3, <2>1 DEF IInv, UserEntries
  <2>3. map[p][va].pa # kern.hold
    BY <1>3, <2>1 DEF IInv, LeavesApart
  <2> QED BY <1>1, <2>1, <2>2, <2>3
<1> QED BY <1>1, <1>2, <1>3

\* kalloc writes to a page nobody reads.
LEMMA KallocKeeps ==
    ASSUME IInv, ~starved, NEW v, Kalloc(kalloc, v)
    PROVE  /\ \A p \in Pids, va \in UserVA :
                  present(map[p][va]) => mem'[map[p][va].pa] = mem[map[p][va].pa]
           /\ kern.hold \in Pages => mem'[kern.hold] = mem[kern.hold]
           /\ kalloc # Null => kalloc \in Allocatable /\ kalloc \in Pages /\ mem'[kalloc] = v
<1>1. mem' = IF kalloc = Null THEN mem ELSE [mem EXCEPT ![kalloc] = v]
  BY DEF Kalloc
<1>2. CASE kalloc = Null
  BY <1>1, <1>2
<1>3. CASE kalloc # Null
  <2>1. kalloc \in Allocatable /\ Fresh(kalloc)
    BY <1>3, KallocFresh DEF IInv
  <2>2. Unused(kalloc)
    BY <2>1, FreshIsUnused DEF IInv, Orderly
  <2>3. kalloc \in Pages
    BY <2>1, Mapped
  <2>4. mem' = [mem EXCEPT ![kalloc] = v] /\ mem \in [Pages -> Value]
    BY <1>1, <1>3, Mapped
  <2>5. \A q \in Pages : q # kalloc => mem'[q] = mem[q]
    BY <2>4
  <2>6. mem'[kalloc] = v
    BY <2>3, <2>4
  <2>7. ASSUME NEW p \in Pids, NEW va \in UserVA, present(map[p][va])
        PROVE  mem'[map[p][va].pa] = mem[map[p][va].pa]
    <3>1. map[p][va].pa # kalloc
      BY <2>2, <2>7 DEF Unused
    <3>2. map[p][va].pa \in Pages
      BY <2>7, Mapped
    <3> QED BY <2>5, <3>1, <3>2
  <2>8. kern.hold # kalloc
    BY <2>2 DEF Unused
  <2> QED BY <2>1, <2>3, <2>5, <2>6, <2>7, <2>8
<1> QED BY <1>2, <1>3

\* A page that is mapped is counted.
MappedCounted == \A p \in Pids, va \in UserVA :
    present(map[p][va]) /\ map[p][va].pa \in Allocatable => pages[map[p][va].pa] # 0

LEMMA CountsMapped == IInv => MappedCounted
<1> SUFFICES ASSUME IInv, NEW p \in Pids, NEW va \in UserVA,
                    present(map[p][va]), map[p][va].pa \in Allocatable
             PROVE  pages[map[p][va].pa] # 0
  BY DEF MappedCounted
<1>1. PICK q \in Allocatable : q = map[p][va].pa
  OBVIOUS
<1>2. <<p, va>> \in LeafRefs(q)
  BY <1>1 DEF LeafRefs
<1>3. Orderly
  BY DEF IInv, Orderly
<1> QED BY <1>1, <1>2, <1>3, FreeIsUnused

\* kfree clears a page only when nobody reads it any more.
LEMMA KfreeKeeps ==
    ASSUME IInv, IInv', NEW x \in Pages, Kfree(x)
    PROVE  \A p \in Pids, va \in UserVA :
               present(map'[p][va]) => mem'[map'[p][va].pa] = mem[map'[p][va].pa]
<1> SUFFICES ASSUME NEW p \in Pids, NEW va \in UserVA, present(map'[p][va])
             PROVE  mem'[map'[p][va].pa] = mem[map'[p][va].pa]
  OBVIOUS
<1>1. MappedCounted'
  BY CountsMapped, PTL
<1>2. present(map'[p][va]) /\ map'[p][va].pa \in Allocatable => pages'[map'[p][va].pa] # 0
  BY <1>1 DEF MappedCounted, present
<1>3. mem' = IF x \in Allocatable /\ pages'[x] = 0 THEN [mem EXCEPT ![x] = "int3"] ELSE mem
  BY DEF Kfree
<1>4. CASE map'[p][va].pa = x
  BY <1>2, <1>3, <1>4
<1>5. CASE map'[p][va].pa # x
  <2>1. mem \in [Pages -> Value] /\ map'[p][va].pa \in Pages
    <3>1. map' \in [Pids -> [VA -> [pa: Pages, perm: Perm]]] /\ UserVA \subseteq VA
      BY Sizes DEF IInv, TypeOK
    <3>2. map'[p][va] \in [pa: Pages, perm: Perm]
      BY <3>1
    <3> QED BY <3>2 DEF IInv, TypeOK
  <2> QED BY <1>3, <1>5, <2>1
<1> QED BY <1>4, <1>5

\* The contents matter only while a process is being built or given a page.
LEMMA ContentsElsewhere ==
    ASSUME kern'.op \in {"user", "idle", "panic", "exit", "drop"}
    PROVE  Contents'
BY DEF Contents, ForkCopied, AllocZeroed, SetupMapped, BootUnshared, SetupLoaded, Op

\* fork takes pages only for what the parent's program has.
LEMMA ForkNeeds ==
    ASSUME IInv, Op("fork"), Busy, NeedsPage
    PROVE  kern.va \in UserVA /\ present(Source)
<1>1. kern.va \in VA /\ kern.pid \in Pids
  BY LoopFacts DEF IInv, Building
<1>2. user(Source) /\ writable(Source) /\ kern.va # CONSOLE
  BY DEF NeedsPage, Op
<1>3. ASSUME kern.va < PROC_START PROVE FALSE
  <2>1. Source \in {NoEntry, KernelEntry(kern.va)}
    BY <1>1, <1>3 DEF KernelEntries, Source, IInv, TypeOK
  <2> QED BY <1>1, <1>2, <1>3, <2>1, KernelEntryFacts, NoEntryFacts DEF user, present
<1> QED BY <1>1, <1>2, <1>3, KernelConstants DEF VA, UserVA, user, present

\* The slot a loop builds in is not the current process's.
LEMMA ForkApart == ASSUME IInv, Op("fork") PROVE kern.pid \in Pids /\ kern.pid # current
<1>1. kern.pid \in Pids
  BY LoopFacts DEF IInv, Building
<1>2. state[kern.pid] = "FREE" /\ state[current] = "RUNNABLE"
  BY DEF IInv, Loops
<1> QED BY <1>1, <1>2

\* A loop that goes on with what it has built, and with the same pages in it,
\* keeps what the contents say of it.
LEMMA ContentsFrame ==
    ASSUME IInv, ~starved, Contents,
           UNCHANGED <<map, current>>, kern'.op = kern.op, kern'.pid = kern.pid,
           kern'.va = kern.va,
           \A p \in Pids, va \in UserVA :
               present(map[p][va]) => mem'[map[p][va].pa] = mem[map[p][va].pa],
           kern'.hold # None => /\ Op("fork") => mem'[kern'.hold] = mem'[Source.pa]
                                /\ Op("alloc") => mem'[kern'.hold] = "zero"
                                /\ Op("stack") => mem'[kern'.hold] = "int3",
           Op("alloc") => kern'.hold # None
    PROVE  Contents'
<1>1. \A op \in {"fork", "alloc", "setup", "stack", "boot"} : Op(op)' <=> Op(op)
  BY DEF Op
<1>2. ForkCopied'
  <2> SUFFICES ASSUME Op("fork")
               PROVE  ForkCopied'
    BY <1>1 DEF ForkCopied, Op
  <2>1. kern.pid \in Pids /\ current \in Pids
    BY ForkApart, Mapped
  <2>2. ASSUME NEW va \in UserVA, va < kern.va
        PROVE  /\ map[kern.pid][va].perm = map[current][va].perm
               /\ present(map[current][va]) =>
                      mem'[map[kern.pid][va].pa] = mem'[map[current][va].pa]
    BY <2>1, <2>2 DEF Contents, ForkCopied, present
  <2>3. Source' = Source
    BY DEF Source
  <2>4. kern'.hold # None => mem'[kern'.hold] = mem'[Source'.pa]
    BY <2>3
  <2> QED BY <2>2, <2>4 DEF ForkCopied, present
<1>3. AllocZeroed'
  BY <1>1 DEF AllocZeroed, Op
<1>4. SetupMapped' /\ BootUnshared'
  BY <1>1 DEF Contents, SetupMapped, BootUnshared, Op, present
<1>5. SetupLoaded'
  <2> SUFFICES ASSUME Op("stack") PROVE SetupLoaded'
    BY <1>1 DEF SetupLoaded, Op
  <2>1. kern.pid \in Pids
    BY LoopFacts DEF IInv, Building
  <2>2. ASSUME NEW va \in UserVA, va < kern.va, present(map[kern.pid][va])
        PROVE  mem'[map[kern.pid][va].pa] = ProgramImage[va]
    BY <2>1, <2>2 DEF Contents, SetupLoaded
  <2> QED BY <2>2 DEF SetupLoaded, present
<1> QED BY <1>2, <1>3, <1>4, <1>5 DEF Contents

\* The page that a loop takes gets its content.
LEMMA TakePageContents ==
    ASSUME IInv, ~starved, ~starved', Contents, TakePage
    PROVE  Contents'
<1> DEFINE v == IF Op("fork") THEN mem[Source.pa] ELSE "int3"
<1>1. Kalloc(kalloc, v) /\ Busy /\ NeedsPage /\ kern.hold = None
  BY DEF TakePage
<1>2. /\ \A p \in Pids, va \in UserVA :
             present(map[p][va]) => mem'[map[p][va].pa] = mem[map[p][va].pa]
      /\ kalloc # Null => kalloc \in Allocatable /\ kalloc \in Pages /\ mem'[kalloc] = v
  BY <1>1, KallocKeeps
<1>3. CASE kalloc = Null
  <2>1. Op("fork")
    <3>1. starved' = (starved \/ (kalloc = Null /\ ~Op("fork")))
      BY DEF TakePage
    <3> QED BY <1>3, <3>1, Zenon
  <2>2. FailFork
    BY <1>3, <2>1 DEF TakePage
  <2> QED BY <2>2, ContentsElsewhere DEF FailFork, Go
<1>4. CASE kalloc # Null
  <2>1. kern' = [kern EXCEPT !.hold = kalloc] /\ UNCHANGED <<map, current>>
    BY <1>4 DEF TakePage, procs
  <2>2. kern'.op = kern.op /\ kern'.pid = kern.pid /\ kern'.va = kern.va /\ kern'.hold = kalloc
    BY <2>1 DEF IInv, TypeOK
  <2>3. ~Op("alloc")
    BY <1>1 DEF NeedsPage, Op
  <2>4. ASSUME Op("fork") PROVE mem'[kalloc] = mem'[Source.pa]
    <3>1. kern.va \in UserVA /\ present(Source)
      BY <1>1, <2>4, ForkNeeds
    <3>2. mem'[Source.pa] = mem[Source.pa]
      BY <1>2, <3>1, Mapped DEF Source
    <3> QED BY <1>2, <1>4, <2>4, <3>2
  <2>5. Op("stack") => mem'[kalloc] = "int3"
    BY <1>2, <1>4 DEF Op
  <2> HIDE DEF v
  <2> QED BY <1>2, <2>1, <2>2, <2>3, <2>4, <2>5, ContentsFrame
<1> QED BY <1>3, <1>4

\* A table is allocated elsewhere.
LEMMA GrowTableContents ==
    ASSUME IInv, ~starved, ~starved', Contents, GrowTable
    PROVE  Contents'
<1>1. Kalloc(kalloc, "zero") /\ Busy /\ HasPage
  BY DEF GrowTable
<1>2. /\ \A p \in Pids, va \in UserVA :
             present(map[p][va]) => mem'[map[p][va].pa] = mem[map[p][va].pa]
      /\ kern.hold \in Pages => mem'[kern.hold] = mem[kern.hold]
  BY <1>1, KallocKeeps
<1>3. CASE kalloc = Null
  <2>1. ~Op("setup") /\ ~Op("stack")
    BY <1>3 DEF GrowTable
  <2>2. CASE Op("fork")
    <3>1. FailFork
      BY <1>3, <2>2 DEF GrowTable
    <3> QED BY <3>1, ContentsElsewhere DEF FailFork, Go
  <2>3. CASE ~Op("fork")
    <3>1. Op("alloc")
      BY <1>1, <2>1, <2>3 DEF Busy, Building
    <3>2. ReturnToUser
      BY <1>3, <2>3, <3>1 DEF GrowTable, Advance
    <3> QED BY <3>2, ContentsElsewhere DEF ReturnToUser, Go
  <2> QED BY <2>2, <2>3
<1>4. CASE kalloc # Null
  <2>1. UNCHANGED <<map, current, kern>>
    BY <1>4 DEF GrowTable
  <2>2. kern.hold # None => kern.hold \in Pages
    BY DEF IInv, TypeOK
  <2>3. Op("alloc") => kern.hold # None
    BY Mapped DEF IInv, Loops
  <2>4. ASSUME Op("fork"), kern.hold # None PROVE mem'[kern.hold] = mem'[Source.pa]
    <3>1. NeedsPage
      BY <2>4 DEF IInv, Loops
    <3>2. kern.va \in UserVA /\ present(Source)
      BY <1>1, <2>4, <3>1, ForkNeeds
    <3>3. mem'[Source.pa] = mem[Source.pa]
      BY <1>2, <3>2, Mapped DEF Source
    <3> QED BY <1>2, <2>2, <2>4, <3>3 DEF Contents, ForkCopied
  <2>5. Op("alloc") => mem'[kern.hold] = "zero"
    BY <1>2, <2>2, <2>3 DEF Contents, AllocZeroed
  <2>6. Op("stack") /\ kern.hold # None => mem'[kern.hold] = "int3"
    BY <1>2, <2>2 DEF Contents, SetupLoaded
  <2> QED BY <1>2, <2>1, <2>3, <2>4, <2>5, <2>6, ContentsFrame
<1> QED BY <1>3, <1>4

\* A program's address is mapped with its permissions when its entry is written.
LEMMA SetupEntry ==
    ASSUME IInv, Busy, HasPage, Op("setup") \/ Op("stack"), kern.va \in UserVA
    PROVE  /\ Entry.perm = ProgramPerm(kern.va)
           /\ present(Entry) => Entry.pa = kern.hold /\ kern.hold # None
<1>1. kern.va < MEMSIZE_VIRTUAL /\ kern.va >= PROC_START
  BY KernelConstants DEF UserVA
<1>2. CASE Op("setup")
  <2>1. kern.va # STACK
    BY <1>1, <1>2, KernelConstants DEF Busy, End, STACK, UserVA
  <2>2. Entry = IF NeedsPage
             THEN [pa |-> kern.hold,
                   perm |-> IF \E s \in SegmentOf(kern.va) : s.writable
                            THEN PWU ELSE {"P", "U"}]
             ELSE NoEntry
    BY <1>1, <1>2, KernelConstants DEF Entry, Op, UserVA
  <2>3. NeedsPage <=> SegmentOf(kern.va) # {}
    BY <1>2 DEF NeedsPage, Op
  <2> QED BY <2>1, <2>2, <2>3, NoEntryFacts DEF ProgramPerm, HasPage, NoEntry, present
<1>3. CASE Op("stack")
  <2>1. kern.va = STACK
    BY <1>1, <1>3, LoopFacts, KernelConstants DEF IInv, Loops, STACK
  <2>2. Entry = [pa |-> kern.hold, perm |-> PWU]
    BY <1>3 DEF Entry, Op
  <2>3. kern.hold # None
    BY <1>3 DEF HasPage, NeedsPage, Op
  <2> QED BY <2>1, <2>2, <2>3 DEF ProgramPerm
<1> QED BY <1>2, <1>3

\* fork maps a copy of the parent's page, or the page itself.
LEMMA ForkEntry ==
    ASSUME IInv, ~starved, Contents, Busy, HasPage, Op("fork"), kern.va \in UserVA
    PROVE  /\ Entry.perm = Source.perm
           /\ present(Source) => mem[Entry.pa] = mem[Source.pa]
<1>1. Entry = IF NeedsPage THEN [Source EXCEPT !.pa = kern.hold] ELSE Source
  BY DEF Entry, Op
<1>2. Source \in [pa: Pages, perm: Perm]
  BY Mapped DEF Source
<1>3. NeedsPage => kern.hold # None
  BY DEF HasPage
<1>4. kern.hold # None => mem[kern.hold] = mem[Source.pa]
  BY DEF Contents, ForkCopied
<1> QED BY <1>1, <1>2, <1>3, <1>4

\* An entry is written.
LEMMA InstallContents ==
    ASSUME IInv, ~starved, Contents, Install
    PROVE  Contents'
<1>1. /\ Busy /\ HasPage /\ Advance /\ map' = [map EXCEPT ![kern.pid][kern.va] = Entry]
      /\ UNCHANGED <<mem, current>>
  BY DEF Install
<1>2. /\ kern.va \in VA /\ kern.pid \in Pids /\ map \in [Pids -> [VA -> [pa: Pages, perm: Perm]]]
      /\ UserVA \subseteq VA /\ VA \subseteq Int /\ kern.va \in Int
  <2>1. TypeOK /\ Loops /\ KernelEntries
    BY DEF IInv
  <2>2. kern.va \in VA /\ kern.pid \in Pids
    BY <1>1, <2>1, EntryForm
  <2>3. VA \subseteq Int
    BY KernelConstants DEF VA
  <2> QED BY <2>1, <2>2, <2>3, Mapped DEF TypeOK
<1>3. CASE Op("alloc")
  <2>1. ReturnToUser
    BY <1>1, <1>3 DEF Advance
  <2> QED BY <2>1, ContentsElsewhere DEF ReturnToUser, Go
<1>4. CASE ~Op("alloc")
  <2>1. kern' = [kern EXCEPT !.va = @ + 1, !.hold = None]
    BY <1>1, <1>4 DEF Advance
  <2>2. kern'.op = kern.op /\ kern'.pid = kern.pid /\ kern'.va = kern.va + 1 /\ kern'.hold = None
    BY <2>1 DEF IInv, TypeOK
  <2>3. \A op \in {"fork", "alloc", "setup", "stack", "boot"} : Op(op)' <=> Op(op)
    BY <2>2 DEF Op
  <2>4. /\ map'[kern.pid][kern.va] = Entry
        /\ \A p \in Pids, va \in VA : p # kern.pid \/ va # kern.va => map'[p][va] = map[p][va]
    BY <1>1, <1>2
  <2>5. \A va \in UserVA : va < kern.va + 1 => va < kern.va \/ va = kern.va
    <3>1. kern.va \in Int /\ UserVA \subseteq Int
      BY <1>2
    <3> QED BY <3>1
  <2>6. ASSUME Op("fork") PROVE ForkCopied'
    <3>1. kern.pid # current /\ current \in Pids
      BY <2>6, ForkApart, Mapped
    <3>2. \A va \in UserVA : map'[current][va] = map[current][va]
      BY <1>2, <2>4, <3>1
    <3>3. ASSUME NEW va \in UserVA, va < kern.va + 1
          PROVE  /\ map'[kern.pid][va].perm = map[current][va].perm
                 /\ present(map[current][va]) =>
                        mem[map'[kern.pid][va].pa] = mem[map[current][va].pa]
      <4>1. CASE va = kern.va
        <5>1. Source = map[current][va]
          BY <4>1 DEF Source
        <5>2. map'[kern.pid][va] = Entry
          BY <2>4, <4>1
        <5> QED BY <1>1, <2>6, <3>3, <4>1, <5>1, <5>2, ForkEntry
      <4>2. CASE va # kern.va
        <5>1. map'[kern.pid][va] = map[kern.pid][va] /\ va < kern.va
          BY <1>2, <2>4, <2>5, <3>3, <4>2
        <5> QED BY <2>6, <3>3, <5>1 DEF Contents, ForkCopied
      <4> QED BY <4>1, <4>2
    <3> QED BY <1>1, <2>2, <3>2, <3>3 DEF ForkCopied, present
  <2>7. ASSUME Op("setup") \/ Op("stack") PROVE SetupMapped' /\ BootUnshared' /\ SetupLoaded'
    <3>1. ASSUME NEW va \in UserVA, va < kern.va + 1
          PROVE  map'[kern.pid][va].perm = ProgramPerm(va)
      <4>1. CASE va = kern.va
        BY <1>1, <2>4, <2>7, <4>1, SetupEntry
      <4>2. CASE va # kern.va
        <5>1. map'[kern.pid][va] = map[kern.pid][va] /\ va < kern.va
          BY <1>2, <2>4, <2>5, <3>1, <4>2
        <5> QED BY <2>7, <5>1 DEF Contents, SetupMapped
      <4> QED BY <4>1, <4>2
    <3>2. SetupMapped'
      BY <2>2, <3>1 DEF SetupMapped
    <3>3. ASSUME NEW p \in Pids, NEW va \in UserVA, present(map'[p][va]),
                 p # kern.pid \/ va # kern.va
          PROVE  map'[p][va] = map[p][va] /\ map[p][va].pa # kern.hold
      BY <1>2, <2>4, <3>3, Mapped
    <3>4. ASSUME kern.va \in UserVA, present(map'[kern.pid][kern.va])
          PROVE  map'[kern.pid][kern.va].pa = kern.hold
      BY <1>1, <2>4, <2>7, <3>4, SetupEntry
    <3>5. ASSUME NEW p \in Pids, NEW r \in Pids, NEW va \in UserVA, NEW w \in UserVA,
                 present(map'[p][va]), present(map'[r][w]), map'[p][va].pa = map'[r][w].pa
          PROVE  p = r /\ va = w
      <4>1. CASE p = kern.pid /\ va = kern.va
        BY <3>3, <3>4, <3>5, <4>1
      <4>2. CASE r = kern.pid /\ w = kern.va
        BY <3>3, <3>4, <3>5, <4>2
      <4>3. CASE ~(p = kern.pid /\ va = kern.va) /\ ~(r = kern.pid /\ w = kern.va)
        <5>1. map'[p][va] = map[p][va] /\ map'[r][w] = map[r][w]
          BY <3>3, <3>5, <4>3
        <5> QED BY <2>7, <3>5, <5>1 DEF Contents, BootUnshared
      <4> QED BY <4>1, <4>2, <4>3
    <3>6. BootUnshared'
      BY <3>5 DEF BootUnshared, present
    <3>7. ASSUME Op("stack"), NEW va \in UserVA, va < kern.va + 1, present(map'[kern.pid][va])
          PROVE  mem[map'[kern.pid][va].pa] = ProgramImage[va]
      <4>1. CASE va = kern.va
        <5>1. va = STACK
          <6>1. kern.va >= STACK
            BY <3>7 DEF IInv, Loops
          <6> QED BY <4>1, <6>1, KernelConstants DEF STACK, UserVA
        <5>2. present(Entry) => Entry.pa = kern.hold /\ kern.hold # None
          BY <1>1, <2>7, <4>1, SetupEntry
        <5>3. mem[kern.hold] = "int3"
          BY <2>4, <3>7, <4>1, <5>2 DEF Contents, SetupLoaded
        <5> QED BY <2>4, <3>7, <4>1, <5>1, <5>2, <5>3 DEF ProgramImage
      <4>2. CASE va # kern.va
        <5>1. map'[kern.pid][va] = map[kern.pid][va] /\ va < kern.va
          BY <1>2, <2>4, <2>5, <3>7, <4>2
        <5> QED BY <3>7, <5>1 DEF Contents, SetupLoaded
      <4> QED BY <4>1, <4>2
    <3>8. SetupLoaded'
      BY <1>1, <2>2, <2>3, <3>7 DEF SetupLoaded, present
    <3> QED BY <3>2, <3>6, <3>8
  <2>8. Op("fork") => SetupMapped' /\ BootUnshared' /\ SetupLoaded'
    BY <2>2 DEF SetupMapped, BootUnshared, SetupLoaded, Op
  <2>9. Op("setup") \/ Op("stack") => ForkCopied'
    BY <2>2 DEF ForkCopied, Op
  <2>10. AllocZeroed'
    BY <1>4, <2>2 DEF AllocZeroed, Op
  <2> QED BY <1>1, <1>4, <2>6, <2>7, <2>8, <2>9, <2>10 DEF Contents, Busy, Building
<1> QED BY <1>3, <1>4

\* process_setup neither tests what kalloc returns nor loads a segment page by
\* page: one memset and one memcpy run on from the first page in physical
\* memory. After every restart there is memory for each process, and a segment
\* has its pages in a row, though tables are taken from the same memory.
LoadedInOrder ==
    /\ ~starved
    /\ Op("setup") /\ kern.va = STACK =>
           \A s \in Segments, va \in UserVA :
               s.first <= va /\ va <= s.last =>
                   map[kern.pid][va].pa = map[kern.pid][s.first].pa + (va - s.first)

\* The physical pages that Load writes for segment t.
SegmentPages(t) ==
    map[kern.pid][t.first].pa .. map[kern.pid][t.first].pa + t.last - t.first

\* Load writes what the segment has mapped there, and nothing else that is mapped.
LEMMA LoadRange ==
    ASSUME IInv, Contents, LoadedInOrder, Op("setup"), kern.va = STACK,
           NEW r \in Pids, NEW va \in UserVA, present(map[r][va]), NEW t \in Segments
    PROVE  map[r][va].pa \in SegmentPages(t) <=> r = kern.pid /\ t \in SegmentOf(va)
<1>1. t.first \in UserVA /\ t.last \in UserVA /\ t.last < STACK /\ t.first <= t.last
  BY KernelConstants
<1>2. UserVA \subseteq Int /\ Pages \subseteq Int /\ STACK \in Int
  BY KernelConstants DEF UserVA, Pages, STACK
<1>3. kern.pid \in Pids
  BY LoopFacts DEF IInv, UnderWay
<1>4. ~starved
  BY DEF LoadedInOrder
<1>5. map[kern.pid][t.first].pa \in Int /\ map[r][va].pa \in Int
  <2>1. map[kern.pid][t.first] \in [pa: Pages, perm: Perm] /\ map[r][va] \in [pa: Pages, perm: Perm]
    BY <1>1, <1>3, <1>4, Mapped
  <2> QED BY <1>2, <2>1
<1>6. \A w \in UserVA : t.first <= w /\ w <= t.last =>
          map[kern.pid][w].pa = map[kern.pid][t.first].pa + (w - t.first)
  BY DEF LoadedInOrder
<1>7. ASSUME r = kern.pid, t \in SegmentOf(va)
      PROVE  map[r][va].pa \in SegmentPages(t)
  <2>1. t.first <= va /\ va <= t.last
    BY <1>7 DEF SegmentOf
  <2>2. map[r][va].pa = map[kern.pid][t.first].pa + (va - t.first)
    BY <1>6, <1>7, <2>1
  <2>3. t.first \in Int /\ t.last \in Int /\ va \in Int
    BY <1>1, <1>2
  <2>4. map[r][va].pa \in map[kern.pid][t.first].pa .. map[kern.pid][t.first].pa + t.last - t.first
    BY <1>5, <2>1, <2>2, <2>3
  <2> QED BY <2>4 DEF SegmentPages
<1>8. ASSUME map[r][va].pa \in SegmentPages(t)
      PROVE  r = kern.pid /\ t \in SegmentOf(va)
  <2> DEFINE w == t.first + (map[r][va].pa - map[kern.pid][t.first].pa)
  <2>1. w \in UserVA /\ t.first <= w /\ w <= t.last
    BY <1>1, <1>2, <1>5, <1>8, KernelConstants DEF SegmentPages, UserVA
  <2>2. map[kern.pid][w].pa = map[r][va].pa
    <3>1. map[kern.pid][w].pa = map[kern.pid][t.first].pa + (w - t.first)
      BY <1>6, <2>1
    <3>2. t.first \in Int
      BY <1>1, <1>2
    <3> QED BY <1>5, <3>1, <3>2
  <2> HIDE DEF w
  <2>3. w < STACK
    <3>1. w \in Int /\ t.last \in Int
      BY <1>1, <1>2, <2>1
    <3>2. w <= t.last /\ t.last < STACK
      BY <1>1, <2>1
    <3> QED BY <1>2, <3>1, <3>2
  <2>4. t \in SegmentOf(w)
    BY <2>1 DEF SegmentOf
  <2>5. map[kern.pid][w].perm = ProgramPerm(w)
    BY <2>1, <2>3 DEF Contents, SetupMapped
  <2>6. present(map[kern.pid][w])
    BY <2>4, <2>5 DEF ProgramPerm, present, PWU
  <2>7. r = kern.pid /\ w = va
    BY <1>3, <2>1, <2>2, <2>6 DEF Contents, BootUnshared
  <2> QED BY <2>4, <2>7
<1> QED BY <1>7, <1>8

\* What is in the segments, and in every other page, after Load.
LEMMA LoadWrites ==
    ASSUME IInv, Contents, LoadedInOrder, Load, kern'.op # "panic",
           NEW r \in Pids, NEW va \in UserVA, present(map[r][va])
    PROVE  mem'[map[r][va].pa] = IF r = kern.pid THEN ProgramImage[va] ELSE mem[map[r][va].pa]
<1> DEFINE q == map[r][va].pa
<1>1. Op("setup") /\ kern.va = STACK
  BY DEF Load
<1>2. mem' = [x \in Pages |->
          IF \E s \in Segments : x \in SegmentPages(s)
          THEN IF \E s \in Segments : s.writable /\ x \in SegmentPages(s)
               THEN "data" ELSE "text"
          ELSE mem[x]]
  BY DEF Load, Go, SegmentPages
<1>3. q \in Pages
  BY Mapped DEF LoadedInOrder
<1>4. \A t \in Segments : q \in SegmentPages(t) <=> r = kern.pid /\ t \in SegmentOf(va)
  BY <1>1, LoadRange
<1>5. SegmentOf(va) \subseteq Segments
  BY DEF SegmentOf
<1>6. CASE r = kern.pid
  <2>1. va < STACK \/ va = STACK
    BY KernelConstants DEF UserVA, STACK
  <2>2. va # STACK
    <3>1. map[kern.pid][STACK] = NoEntry
      BY <1>1, KernelConstants DEF IInv, LoopProgress, VA, STACK
    <3> QED BY <1>6, <3>1, NoEntryFacts
  <2>3. SegmentOf(va) # {}
    <3>1. map[kern.pid][va].perm = ProgramPerm(va)
      BY <1>1, <2>1, <2>2 DEF Contents, SetupMapped
    <3> QED BY <1>6, <2>2, <3>1 DEF ProgramPerm, present
  <2> QED BY <1>2, <1>3, <1>4, <1>5, <1>6, <2>2, <2>3 DEF ProgramImage
<1>7. CASE r # kern.pid
  BY <1>2, <1>3, <1>4, <1>7
<1> QED BY <1>6, <1>7

\* The segments are loaded.
LEMMA LoadContents ==
    ASSUME IInv, Contents, LoadedInOrder, Load
    PROVE  Contents'
<1>1. CASE kern'.op = "panic"
  BY <1>1, ContentsElsewhere
<1>2. CASE kern'.op # "panic"
  <2>1. Op("setup") /\ kern.va = STACK /\ UNCHANGED map
    BY DEF Load, procs
  <2>2. kern' = [kern EXCEPT !.op = "stack"]
    BY <1>2 DEF Load, Go
  <2>3. kern'.op = "stack" /\ kern'.pid = kern.pid /\ kern'.va = STACK /\ kern'.hold = kern.hold
    BY <2>1, <2>2 DEF IInv, TypeOK
  <2>4. kern.hold = None
    <3>1. ~Busy
      BY <2>1, KernelConstants DEF Busy, End, STACK
    <3> QED BY <2>1, <3>1 DEF IInv, Loops
  <2>5. kern.pid \in Pids
    BY <2>1, LoopFacts DEF IInv, UnderWay
  <2>6. SetupMapped' /\ BootUnshared'
    BY <2>1, <2>3 DEF Contents, SetupMapped, BootUnshared, Op, present
  <2>7. SetupLoaded'
    BY <1>2, <2>1, <2>3, <2>4, <2>5, LoadWrites DEF SetupLoaded, present
  <2>8. ForkCopied' /\ AllocZeroed'
    BY <2>3 DEF ForkCopied, AllocZeroed, Op
  <2> QED BY <2>6, <2>7, <2>8 DEF Contents
<1> QED BY <1>1, <1>2

\* Building starts, for the boot or for fork; or page_alloc takes its page.
LEMMA StartContents ==
    ASSUME IInv, ~starved, ~starved', Contents,
           SetupStart \/ ForkStart \/ \E va \in VA : PageAlloc(va)
    PROVE  Contents'
<1>1. UserVA \subseteq Nat
  BY KernelConstants DEF UserVA
<1>2. CASE SetupStart
  <2>1. Op("boot") /\ Kalloc(kalloc, "zero") /\ UNCHANGED map
    BY <1>2 DEF SetupStart
  <2>2. kalloc # Null
    <3>1. starved' = (starved \/ kalloc = Null)
      BY <1>2 DEF SetupStart
    <3> QED BY <3>1, Zenon
  <2>3. kern'.op = "setup" /\ kern'.va = 0
    BY <1>2, <2>2 DEF SetupStart, Go
  <2>4. \A va \in UserVA : ~(va < 0)
    BY <1>1
  <2>5. BootUnshared'
    BY <2>1, <2>3 DEF Contents, BootUnshared, Op, present
  <2>6. SetupMapped'
    BY <2>3, <2>4 DEF SetupMapped
  <2>7. ForkCopied' /\ AllocZeroed' /\ SetupLoaded'
    BY <2>3 DEF ForkCopied, AllocZeroed, SetupLoaded, Op
  <2> QED BY <2>5, <2>6, <2>7 DEF Contents
<1>3. CASE ForkStart
  <2>1. CASE UNCHANGED kern
    <3>1. kern'.op = "user"
      BY <1>3, <2>1 DEF ForkStart, Trap, Op
    <3> QED BY <3>1, ContentsElsewhere
  <2>2. CASE ~UNCHANGED kern
    <3>1. Go("fork", Least(FreeSlots), 0, None)
      BY <1>3, <2>2 DEF ForkStart
    <3>2. kern'.op = "fork" /\ kern'.va = 0 /\ kern'.hold = None
      BY <3>1 DEF Go
    <3>3. \A va \in UserVA : ~(va < 0)
      BY <1>1
    <3>4. ForkCopied'
      BY <3>2, <3>3 DEF ForkCopied
    <3>5. AllocZeroed' /\ SetupMapped' /\ BootUnshared' /\ SetupLoaded'
      BY <3>2 DEF AllocZeroed, SetupMapped, BootUnshared, SetupLoaded, Op
    <3> QED BY <3>4, <3>5 DEF Contents
  <2> QED BY <2>1, <2>2
<1>4. CASE \E va \in VA : PageAlloc(va)
  <2>1. PICK va \in VA : PageAlloc(va)
    BY <1>4
  <2>2. CASE UNCHANGED kern
    <3>1. kern'.op = "user"
      BY <2>1, <2>2 DEF PageAlloc, Trap, Op
    <3> QED BY <3>1, ContentsElsewhere
  <2>3. CASE ~UNCHANGED kern
    <3>1. Kalloc(kalloc, "zero") /\ kalloc # Null /\ Go("alloc", current, va, kalloc)
      BY <2>1, <2>3 DEF PageAlloc
    <3>2. kern'.op = "alloc" /\ kern'.hold = kalloc
      BY <3>1 DEF Go
    <3>3. mem'[kalloc] = "zero"
      BY <3>1, KallocKeeps
    <3>4. ForkCopied' /\ SetupMapped' /\ BootUnshared' /\ SetupLoaded'
      BY <3>2 DEF ForkCopied, SetupMapped, BootUnshared, SetupLoaded, Op
    <3> QED BY <3>2, <3>3, <3>4 DEF Contents, AllocZeroed
  <2> QED BY <2>2, <2>3
<1> QED BY <1>2, <1>3, <1>4

\* A program is there, or the machine restarts.
LEMMA BootContents ==
    ASSUME IInv, Contents, SetupDone \/ SoftReboot
    PROVE  Contents'
<1>1. kern'.op = "boot"
  BY DEF SetupDone, SoftReboot, Go
<1>2. ForkCopied' /\ AllocZeroed' /\ SetupMapped' /\ SetupLoaded'
  BY <1>1 DEF ForkCopied, AllocZeroed, SetupMapped, SetupLoaded, Op
<1>3. CASE SetupDone
  <2>1. Op("stack") /\ UNCHANGED map
    BY <1>3 DEF SetupDone
  <2>2. BootUnshared'
    BY <2>1 DEF Contents, BootUnshared, present
  <2> QED BY <1>2, <2>2 DEF Contents
<1>4. CASE SoftReboot
  <2>1. map' = [p \in Pids |-> [va \in VA |-> NoEntry]]
    BY <1>4 DEF SoftReboot
  <2>2. \A p \in Pids, va \in UserVA : ~present(map'[p][va])
    BY <2>1, NoEntryFacts, Sizes
  <2>3. BootUnshared'
    BY <2>2 DEF BootUnshared, present
  <2> QED BY <1>2, <2>3 DEF Contents
<1> QED BY <1>3, <1>4

\* A process is scheduled, or none is.
LEMMA ScheduleGoes == ASSUME NEW st, schedule(st) PROVE kern'.op \in {"user", "idle"}
BY DEF schedule, ReturnToUser, Go

\* The steps after which no memory is under construction.
LEMMA OtherContents ==
    ASSUME IInv, BootDone \/ Memshow \/ ForkDone \/ FreeUserPage \/ FreeTable \/ FreeRoot
                 \/ DropHeld \/ Timer \/ ExitStart \/ PageFault \/ Panic
                 \/ \E va \in UserVA, v \in UserValue : UserWrite(va, v)
    PROVE  Contents'
<1>1. BootDone \/ Memshow \/ ForkDone => kern'.op \in {"user", "panic"}
  BY DEF BootDone, Memshow, ForkDone, ReturnToUser, Go, Op
<1>2. FreeUserPage \/ FreeTable => kern'.op = "exit"
  <2>1. FreeUserPage => kern' = [kern EXCEPT !.va = @ + 1] /\ kern.op = "exit"
    BY DEF FreeUserPage, Op
  <2>2. FreeTable => kern' = kern /\ kern.op = "exit"
    BY DEF FreeTable, Op
  <2> QED BY <2>1, <2>2 DEF IInv, TypeOK
<1>3. FreeRoot => kern'.op \in {"user", "idle", "drop"}
  <2> SUFFICES ASSUME FreeRoot PROVE kern'.op \in {"user", "idle", "drop"}
    OBVIOUS
  <2>1. CASE kern.pid = current
    BY <2>1, ScheduleGoes DEF FreeRoot
  <2>2. CASE kern.pid # current
    BY <2>2 DEF FreeRoot, ReturnToUser, Go, IInv, TypeOK
  <2> QED BY <2>1, <2>2
<1>4. DropHeld \/ ExitStart \/ Panic => kern'.op \in {"user", "exit", "panic"}
  BY DEF DropHeld, ExitStart, Panic, ReturnToUser, Go
<1>5. Timer \/ PageFault => kern'.op \in {"user", "idle"}
  BY ScheduleGoes DEF Timer, PageFault
<1>6. (\E va \in UserVA, v \in UserValue : UserWrite(va, v)) => kern'.op = "user"
  BY DEF UserWrite, Op
<1>7. kern'.op \in {"user", "idle", "panic", "exit", "drop"}
  BY <1>1, <1>2, <1>3, <1>4, <1>5, <1>6
<1> QED BY <1>7, ContentsElsewhere

LEMMA ContentsKept ==
    ASSUME IInv, Contents, LoadedInOrder, LoadedInOrder', [Next]_vars
    PROVE  Contents'
<1>1. ~starved /\ ~starved'
  BY DEF LoadedInOrder
<1>2. CASE SetupStart \/ ForkStart \/ \E va \in VA : PageAlloc(va)
  BY <1>1, <1>2, StartContents
<1>3. CASE SetupDone \/ SoftReboot
  BY <1>3, BootContents
<1>4. CASE Load
  BY <1>4, LoadContents
<1>5. CASE TakePage
  BY <1>1, <1>5, TakePageContents
<1>6. CASE GrowTable
  BY <1>1, <1>6, GrowTableContents
<1>7. CASE Install
  BY <1>1, <1>7, InstallContents
<1>8. CASE BootDone \/ Memshow \/ ForkDone \/ FreeUserPage \/ FreeTable \/ FreeRoot
           \/ DropHeld \/ Timer \/ ExitStart \/ PageFault \/ Panic
           \/ \E va \in UserVA, v \in UserValue : UserWrite(va, v)
  BY <1>8, OtherContents
<1>9. CASE UNCHANGED vars
  <2>1. UNCHANGED <<map, mem, current, kern>>
    BY <1>9 DEF vars, memory, procs
  <2> QED BY <2>1 DEF Contents, ForkCopied, AllocZeroed, SetupMapped, BootUnshared, SetupLoaded,
                      Op, Source, present
<1> QED BY <1>2, <1>3, <1>4, <1>5, <1>6, <1>7, <1>8, <1>9 DEF Next, KernelStep, UserStep

LEMMA InitContents == Init => Contents
<1> SUFFICES ASSUME Init PROVE Contents
  OBVIOUS
<1>1. kern.op = "boot" /\ map = [p \in Pids |-> [va \in VA |-> NoEntry]]
  BY DEF Init
<1>2. \A p \in Pids, va \in UserVA : ~present(map[p][va])
  BY <1>1, NoEntryFacts, Sizes
<1>3. BootUnshared
  BY <1>2 DEF BootUnshared
<1> QED BY <1>1, <1>3 DEF Contents, ForkCopied, AllocZeroed, SetupMapped, SetupLoaded, Op

\* As long as programs are loaded in order, memory under construction has the
\* contents it should have.
LEMMA ContentsTrue == Spec /\ []LoadedInOrder => []Contents
BY InitContents, ContentsKept, Invariance, PTL DEF Spec
-----------------------------------------------------------------------------
\* What a program sees at an address, and whether it is kept from writing there.
Seen(p, va) == IF p \in Live /\ present(map[p][va]) THEN mem[map[p][va].pa] ELSE "absent"
Locked(p, va) == p \in Live /\ present(map[p][va]) /\ ~writable(map[p][va])

Same(p) == \A va \in UserVA : Seen(p, va)' = Seen(p, va) /\ (Locked(p, va)' <=> Locked(p, va))

LEMMA ViewIs ==
    /\ View = [p \in Pids |-> [va \in UserVA |-> Seen(p, va)]]
    /\ Fixed = [p \in Pids |-> {va \in UserVA : Locked(p, va)}]
BY DEF View, Fixed, Seen, Locked

LEMMA ViewIsNext ==
    /\ View' = [p \in Pids |-> [va \in UserVA |-> Seen(p, va)']]
    /\ Fixed' = [p \in Pids |-> {va \in UserVA : Locked(p, va)'}]
BY DEF View, Fixed, Seen, Locked

\* Nobody's memory changes.
LEMMA ViewStill == ASSUME \A p \in Pids : Same(p) PROVE View' = View /\ Fixed' = Fixed
<1>1. View' = View
  <2>1. \A p \in Pids : [va \in UserVA |-> Seen(p, va)'] = [va \in UserVA |-> Seen(p, va)]
    BY DEF Same
  <2> QED BY <2>1, ViewIs, ViewIsNext, Zenon
<1>2. Fixed' = Fixed
  <2>1. \A p \in Pids : {va \in UserVA : Locked(p, va)'} = {va \in UserVA : Locked(p, va)}
    BY DEF Same
  <2> QED BY <2>1, ViewIs, ViewIsNext, Zenon
<1> QED BY <1>1, <1>2

\* One process's memory changes.
LEMMA ViewOf ==
    ASSUME NEW q \in Pids, \A p \in Pids \ {q} : Same(p),
           NEW F, [va \in UserVA |-> Seen(q, va)'] = F,
           NEW G, {va \in UserVA : Locked(q, va)'} = G
    PROVE  View' = [View EXCEPT ![q] = F] /\ Fixed' = [Fixed EXCEPT ![q] = G]
<1>1. View' = [View EXCEPT ![q] = F]
  <2>1. \A p \in Pids \ {q} :
            [va \in UserVA |-> Seen(p, va)'] = [va \in UserVA |-> Seen(p, va)]
    BY DEF Same
  <2>2. \A p \in Pids : [va \in UserVA |-> Seen(p, va)'] = [View EXCEPT ![q] = F][p]
    <3> TAKE p \in Pids
    <3>1. View[p] = [va \in UserVA |-> Seen(p, va)] /\ DOMAIN View = Pids
      BY ViewIs
    <3>2. [View EXCEPT ![q] = F][p] = IF p = q THEN F ELSE View[p]
      BY <3>1, Zenon
    <3> QED BY <2>1, <3>1, <3>2, Zenon
  <2>3. [View EXCEPT ![q] = F] = [p \in Pids |-> [View EXCEPT ![q] = F][p]]
    BY ViewIs, Zenon
  <2> QED BY <2>2, <2>3, ViewIsNext, Zenon
<1>2. Fixed' = [Fixed EXCEPT ![q] = G]
  <2>1. \A p \in Pids \ {q} : {va \in UserVA : Locked(p, va)'} = {va \in UserVA : Locked(p, va)}
    BY DEF Same
  <2>2. \A p \in Pids : {va \in UserVA : Locked(p, va)'} = [Fixed EXCEPT ![q] = G][p]
    <3> TAKE p \in Pids
    <3>1. Fixed[p] = {va \in UserVA : Locked(p, va)} /\ DOMAIN Fixed = Pids
      BY ViewIs
    <3>2. [Fixed EXCEPT ![q] = G][p] = IF p = q THEN G ELSE Fixed[p]
      BY <3>1, Zenon
    <3> QED BY <2>1, <3>1, <3>2, Zenon
  <2>3. [Fixed EXCEPT ![q] = G] = [p \in Pids |-> [Fixed EXCEPT ![q] = G][p]]
    BY ViewIs, Zenon
  <2> QED BY <2>2, <2>3, ViewIsNext, Zenon
<1> QED BY <1>1, <1>2

\* A process that is as live as before, and whose pages are as before.
LEMMA SameMemory ==
    ASSUME NEW p \in Pids, p \in Live' <=> p \in Live,
           p \in Live => /\ \A va \in UserVA : map'[p][va] = map[p][va]
                         /\ \A va \in UserVA : present(map[p][va]) =>
                                mem'[map[p][va].pa] = mem[map[p][va].pa]
    PROVE  Same(p)
BY DEF Same, Seen, Locked, present, writable

\* The live processes stay the same unless a slot changes or an exit begins.
LEMMA LiveStill ==
    ASSUME UNCHANGED state,
           Op("exit") => state[kern.pid] = "FREE" \/ (kern'.op = "exit" /\ kern'.pid = kern.pid),
           kern'.op = "exit" => state[kern'.pid] = "FREE" \/ (Op("exit") /\ kern'.pid = kern.pid)
    PROVE  Live' = Live
BY DEF Live, Op

LEMMA Stutters ==
    ASSUME \A p \in Pids : Same(p), UNCHANGED <<Live, current>>
    PROVE  UNCHANGED Memory!vars
BY ViewStill DEF Memory!vars

\* kalloc shows in nobody's memory.
LEMMA KallocStutters ==
    ASSUME IInv, ~starved, NEW v, Kalloc(kalloc, v), UNCHANGED <<Live, map, current>>
    PROVE  UNCHANGED Memory!vars
<1>1. ASSUME NEW p \in Pids PROVE Same(p)
  <2>1. \A va \in UserVA : present(map[p][va]) => mem'[map[p][va].pa] = mem[map[p][va].pa]
    BY KallocKeeps
  <2> QED BY <2>1, SameMemory
<1> QED BY <1>1, Stutters

\* Nor does kfree.
LEMMA KfreeKeepsMemory ==
    ASSUME IInv, IInv', NEW x \in Pages, Kfree(x), Live' = Live,
           \A p \in Live, va \in UserVA : map'[p][va] = map[p][va]
    PROVE  \A p \in Pids : Same(p)
<1> TAKE p \in Pids
<1>1. \A va \in UserVA : present(map'[p][va]) => mem'[map'[p][va].pa] = mem[map'[p][va].pa]
  BY KfreeKeeps
<1> QED BY <1>1, SameMemory

\* The steps of the kernel between system calls, and those that build a
\* process nobody can run yet, change nobody's memory.
LEMMA SetupStartStutters ==
    ASSUME IInv, ~starved, SetupStart
    PROVE  UNCHANGED Memory!vars
<1>1. Op("boot") /\ Kalloc(kalloc, "zero") /\ UNCHANGED <<state, map, current>>
  BY DEF SetupStart
<1>2. kern'.op # "exit"
  <2>1. kern' = [kern EXCEPT !.pid = @ + 1] \/ kern'.op = "setup"
    BY DEF SetupStart, Go
  <2> QED BY <1>1, <2>1 DEF IInv, TypeOK, Op
<1>3. Live' = Live
  BY <1>1, <1>2, LiveStill DEF Op
<1> QED BY <1>1, <1>3, KallocStutters

LEMMA LoadStutters ==
    ASSUME IInv, Contents, LoadedInOrder, Load
    PROVE  UNCHANGED Memory!vars
<1>1. Op("setup") /\ UNCHANGED <<state, map, current>>
  BY DEF Load, procs
<1>2. kern'.op # "exit"
  <2>1. kern' = [kern EXCEPT !.op = "stack"] \/ kern'.op = "panic"
    BY DEF Load, Go
  <2> QED BY <2>1 DEF IInv, TypeOK
<1>3. Live' = Live
  BY <1>1, <1>2, LiveStill DEF Op
<1>4. state[kern.pid] = "FREE"
  <2>1. kern.pid \in Pids
    BY <1>1, LoopFacts DEF IInv, UnderWay
  <2>2. kern.pid >= kern.pid
    BY <2>1, KernelConstants DEF Pids
  <2> QED BY <1>1, <2>1, <2>2 DEF IInv, Loops
<1>5. ASSUME NEW p \in Pids PROVE Same(p)
  <2>1. CASE kern'.op = "panic"
    <3>1. UNCHANGED mem
      BY <2>1, <1>1 DEF Load, IInv, TypeOK
    <3> QED BY <1>1, <1>3, <3>1, SameMemory
  <2>2. CASE kern'.op # "panic"
    <3>1. ASSUME p \in Live, NEW va \in UserVA, present(map[p][va])
          PROVE  mem'[map[p][va].pa] = mem[map[p][va].pa]
      <4>1. p # kern.pid
        BY <1>4, <3>1 DEF Live
      <4> QED BY <2>2, <3>1, <4>1, LoadWrites
    <3> QED BY <1>1, <1>3, <3>1, SameMemory
  <2> QED BY <2>1, <2>2
<1> QED BY <1>1, <1>3, <1>5, Stutters

\* The slot that a loop fills is free.
LEMMA BuildsFree ==
    ASSUME IInv, Op("setup") \/ Op("stack") \/ Op("fork")
    PROVE  kern.pid \in Pids /\ state[kern.pid] = "FREE" /\ kern.pid \notin Live
<1>1. kern.pid \in Pids
  BY LoopFacts DEF IInv, UnderWay
<1>2. kern.pid >= kern.pid
  BY <1>1, KernelConstants DEF Pids
<1>3. state[kern.pid] = "FREE"
  BY <1>1, <1>2 DEF IInv, Loops
<1> QED BY <1>1, <1>3 DEF Live

LEMMA TakePageStutters ==
    ASSUME IInv, ~starved, TakePage
    PROVE  UNCHANGED Memory!vars
<1> DEFINE v == IF Op("fork") THEN mem[Source.pa] ELSE "int3"
<1>1. Busy /\ Kalloc(kalloc, v) /\ UNCHANGED <<state, map, current>>
  BY DEF TakePage, procs
<1> HIDE DEF v
<1>2. kern'.op = "exit" => Op("fork") /\ kern'.pid = kern.pid
  <2>1. (FailFork /\ Op("fork")) \/ kern' = [kern EXCEPT !.hold = kalloc]
    BY DEF TakePage
  <2>2. kern' = [kern EXCEPT !.hold = kalloc] => kern'.op = kern.op
    BY DEF IInv, TypeOK
  <2>3. kern.op # "exit"
    BY <1>1 DEF Busy, Building, Op
  <2> QED BY <2>1, <2>2, <2>3 DEF FailFork, Go
<1>3. Live' = Live
  BY <1>1, <1>2, LiveStill, BuildsFree DEF Busy, Building, Op
<1> QED BY <1>1, <1>3, KallocStutters

LEMMA GrowTableStutters ==
    ASSUME IInv, ~starved, GrowTable
    PROVE  UNCHANGED Memory!vars
<1>1. Busy /\ Kalloc(kalloc, "zero") /\ UNCHANGED <<state, map, current>>
  BY DEF GrowTable
<1>2. kern'.op = "exit" => Op("fork") /\ kern'.pid = kern.pid
  <2>1. (FailFork /\ Op("fork")) \/ Advance \/ kern' = kern
    BY DEF GrowTable
  <2>2. Advance => kern'.op \in {kern.op, "user"}
    <3>1. kern' = [kern EXCEPT !.va = @ + 1, !.hold = None] => kern'.op = kern.op
      BY DEF IInv, TypeOK
    <3> QED BY <3>1 DEF Advance, ReturnToUser, Go
  <2> QED BY <1>1, <2>1, <2>2 DEF FailFork, Go, Busy, Building, Op
<1>3. Live' = Live
  BY <1>1, <1>2, LiveStill, BuildsFree DEF Busy, Building, Op
<1> QED BY <1>1, <1>3, KallocStutters

\* An entry of a process that is being built is seen by nobody.
LEMMA InstallStutters ==
    ASSUME IInv, ~starved, Install, ~Op("alloc")
    PROVE  UNCHANGED Memory!vars
<1>1. /\ Busy /\ HasPage /\ Advance /\ UNCHANGED <<mem, state, current>>
      /\ map' = [map EXCEPT ![kern.pid][kern.va] = Entry]
  BY DEF Install
<1>2. Op("setup") \/ Op("stack") \/ Op("fork")
  BY <1>1 DEF Busy, Building
<1>3. kern' = [kern EXCEPT !.va = @ + 1, !.hold = None]
  BY <1>1 DEF Advance
<1>4. kern'.op = kern.op
  BY <1>3 DEF IInv, TypeOK
<1>5. Live' = Live
  BY <1>1, <1>2, <1>4, LiveStill DEF Op
<1>6. ASSUME NEW p \in Pids PROVE Same(p)
  <2>1. ASSUME p \in Live PROVE map'[p] = map[p]
    <3>1. p # kern.pid
      BY <1>2, <2>1, BuildsFree
    <3> QED BY <1>1, <3>1 DEF IInv, TypeOK
  <2> QED BY <1>1, <1>5, <2>1, SameMemory
<1> QED BY <1>1, <1>5, <1>6, Stutters

\* A step that touches no page of a process.
LEMMA QuietStutters ==
    ASSUME UNCHANGED <<Live, map, mem, current>>
    PROVE  UNCHANGED Memory!vars
BY SameMemory, Stutters

\* The system calls that start something, and a failed assertion.
LEMMA CallStutters ==
    ASSUME IInv, ~starved,
           Memshow \/ ForkStart \/ Panic \/ \E va \in VA : PageAlloc(va)
    PROVE  UNCHANGED Memory!vars
<1>1. Op("user") /\ UNCHANGED <<state, map, current>>
  BY DEF Memshow, ForkStart, Panic, PageAlloc, Trap, procs
<1>2. kern'.op # "exit"
  <2>1. Memshow \/ Panic => kern' = kern \/ kern'.op = "panic"
    BY DEF Memshow, Panic, Go
  <2>2. ForkStart => kern' = kern \/ kern'.op = "fork"
    BY DEF ForkStart, Go
  <2>3. (\E va \in VA : PageAlloc(va)) => kern' = kern \/ kern'.op = "alloc"
    BY DEF PageAlloc, Go
  <2> QED BY <1>1, <2>1, <2>2, <2>3 DEF Op
<1>3. Live' = Live
  BY <1>1, <1>2, LiveStill DEF Op
<1>4. Kalloc(kalloc, "zero") \/ UNCHANGED mem
  BY DEF Memshow, ForkStart, Panic, PageAlloc, memory
<1> QED BY <1>1, <1>3, <1>4, KallocStutters, QuietStutters

\* While a process is released its pages are nobody's.
LEMMA ReleaseStutters ==
    ASSUME IInv, IInv', ~starved, FreeUserPage \/ FreeTable \/ DropHeld
    PROVE  UNCHANGED Memory!vars
<1>1. CASE FreeUserPage
  <2>1. /\ Op("exit") /\ kern' = [kern EXCEPT !.va = @ + 1] /\ UNCHANGED <<state, current>>
        /\ map' = [map EXCEPT ![kern.pid][kern.va] = NoEntry]
        /\ kern.va < MEMSIZE_VIRTUAL
    BY <1>1 DEF FreeUserPage
  <2>2. kern'.op = "exit" /\ kern'.pid = kern.pid
    BY <2>1 DEF IInv, TypeOK, Op
  <2>3. Live' = Live
    BY <2>1, <2>2, LiveStill
  <2>4. kern.pid \notin Live
    BY <2>1 DEF Live
  <2>5. \A p \in Live : map'[p] = map[p]
    BY <2>1, <2>4 DEF Live, IInv, TypeOK
  <2>6. CASE Kfree(map[kern.pid][kern.va].pa)
    <3>1. kern.pid \in Pids /\ kern.va \in VA
      BY <2>1, LoopFacts DEF IInv, UnderWay
    <3>2. map[kern.pid][kern.va].pa \in Pages
      BY <3>1 DEF IInv, TypeOK
    <3> QED BY <2>1, <2>3, <2>5, <2>6, <3>2, KfreeKeepsMemory, Stutters
  <2>7. CASE UNCHANGED mem
    BY <2>1, <2>3, <2>5, <2>7, SameMemory, Stutters
  <2> QED BY <1>1, <2>6, <2>7 DEF FreeUserPage, memory
<1>2. CASE FreeTable
  <2>1. /\ Kfree(tables[kern.pid][Greatest(TableNodes)]) /\ Op("exit") /\ TableNodes # {}
        /\ UNCHANGED <<state, map, current, kern>>
    BY <1>2 DEF FreeTable
  <2>2. Live' = Live
    BY <2>1, LiveStill DEF Op
  <2>3. tables[kern.pid][Greatest(TableNodes)] \in Pages
    <3>1. kern.pid \in Pids
      BY <2>1, LoopFacts DEF IInv, UnderWay
    <3>2. Greatest(TableNodes) \in Nodes
      BY <2>1, ChosenNodes DEF TableNodes
    <3> QED BY <3>1, <3>2 DEF IInv, TypeOK
  <2> QED BY <2>1, <2>2, <2>3, KfreeKeepsMemory, Stutters
<1>3. CASE DropHeld
  <2>1. Op("drop") /\ Kfree(kern.hold) /\ ReturnToUser /\ UNCHANGED <<state, map, current>>
    BY <1>3 DEF DropHeld, procs
  <2>2. Live' = Live
    BY <2>1, LiveStill DEF Op, ReturnToUser, Go
  <2>3. kern.hold \in Pages
    BY <2>1, Sizes DEF IInv, Loops
  <2> QED BY <2>1, <2>2, <2>3, KfreeKeepsMemory, Stutters
<1> QED BY <1>1, <1>2, <1>3

-----------------------------------------------------------------------------
\* A process that is given the processor is live.
LEMMA SwitchImplements ==
    ASSUME NEW q \in Live, current' = q, Live' = Live, \A p \in Pids : Same(p)
    PROVE  Memory!Next
<1>1. Memory!Switch(q)
  BY ViewStill DEF Memory!Switch
<1>2. q \in Pids
  BY DEF Live
<1> QED BY <1>1, <1>2 DEF Memory!Next

LEMMA ScheduleImplements ==
    ASSUME IInv, NEW st \in [Pids -> {"FREE", "RUNNABLE", "BROKEN"}], schedule(st),
           \A p \in Pids : st[p] = "RUNNABLE" => p \in Live,
           Live' = Live, \A p \in Pids : Same(p)
    PROVE  [Memory!Next]_Memory!vars
<1>1. CASE \E p \in Pids : st[p] = "RUNNABLE"
  <2>1. current' = NextRunnable(current, st) /\ current \in Pids
    BY <1>1 DEF schedule, IInv, TypeOK
  <2>2. current' \in Pids /\ st[current'] = "RUNNABLE"
    BY <1>1, <2>1, NextRunnableIsRunnable
  <2> QED BY <2>2, SwitchImplements
<1>2. CASE ~\E p \in Pids : st[p] = "RUNNABLE"
  BY <1>2, Stutters DEF schedule
<1> QED BY <1>1, <1>2

\* The boot gives the processor to the first process.
LEMMA BootImplements ==
    ASSUME IInv, BootDone
    PROVE  [Memory!Next]_Memory!vars
<1>1. Op("boot") /\ UNCHANGED <<state, map, mem>> /\ kern'.op \in {"user", "panic"}
  BY DEF BootDone, ReturnToUser, Go, memory, procs
<1>2. Live' = Live
  BY <1>1, LiveStill DEF Op
<1>3. CASE state[1] = "RUNNABLE"
  <2>1. 1 \in Live
    BY <1>1, <1>3, KernelConstants DEF Live, Op, Pids
  <2>2. current' = 1
    BY <1>3 DEF BootDone
  <2> QED BY <1>1, <1>2, <2>1, <2>2, SameMemory, SwitchImplements
<1>4. CASE state[1] # "RUNNABLE"
  BY <1>1, <1>2, <1>4, QuietStutters DEF BootDone
<1> QED BY <1>3, <1>4

\* The timer and a fault change who runs.
LEMMA FaultImplements ==
    ASSUME IInv, IInv', Timer \/ PageFault
    PROVE  [Memory!Next]_Memory!vars
<1>1. Op("user") /\ UNCHANGED <<map, mem>> /\ schedule(state')
  BY DEF Timer, PageFault, Trap, memory, procs
<1>2. kern'.op \in {"user", "idle"}
  BY <1>1, ScheduleGoes
<1>3. state' \in [Pids -> {"FREE", "RUNNABLE", "BROKEN"}]
  BY DEF IInv, TypeOK
<1>4. \A p \in Pids : state'[p] = "FREE" <=> state[p] = "FREE"
  <2>1. state[current] = "RUNNABLE" /\ current \in Pids
    BY <1>1 DEF IInv, TypeOK, Loops
  <2>2. UNCHANGED state \/ state' = [state EXCEPT ![current] = "BROKEN"]
    BY DEF Timer, PageFault, procs
  <2> QED BY <2>1, <2>2 DEF IInv, TypeOK
<1>5. Live' = Live
  BY <1>1, <1>2, <1>4 DEF Live, Op
<1>6. \A p \in Pids : state'[p] = "RUNNABLE" => p \in Live
  BY <1>1, <1>4 DEF Live, Op
<1> QED BY <1>1, <1>3, <1>5, <1>6, SameMemory, ScheduleImplements

\* The slot of a process that has exited is free, and another process runs.
LEMMA FreeRootImplements ==
    ASSUME IInv, IInv', FreeRoot
    PROVE  [Memory!Next]_Memory!vars
<1>1. /\ Op("exit") /\ Kfree(root[kern.pid])
      /\ map' = [map EXCEPT ![kern.pid] = [va \in VA |-> NoEntry]]
      /\ state' = [state EXCEPT ![kern.pid] = "FREE"]
  BY DEF FreeRoot
<1>2. kern.pid \in Pids
  BY <1>1, LoopFacts DEF IInv, UnderWay
<1>3. kern'.op \in {"user", "idle", "drop"}
  <2>1. CASE kern.pid = current
    BY <2>1, ScheduleGoes DEF FreeRoot
  <2>2. CASE kern.pid # current
    BY <2>2 DEF FreeRoot, ReturnToUser, Go, IInv, TypeOK
  <2> QED BY <2>1, <2>2
<1>4. \A p \in Pids : state'[p] = IF p = kern.pid THEN "FREE" ELSE state[p]
  BY <1>1, <1>2 DEF IInv, TypeOK
<1>5. Live' = Live
  BY <1>1, <1>3, <1>4 DEF Live, Op
<1>6. kern.pid \notin Live
  BY <1>1 DEF Live
<1>7. \A p \in Live : map'[p] = map[p]
  BY <1>1, <1>6 DEF Live, IInv, TypeOK
<1>8. root[kern.pid] \in Pages
  BY <1>2 DEF IInv, TypeOK
<1>9. \A p \in Pids : Same(p)
  BY <1>1, <1>5, <1>7, <1>8, KfreeKeepsMemory
<1>10. CASE kern.pid = current
  <2>1. schedule(state') /\ state' \in [Pids -> {"FREE", "RUNNABLE", "BROKEN"}]
    BY <1>10 DEF FreeRoot, IInv, TypeOK
  <2>2. \A p \in Pids : state'[p] = "RUNNABLE" => p \in Live
    BY <1>1, <1>4 DEF Live, Op
  <2> QED BY <1>5, <1>9, <2>1, <2>2, ScheduleImplements
<1>11. CASE kern.pid # current
  BY <1>5, <1>9, <1>11, Stutters DEF FreeRoot
<1> QED BY <1>10, <1>11

LEMMA Apartness ==
    ASSUME IInv, ~starved, NEW p \in Pids, NEW va \in UserVA, NEW r \in Pids, NEW w \in UserVA,
           present(map[p][va]), writable(map[p][va]), present(map[r][w]),
           map[r][w].pa = map[p][va].pa
    PROVE  r = p /\ w = va
<1>1. map[p][va].pa # Null
  BY Mapped
<1> QED BY <1>1 DEF IInv, SharedReadOnly

\* A program that has been set up starts with its image.
LEMMA SetupImplements ==
    ASSUME IInv, ~starved, Contents, SetupDone
    PROVE  Memory!Next
<1>1. /\ Op("stack") /\ kern.va = MEMSIZE_VIRTUAL /\ kern'.op = "boot"
      /\ state' = [state EXCEPT ![kern.pid] = "RUNNABLE"] /\ UNCHANGED <<map, mem, current>>
  BY DEF SetupDone, End, Op, Go, memory
<1>2. PICK c \in Pids : c = kern.pid /\ c \notin Live
  BY <1>1, BuildsFree
<1>3. \A p \in Pids : state'[p] = IF p = c THEN "RUNNABLE" ELSE state[p]
  BY <1>1, <1>2 DEF IInv, TypeOK
<1>4. Live' = Live \cup {c}
  BY <1>1, <1>2, <1>3 DEF Live, Op
<1>5. \A p \in Pids \ {c} : Same(p)
  BY <1>1, <1>4, SameMemory
<1>6. \A va \in UserVA : va < kern.va
  BY <1>1, KernelConstants DEF UserVA
<1>7. ASSUME NEW va \in UserVA
      PROVE  /\ Seen(c, va)' = ProgramImage[va]
             /\ Locked(c, va)' <=> va \in ProgramText
  <2>1. map[c][va].perm = ProgramPerm(va)
    BY <1>1, <1>2, <1>6 DEF Contents, SetupMapped
  <2>2. present(map[c][va]) => mem[map[c][va].pa] = ProgramImage[va]
    BY <1>1, <1>2, <1>6 DEF Contents, SetupLoaded
  <2>3. \A s \in SegmentOf(va) : s \in Segments /\ va # STACK
    BY KernelConstants DEF SegmentOf, UserVA, STACK
  <2>4. \A s, t \in SegmentOf(va) : s = t
    <3> SUFFICES ASSUME NEW s \in SegmentOf(va), NEW t \in SegmentOf(va) PROVE s = t
      OBVIOUS
    <3>1. /\ s \in Segments /\ t \in Segments /\ s.first <= va /\ va <= s.last
          /\ t.first <= va /\ va <= t.last
      BY DEF SegmentOf
    <3>2. va \in Int /\ s.first \in Int /\ s.last \in Int /\ t.first \in Int /\ t.last \in Int
      BY <3>1, KernelConstants DEF UserVA
    <3>3. s = t \/ s.last < t.first \/ t.last < s.first
      BY <3>1, KernelConstants
    <3> QED BY <3>1, <3>2, <3>3
  <2>5. ~present(map[c][va]) => ProgramImage[va] = "absent"
    BY <2>1 DEF ProgramPerm, ProgramImage, present, PWU
  <2>6. present(map[c][va]) /\ ~writable(map[c][va]) <=> va \in ProgramText
    BY <2>1, <2>3, <2>4 DEF ProgramPerm, ProgramText, present, writable, PWU
  <2>7. c \in Live' /\ map' = map /\ mem' = mem
    BY <1>1, <1>4
  <2> QED BY <2>2, <2>5, <2>6, <2>7 DEF Seen, Locked, present, writable
<1>8. [va \in UserVA |-> Seen(c, va)'] = ProgramImage
  BY <1>7 DEF ProgramImage
<1>9. {va \in UserVA : Locked(c, va)'} = ProgramText
  BY <1>7 DEF ProgramText
<1>10. Memory!Start(c)
  BY <1>1, <1>2, <1>4, <1>5, <1>8, <1>9, ViewOf DEF Memory!Start
<1> QED BY <1>2, <1>10 DEF Memory!Next

\* A child starts with its parent's memory.
LEMMA ForkImplements ==
    ASSUME IInv, ~starved, Contents, ForkDone
    PROVE  Memory!Next
<1>1. /\ Op("fork") /\ kern.va = MEMSIZE_VIRTUAL /\ kern'.op = "user"
      /\ state' = [state EXCEPT ![kern.pid] = "RUNNABLE"] /\ UNCHANGED <<map, mem, current>>
  BY DEF ForkDone, End, Op, ReturnToUser, Go, memory
<1>2. PICK c \in Pids : c = kern.pid /\ c \notin Live
  BY <1>1, BuildsFree
<1>3. \A p \in Pids : state'[p] = IF p = c THEN "RUNNABLE" ELSE state[p]
  BY <1>1, <1>2 DEF IInv, TypeOK
<1>4. Live' = Live \cup {c}
  BY <1>1, <1>2, <1>3 DEF Live, Op
<1>5. \A p \in Pids \ {c} : Same(p)
  BY <1>1, <1>4, SameMemory
<1>6. current \in Live /\ current \in Pids
  BY <1>1, Mapped DEF IInv, Loops, Live, Op
<1>7. ASSUME NEW va \in UserVA
      PROVE  /\ Seen(c, va)' = Seen(current, va)
             /\ Locked(c, va)' <=> Locked(current, va)
  <2>1. va < kern.va
    BY <1>1, KernelConstants DEF UserVA
  <2>2. /\ map[c][va].perm = map[current][va].perm
        /\ present(map[current][va]) => mem[map[c][va].pa] = mem[map[current][va].pa]
    BY <1>1, <1>2, <2>1 DEF Contents, ForkCopied
  <2>3. c \in Live' /\ map' = map /\ mem' = mem
    BY <1>1, <1>4
  <2> QED BY <1>6, <2>2, <2>3 DEF Seen, Locked, present, writable
<1>8. View[current] = [va \in UserVA |-> Seen(current, va)]
  BY <1>6, ViewIs
<1>9. Fixed[current] = {va \in UserVA : Locked(current, va)}
  BY <1>6, ViewIs
<1>10. [va \in UserVA |-> Seen(c, va)'] = View[current]
  BY <1>7, <1>8
<1>11. {va \in UserVA : Locked(c, va)'} = Fixed[current]
  BY <1>7, <1>9
<1>12. View' = [View EXCEPT ![c] = View[current]] /\ Fixed' = [Fixed EXCEPT ![c] = Fixed[current]]
  BY <1>2, <1>5, <1>10, <1>11, ViewOf
<1>13. Memory!Fork(c)
  BY <1>1, <1>2, <1>4, <1>6, <1>12 DEF Memory!Fork
<1> QED BY <1>2, <1>13 DEF Memory!Next

\* A process that exits has no memory from its system call on.
LEMMA ExitImplements ==
    ASSUME IInv, ~starved, ExitStart
    PROVE  Memory!Next
<1>1. Op("user") /\ Go("exit", current, PROC_START, None) /\ UNCHANGED <<map, mem, state, current>>
  BY DEF ExitStart, Trap, memory, procs
<1>2. PICK c \in Pids : c = current /\ c \in Live
  BY <1>1, Mapped DEF IInv, Loops, Live, Op
<1>3. Live' = Live \ {c}
  BY <1>1, <1>2 DEF Live, Op, Go
<1>4. \A p \in Pids \ {c} : Same(p)
  BY <1>1, <1>3, SameMemory
<1>5. \A va \in UserVA : Seen(c, va)' = "absent" /\ ~Locked(c, va)'
  BY <1>1, <1>3 DEF Seen, Locked
<1>6. [va \in UserVA |-> Seen(c, va)'] = Memory!Nothing
  BY <1>5 DEF Memory!Nothing
<1>7. {va \in UserVA : Locked(c, va)'} = {}
  BY <1>5
<1>8. Memory!Exit
  BY <1>1, <1>2, <1>3, <1>4, <1>6, <1>7, ViewOf DEF Memory!Exit
<1> QED BY <1>8 DEF Memory!Next

\* One address of a process changes.
LEMMA OneAddress ==
    ASSUME NEW c \in Pids, NEW va \in UserVA, NEW v,
           \A p \in Pids \ {c} : Same(p),
           \A w \in UserVA \ {va} : /\ Seen(c, w)' = Seen(c, w)
                                    /\ Locked(c, w)' <=> Locked(c, w),
           Seen(c, va)' = v, ~Locked(c, va)'
    PROVE  /\ View' = [View EXCEPT ![c][va] = v]
           /\ Fixed' = [Fixed EXCEPT ![c] = @ \ {va}]
<1>1. View[c] = [w \in UserVA |-> Seen(c, w)]
  BY ViewIs
<1>2. Fixed[c] = {w \in UserVA : Locked(c, w)}
  BY ViewIs
<1>3. [w \in UserVA |-> Seen(c, w)'] = [View[c] EXCEPT ![va] = v]
  <2>1. \A w \in UserVA : [View[c] EXCEPT ![va] = v][w] = IF w = va THEN v ELSE Seen(c, w)
    BY <1>1
  <2>2. [View[c] EXCEPT ![va] = v] = [w \in UserVA |-> [View[c] EXCEPT ![va] = v][w]]
    BY <1>1
  <2>3. \A w \in UserVA : Seen(c, w)' = [View[c] EXCEPT ![va] = v][w]
    BY <2>1
  <2> QED BY <2>2, <2>3
<1>4. {w \in UserVA : Locked(c, w)'} = Fixed[c] \ {va}
  BY <1>2
<1>5. /\ View' = [View EXCEPT ![c] = [View[c] EXCEPT ![va] = v]]
      /\ Fixed' = [Fixed EXCEPT ![c] = Fixed[c] \ {va}]
  BY <1>3, <1>4, ViewOf
<1> QED BY <1>5

\* A program's store changes its own memory only.
LEMMA StoreImplements ==
    ASSUME IInv, ~starved, NEW va \in UserVA, NEW v \in UserValue, UserWrite(va, v)
    PROVE  Memory!Next
<1>1. /\ Op("user") /\ present(map[current][va]) /\ writable(map[current][va])
      /\ mem' = [mem EXCEPT ![map[current][va].pa] = v]
      /\ UNCHANGED <<state, map, current, kern>>
  BY DEF UserWrite, procs, user, present
<1>2. PICK c \in Pids : c = current /\ c \in Live
  BY <1>1, Mapped DEF IInv, Loops, Live, Op
<1>3. Live' = Live
  BY <1>1, LiveStill DEF Op
<1>4. map[c][va].pa \in Pages /\ mem \in [Pages -> Value]
  BY <1>1, <1>2, Mapped
<1>5. mem'[map[c][va].pa] = v
  BY <1>1, <1>2, <1>4
<1>6. ASSUME NEW r \in Pids, NEW w \in UserVA, present(map[r][w]), r # c \/ w # va
      PROVE  mem'[map[r][w].pa] = mem[map[r][w].pa]
  <2>1. map[r][w].pa # map[c][va].pa
    BY <1>1, <1>2, <1>6, Apartness
  <2>2. map[r][w].pa \in Pages
    BY <1>6, Mapped
  <2> QED BY <1>1, <1>2, <1>4, <2>1, <2>2
<1>7. \A p \in Pids \ {c} : Same(p)
  BY <1>1, <1>3, <1>6, SameMemory
<1>8. \A w \in UserVA \ {va} : Seen(c, w)' = Seen(c, w) /\ (Locked(c, w)' <=> Locked(c, w))
  BY <1>1, <1>3, <1>6 DEF Seen, Locked, present, writable
<1>9. Seen(c, va)' = v /\ ~Locked(c, va)' /\ ~Locked(c, va)
  BY <1>1, <1>2, <1>3, <1>5 DEF Seen, Locked, present, writable
<1>10. View' = [View EXCEPT ![c][va] = v] /\ Fixed' = [Fixed EXCEPT ![c] = @ \ {va}]
  BY <1>7, <1>8, <1>9, OneAddress
<1>11. va \notin Fixed[c] /\ View[c][va] # "absent"
  <2>1. Fixed[c] = {w \in UserVA : Locked(c, w)} /\ View[c][va] = Seen(c, va)
    BY ViewIs
  <2>2. Seen(c, va) = mem[map[c][va].pa]
    BY <1>1, <1>2 DEF Seen
  <2>3. "absent" \notin Value
    BY KernelConstants DEF Value
  <2> QED BY <1>4, <1>9, <2>1, <2>2, <2>3
<1>12. Fixed' = Fixed
  <2>1. Fixed[c] \ {va} = Fixed[c]
    BY <1>11
  <2>2. DOMAIN Fixed = Pids /\ Fixed = [p \in Pids |-> Fixed[p]]
    BY ViewIs
  <2> QED BY <1>10, <2>1, <2>2
<1>13. Memory!Store(va, v)
  BY <1>1, <1>2, <1>3, <1>10, <1>11, <1>12 DEF Memory!Store
<1>14. v \in Value
  BY DEF Value
<1> QED BY <1>13, <1>14 DEF Memory!Next

\* page_alloc gives the running process an empty page.
LEMMA AllocateImplements ==
    ASSUME IInv, ~starved, Contents, Install, Op("alloc")
    PROVE  Memory!Next
<1>1. /\ ReturnToUser /\ UNCHANGED <<mem, state, current>>
      /\ map' = [map EXCEPT ![kern.pid][kern.va] = Entry]
  BY DEF Install, Advance
<1>2. /\ kern.pid = current /\ kern.va \in UserVA /\ state[current] = "RUNNABLE"
      /\ mem[kern.hold] = "zero"
  BY DEF IInv, Loops, Contents, AllocZeroed
<1>3. PICK c \in Pids : c = current /\ c \in Live
  BY <1>2, Mapped DEF Live, Op
<1>4. PICK va \in UserVA : va = kern.va
  BY <1>2
<1>5. Entry = [pa |-> kern.hold, perm |-> PWU]
  BY DEF Entry, Op
<1>6. kern'.op = "user"
  BY <1>1 DEF ReturnToUser, Go
<1>7. Live' = Live
  BY <1>1, <1>6, LiveStill DEF Op
<1>8. /\ map'[c][va] = [pa |-> kern.hold, perm |-> PWU]
      /\ \A p \in Pids, w \in UserVA : p # c \/ w # va => map'[p][w] = map[p][w]
  BY <1>1, <1>2, <1>3, <1>4, <1>5, Mapped DEF IInv, TypeOK
<1>9. \A p \in Pids \ {c} : Same(p)
  BY <1>1, <1>7, <1>8, SameMemory
<1>10. \A w \in UserVA \ {va} : Seen(c, w)' = Seen(c, w) /\ (Locked(c, w)' <=> Locked(c, w))
  BY <1>1, <1>7, <1>8 DEF Seen, Locked, present, writable
<1>11. Seen(c, va)' = "zero" /\ ~Locked(c, va)'
  BY <1>1, <1>2, <1>3, <1>7, <1>8 DEF Seen, Locked, present, writable, PWU
<1>12. View' = [View EXCEPT ![c][va] = "zero"] /\ Fixed' = [Fixed EXCEPT ![c] = @ \ {va}]
  BY <1>9, <1>10, <1>11, OneAddress
<1>13. Memory!Allocate(va)
  BY <1>1, <1>3, <1>7, <1>12 DEF Memory!Allocate
<1> QED BY <1>13 DEF Memory!Next

\* Where no process is alive there is no memory.
NobodyLives == \A p \in Pids : state[p] = "FREE"
NobodySees ==
    Live = {} /\ View = [p \in Pids |-> Memory!Nothing] /\ Fixed = [p \in Pids |-> {}]

LEMMA NothingToSee == NobodyLives => NobodySees
<1> SUFFICES ASSUME NobodyLives PROVE NobodySees
  OBVIOUS
<1>1. Live = {}
  BY DEF NobodyLives, Live
<1>2. \A p \in Pids : [va \in UserVA |-> Seen(p, va)] = Memory!Nothing
  BY <1>1 DEF Seen, Memory!Nothing
<1>3. \A p \in Pids : {va \in UserVA : Locked(p, va)} = {}
  BY <1>1 DEF Locked
<1> QED BY <1>1, <1>2, <1>3, ViewIs DEF NobodySees

\* A restart ends every process.
LEMMA RebootImplements == SoftReboot => Memory!Next
<1> SUFFICES ASSUME SoftReboot PROVE Memory!Next
  OBVIOUS
<1>1. NobodyLives'
  BY DEF SoftReboot, NobodyLives
<1>2. NobodySees'
  BY <1>1, NothingToSee, PTL
<1>3. current' \in Pids
  BY KernelConstants DEF SoftReboot, Pids
<1> QED BY <1>2, <1>3 DEF NobodySees, Memory!Nothing, Memory!Restart, Memory!Next

-----------------------------------------------------------------------------
LEMMA InitImplements == Init => Memory!Init
<1> SUFFICES ASSUME Init PROVE Memory!Init
  OBVIOUS
<1>1. NobodyLives
  BY DEF Init, NobodyLives
<1>2. current \in Pids
  BY KernelConstants DEF Init, Pids
<1> QED BY <1>1, <1>2, NothingToSee DEF NobodySees, Memory!Init

LEMMA StepImplements ==
    ASSUME IInv, IInv', Contents, LoadedInOrder, LoadedInOrder', [Next]_vars
    PROVE  [Memory!Next]_Memory!vars
<1>1. ~starved /\ ~starved'
  BY DEF LoadedInOrder
<1>2. CASE SetupStart
  BY <1>1, <1>2, SetupStartStutters
<1>3. CASE Load
  BY <1>3, LoadStutters
<1>4. CASE SetupDone
  BY <1>1, <1>4, SetupImplements
<1>5. CASE BootDone
  BY <1>5, BootImplements
<1>6. CASE TakePage
  BY <1>1, <1>6, TakePageStutters
<1>7. CASE GrowTable
  BY <1>1, <1>7, GrowTableStutters
<1>8. CASE Install
  BY <1>1, <1>8, InstallStutters, AllocateImplements
<1>9. CASE ForkDone
  BY <1>1, <1>9, ForkImplements
<1>10. CASE FreeUserPage \/ FreeTable \/ DropHeld
  BY <1>1, <1>10, ReleaseStutters
<1>11. CASE FreeRoot
  BY <1>11, FreeRootImplements
<1>12. CASE Memshow \/ ForkStart \/ Panic \/ \E va \in VA : PageAlloc(va)
  BY <1>1, <1>12, CallStutters
<1>13. CASE ExitStart
  BY <1>1, <1>13, ExitImplements
<1>14. CASE Timer \/ PageFault
  BY <1>14, FaultImplements
<1>15. CASE \E va \in UserVA, v \in UserValue : UserWrite(va, v)
  BY <1>1, <1>15, StoreImplements
<1>16. CASE SoftReboot
  BY <1>16, RebootImplements
<1>17. CASE UNCHANGED vars
  <2>1. UNCHANGED <<state, map, mem, current, kern>>
    BY <1>17 DEF vars, memory, procs
  <2>2. Live' = Live
    BY <2>1, LiveStill DEF Op
  <2> QED BY <2>1, <2>2, QuietStutters
<1> QED BY <1>2, <1>3, <1>4, <1>5, <1>6, <1>7, <1>8, <1>9, <1>10, <1>11, <1>12, <1>13, <1>14,
           <1>15, <1>16, <1>17 DEF Next, KernelStep, UserStep

\* As long as programs are loaded in order, the kernel implements ProcessMemory.
LEMMA PrivateIfInOrder == Spec /\ []LoadedInOrder => ImplementsProcessMemory
<1>1. Spec /\ []LoadedInOrder => Memory!Init /\ [][Memory!Next]_Memory!vars
  BY InitImplements, StepImplements, Invariance, ContentsTrue, PTL DEF Spec
<1> QED BY <1>1, PTL DEF ImplementsProcessMemory, Memory!Spec

-----------------------------------------------------------------------------
(* The machines on which programs are loaded in order: the boot frees      *)
(* nothing, so the pages it takes follow one another.                      *)

Boots == Op("boot") \/ Op("setup") \/ Op("stack")

\* The pages that the process being set up has taken.
Filled == {va \in ProgramVA : va < kern.va}
Tabled == {n \in Nodes : tables[kern.pid][n] # Null}
Spent ==
    IF Op("boot") THEN 0
    ELSE 1 + Cardinality(Filled) + Cardinality(Tabled) + (IF kern.hold # None THEN 1 ELSE 0)

\* What the boot has taken is behind next_alloc_pa, and no more than it needs.
BootTakes(lo) ==
    Boots =>
        /\ \A q \in Allocatable : q >= next_alloc_pa => pages[q] = 0
        /\ Op("boot") /\ kern.pid = 1 => next_alloc_pa = 0
        /\ next_alloc_pa + Below(lo) <= lo + (kern.pid - 1) * ProcessPages + Spent

\* The first root has taken the page before the row.
PastBelow(lo) ==
    Op("setup") \/ Op("stack") => \A q \in Allocatable : q >= next_alloc_pa => q >= lo

\* The tables a segment needs are there before its first page is taken.
KernelTables ==
    Op("setup") => \A w \in 1..PROC_START-1 : w < kern.va => Missing(kern.pid, w) = {}

\* The place of va in the row of its segment.
Place(s, va) == map[kern.pid][s.first].pa + (va - s.first)

\* The segments lie in a row as far as they are mapped, and the next page that
\* kalloc gives is the next of its segment.
InRow(lo) ==
    Op("setup") =>
        /\ \A s \in Segments, va \in UserVA :
               s.first <= va /\ va <= s.last /\ va < kern.va => map[kern.pid][va].pa = Place(s, va)
        /\ \A s \in Segments : s.first < kern.va /\ kern.va <= s.last =>
               IF kern.hold = None THEN next_alloc_pa = Place(s, kern.va) /\ next_alloc_pa >= lo
                                   ELSE kern.hold = Place(s, kern.va)
        /\ kern.hold # None => next_alloc_pa = kern.hold + 1 /\ kern.hold >= lo

BootRow(lo) ==
    ~starved /\ BootTakes(lo) /\ PastBelow(lo) /\ KernelTables /\ InRow(lo)

\* A boot loop holds a page only for an address of the program.
LEMMA HoldsForProgram ==
    ASSUME IInv, Op("setup") \/ Op("stack"), Busy, NeedsPage
    PROVE  kern.va \in ProgramVA /\ (Op("setup") => SegmentOf(kern.va) # {})
<1>1. CASE Op("setup")
  <2>1. SegmentOf(kern.va) # {}
    BY <1>1 DEF NeedsPage, Op
  <2>2. PICK s \in Segments : s.first <= kern.va /\ kern.va <= s.last
    BY <2>1 DEF SegmentOf
  <2>3. s.first \in UserVA /\ s.last \in UserVA /\ kern.va \in Nat
    BY <2>2, KernelConstants DEF IInv, TypeOK
  <2>4. kern.va \in UserVA
    BY <2>2, <2>3, KernelConstants DEF UserVA
  <2> QED BY <2>1, <2>4 DEF ProgramVA
<1>2. CASE Op("stack")
  <2>1. kern.va = STACK
    BY <1>2, LoopFacts, KernelConstants DEF IInv, Loops, STACK, Busy, End, Op
  <2> QED BY <1>2, <2>1, Sizes DEF ProgramVA, Op
<1> QED BY <1>1, <1>2

\* What has been taken can be counted.
LEMMA FinitePart ==
    /\ Filled \subseteq ProgramVA /\ Tabled \subseteq Nodes
    /\ IsFiniteSet(Filled) /\ IsFiniteSet(Tabled) /\ IsFiniteSet(ProgramVA) /\ IsFiniteSet(Nodes)
    /\ Cardinality(Filled) <= Cardinality(ProgramVA) /\ Cardinality(Tabled) <= Cardinality(Nodes)
    /\ Cardinality(Filled) \in Nat /\ Cardinality(Tabled) \in Nat
    /\ Cardinality(ProgramVA) \in Nat /\ Cardinality(Nodes) \in Nat
<1>1. IsFiniteSet(ProgramVA) /\ IsFiniteSet(Nodes)
  BY Sizes, FS_Subset DEF ProgramVA
<1>2. /\ Filled \subseteq ProgramVA /\ Tabled \subseteq Nodes
      /\ IsFiniteSet(Filled) /\ IsFiniteSet(Tabled)
      /\ Cardinality(Filled) <= Cardinality(ProgramVA) /\ Cardinality(Tabled) <= Cardinality(Nodes)
  BY <1>1, FS_Subset DEF Filled, Tabled
<1> QED BY <1>1, <1>2, FS_CardinalityType

\* No process takes more than ProcessPages.
SpentBound == Op("setup") \/ Op("stack") => Spent \in Nat /\ 1 <= Spent /\ Spent <= ProcessPages

LEMMA SpentBounded == IInv => SpentBound
<1> SUFFICES ASSUME IInv, Op("setup") \/ Op("stack")
             PROVE  Spent \in Nat /\ 1 <= Spent /\ Spent <= ProcessPages
  BY DEF SpentBound
<1>1. /\ Filled \subseteq ProgramVA /\ IsFiniteSet(Filled) /\ IsFiniteSet(ProgramVA)
      /\ Cardinality(Filled) <= Cardinality(ProgramVA) /\ Cardinality(Tabled) <= Cardinality(Nodes)
      /\ Cardinality(Filled) \in Nat /\ Cardinality(Tabled) \in Nat
      /\ Cardinality(ProgramVA) \in Nat /\ Cardinality(Nodes) \in Nat
  BY FinitePart
<1>2. Spent = 1 + Cardinality(Filled) + Cardinality(Tabled) + (IF kern.hold # None THEN 1 ELSE 0)
  BY DEF Spent, Op
<1>3. CASE kern.hold = None
  BY <1>1, <1>2, <1>3 DEF ProcessPages
<1>4. CASE kern.hold # None
  <2>1. kern.va \in ProgramVA
    BY <1>4, HoldsForProgram DEF IInv, Loops
  <2>2. kern.va \notin Filled /\ Filled \cup {kern.va} \subseteq ProgramVA
    <3>1. kern.va \in Int
      BY DEF IInv, TypeOK
    <3> QED BY <1>1, <2>1, <3>1 DEF Filled
  <2>3. Cardinality(Filled \cup {kern.va}) = Cardinality(Filled) + 1
    BY <1>1, <2>2, FS_AddElement
  <2>4. Cardinality(Filled \cup {kern.va}) <= Cardinality(ProgramVA)
    BY <1>1, <2>2, FS_Subset
  <2> QED BY <1>1, <1>2, <1>4, <2>3, <2>4 DEF ProcessPages
<1> QED BY <1>3, <1>4

\* The pages of p processes are those of one less and its own.
LEMMA Multiples ==
    ASSUME NEW c \in Nat, NEW p \in Nat, NEW n \in Nat, 1 <= p, p <= n
    PROVE  /\ (p - 1) * c \in Nat /\ p * c \in Nat /\ n * c \in Nat
           /\ (p - 1) * c + c = p * c /\ p * c <= n * c
OBVIOUS

\* There is room for what the boot still takes.
LEMMA Room ==
    ASSUME IInv, NEW lo \in Pages, NEW hi \in Pages, Fits(lo, hi),
           (Op("boot") /\ kern.pid <= nboot) \/ Op("setup") \/ Op("stack")
    PROVE  /\ ProcessPages \in Nat /\ ProcessPages >= 2
           /\ (kern.pid - 1) * ProcessPages \in Nat
           /\ kern.pid * ProcessPages = (kern.pid - 1) * ProcessPages + ProcessPages
           /\ lo + kern.pid * ProcessPages <= hi + 1 + Below(lo)
<1>1. IsFiniteSet(ProgramVA) /\ IsFiniteSet(Nodes) /\ STACK \in ProgramVA
  BY Sizes, FS_Subset DEF ProgramVA
<1>2. Cardinality(ProgramVA) \in Nat /\ Cardinality(Nodes) \in Nat /\ Cardinality(ProgramVA) # 0
  BY <1>1, FS_CardinalityType, FS_EmptySet
<1>3. ProcessPages \in Nat /\ ProcessPages >= 2
  BY <1>2 DEF ProcessPages
<1>4. kern.pid \in Nat /\ nboot \in Nat /\ 1 <= kern.pid /\ kern.pid <= nboot /\ nboot \in BootCounts
  BY KernelConstants DEF IInv, TypeOK, Loops
<1>5. lo + nboot * ProcessPages <= hi + 1 + Below(lo)
  BY <1>4 DEF Fits
<1>6. lo \in Int /\ hi \in Int /\ Below(lo) \in {0, 1}
  BY Sizes DEF Below
<1> HIDE DEF ProcessPages
<1>7. /\ (kern.pid - 1) * ProcessPages \in Nat /\ kern.pid * ProcessPages \in Nat
      /\ nboot * ProcessPages \in Nat /\ kern.pid * ProcessPages <= nboot * ProcessPages
      /\ kern.pid * ProcessPages = (kern.pid - 1) * ProcessPages + ProcessPages
  BY <1>3, <1>4, Multiples
<1> QED BY <1>3, <1>5, <1>6, <1>7

\* The page that kalloc gives the boot.
LEMMA KallocRow ==
    ASSUME IInv, NEW lo \in Pages, NEW hi \in Pages, Fits(lo, hi), NEW v, Kalloc(kalloc, v),
           \A q \in Allocatable : q >= next_alloc_pa => pages[q] = 0,
           NEW r \in Nat, next_alloc_pa + Below(lo) <= r, lo <= r, r <= hi + Below(lo),
           next_alloc_pa = 0 \/ lo < r
    PROVE  /\ kalloc # Null /\ kalloc \in Allocatable /\ next_alloc_pa' = kalloc + 1
           /\ kalloc >= next_alloc_pa
           /\ next_alloc_pa' + Below(lo) <= r + 1
           /\ \A q \in Allocatable : q >= next_alloc_pa' => pages'[q] = 0 /\ q >= lo
           /\ next_alloc_pa >= lo => kalloc = next_alloc_pa
<1> DEFINE m == IF next_alloc_pa >= lo THEN next_alloc_pa ELSE lo
<1>1. /\ lo \in Nat /\ hi \in Nat /\ next_alloc_pa \in Nat /\ Below(lo) \in {0, 1}
      /\ Allocatable \subseteq Nat /\ pages \in [Pages -> 0..255] /\ Allocatable \subseteq Pages
  <2>1. next_alloc_pa \in 0..NPAGES /\ pages \in [Pages -> 0..255] /\ NPAGES \in Nat
    BY KernelConstants DEF IInv, TypeOK
  <2>2. Allocatable \subseteq Pages /\ Pages \subseteq Nat
    BY Sizes
  <2>3. Below(lo) \in {0, 1}
    BY DEF Below
  <2> QED BY <2>1, <2>2, <2>3
<1>2. \/ kalloc = Null /\ FreePages = {}
      \/ /\ kalloc \in Allocatable /\ kalloc # Null /\ pages[kalloc] = 0 /\ kalloc >= next_alloc_pa
         /\ \A q \in Allocatable : pages[q] = 0 /\ q >= next_alloc_pa => kalloc <= q
  BY KallocResult DEF IInv
<1>3. m \in Nat /\ lo <= m /\ next_alloc_pa <= m
  BY <1>1
<1>4. ASSUME ~(\E q \in Allocatable : q < lo /\ q >= next_alloc_pa)
      PROVE  m <= hi /\ m + 1 + Below(lo) <= r + 1
  <2>1. CASE next_alloc_pa >= lo
    BY <1>1, <2>1
  <2>2. CASE next_alloc_pa < lo
    <3>1. Below(lo) = 0 \/ next_alloc_pa # 0
      BY <1>1, <1>4 DEF Below
    <3> QED BY <1>1, <2>2, <3>1
  <2> QED BY <1>1, <2>1, <2>2
<1>5. PICK x \in Allocatable : x >= next_alloc_pa /\ x <= m /\ (x < lo \/ x = m)
      /\ x + 1 + Below(lo) <= r + 1
  <2>1. CASE \E q \in Allocatable : q < lo /\ q >= next_alloc_pa
    <3>1. PICK q \in Allocatable : q < lo /\ q >= next_alloc_pa
      BY <2>1
    <3> QED BY <1>1, <1>3, <3>1
  <2>2. CASE ~(\E q \in Allocatable : q < lo /\ q >= next_alloc_pa)
    <3>1. m <= hi /\ m + 1 + Below(lo) <= r + 1
      BY <1>4, <2>2
    <3>2. m \in Allocatable
      BY <1>1, <1>3, <3>1 DEF Fits
    <3> QED BY <1>1, <1>3, <3>1, <3>2
  <2> QED BY <2>1, <2>2
<1>6. kalloc # Null /\ kalloc \in Allocatable /\ kalloc >= next_alloc_pa /\ kalloc <= x
  BY <1>2, <1>5 DEF FreePages
<1>7. next_alloc_pa' = kalloc + 1 /\ pages' = [pages EXCEPT ![kalloc] = 1]
  BY <1>6 DEF Kalloc
<1>8. next_alloc_pa' + Below(lo) <= r + 1
  BY <1>1, <1>5, <1>6, <1>7
<1>9. ASSUME NEW q \in Allocatable, q >= next_alloc_pa'
      PROVE  pages'[q] = 0 /\ q >= lo
  <2>1. q > kalloc /\ q >= next_alloc_pa
    BY <1>1, <1>6, <1>7, <1>9
  <2>2. pages'[q] = 0
    BY <1>1, <1>6, <1>7, <2>1
  <2>3. ~(q < lo)
    BY <1>1, <1>6, <2>1 DEF Fits
  <2> QED BY <1>1, <2>2, <2>3
<1>10. next_alloc_pa >= lo => kalloc = next_alloc_pa
  BY <1>1, <1>5, <1>6
<1> QED BY <1>6, <1>7, <1>8, <1>9, <1>10

\* The boot's order is a matter of the boot.
LEMMA RowElsewhere ==
    ASSUME NEW lo \in Pages, ~starved',
           kern'.op \in {"fork", "alloc", "exit", "drop", "user", "idle", "panic"}
    PROVE  BootRow(lo)'
BY DEF BootRow, BootTakes, PastBelow, KernelTables, InRow, Boots, Op

\* The root is taken.
LEMMA SetupStartRow ==
    ASSUME IInv, IInv', NEW lo \in Pages, NEW hi \in Pages, Fits(lo, hi), BootRow(lo), SetupStart
    PROVE  BootRow(lo)'
<1>1. Op("boot") /\ kern.pid <= nboot /\ Kalloc(kalloc, "zero") /\ 1 <= kern.pid /\ kern.pid \in Nat
  BY DEF SetupStart, IInv, TypeOK, Loops
<1>2. /\ ProcessPages \in Nat /\ ProcessPages >= 2 /\ (kern.pid - 1) * ProcessPages \in Nat
      /\ kern.pid * ProcessPages = (kern.pid - 1) * ProcessPages + ProcessPages
      /\ lo + kern.pid * ProcessPages <= hi + 1 + Below(lo)
  BY <1>1, Room
<1>3. lo \in Nat /\ hi \in Nat /\ Below(lo) \in {0, 1}
  BY Sizes DEF Below
<1>4. PICK r \in Nat : r = lo + (kern.pid - 1) * ProcessPages
  BY <1>2, <1>3
<1>5. Spent = 0
  BY <1>1 DEF Spent
<1>6. /\ \A q \in Allocatable : q >= next_alloc_pa => pages[q] = 0
      /\ kern.pid = 1 => next_alloc_pa = 0
      /\ next_alloc_pa + Below(lo) <= r
  <2>1. next_alloc_pa + Below(lo) <= lo + (kern.pid - 1) * ProcessPages + Spent
    BY <1>1 DEF BootRow, BootTakes, Boots
  <2> QED BY <1>1, <1>2, <1>3, <1>4, <1>5, <2>1 DEF BootRow, BootTakes, Boots
<1>7. next_alloc_pa = 0 \/ lo < r
  <2>1. CASE kern.pid = 1
    BY <1>6, <2>1
  <2>2. CASE kern.pid # 1
    <3>1. kern.pid - 1 \in Nat /\ 1 <= kern.pid - 1
      BY <1>1, <2>2
    <3>2. (kern.pid - 1) * ProcessPages = (kern.pid - 1 - 1) * ProcessPages + ProcessPages
          /\ (kern.pid - 1 - 1) * ProcessPages \in Nat
      <4> HIDE DEF ProcessPages
      <4> QED BY <1>2, <3>1, Multiples
    <3> QED BY <1>2, <1>3, <1>4, <3>2
  <2> QED BY <2>1, <2>2
<1>8. lo <= r /\ r <= hi + Below(lo)
  BY <1>2, <1>3, <1>4
<1>9. /\ kalloc # Null /\ next_alloc_pa' + Below(lo) <= r + 1
      /\ \A q \in Allocatable : q >= next_alloc_pa' => pages'[q] = 0 /\ q >= lo
  BY <1>1, <1>6, <1>7, <1>8, KallocRow
<1>10. Go("setup", kern.pid, 0, None)
  BY <1>9 DEF SetupStart
<1>11. kern'.op = "setup" /\ kern'.pid = kern.pid /\ kern'.va = 0 /\ kern'.hold = None
  BY <1>10 DEF Go
<1>12. ~starved'
  <2>1. starved' = (starved \/ kalloc = Null)
    BY DEF SetupStart
  <2>2. ~starved
    BY DEF BootRow
  <2> QED BY <1>9, <2>1, <2>2, Zenon
<1>13. BootTakes(lo)'
  <2>1. SpentBound'
    BY SpentBounded, PTL
  <2>2. Spent' \in Nat /\ 1 <= Spent'
    BY <1>11, <2>1 DEF SpentBound, Op
  <2>3. next_alloc_pa' \in Nat
    BY KernelConstants DEF IInv, TypeOK
  <2>4. next_alloc_pa' + Below(lo) <= lo + (kern.pid - 1) * ProcessPages + Spent'
    BY <1>2, <1>3, <1>4, <1>9, <2>2, <2>3
  <2>5. kern'.op # "boot"
    BY <1>11
  <2> QED BY <1>9, <1>11, <2>4, <2>5 DEF BootTakes, Op
<1>14. PastBelow(lo)'
  BY <1>9 DEF PastBelow
<1>15. KernelTables'
  BY <1>11 DEF KernelTables
<1>16. InRow(lo)'
  <2>1. \A va \in UserVA : ~(va < 0)
    BY KernelConstants DEF UserVA
  <2>2. \A s \in Segments : s.first \in UserVA
    BY KernelConstants
  <2> QED BY <1>11, <2>1, <2>2 DEF InRow
<1> QED BY <1>12, <1>13, <1>14, <1>15, <1>16 DEF BootRow

\* The program is loaded into the pages it has.
LEMMA LoadRow ==
    ASSUME IInv, NEW lo \in Pages, BootRow(lo), Load
    PROVE  BootRow(lo)'
<1>1. /\ Op("setup") /\ kern.va = STACK
      /\ UNCHANGED <<pages, next_alloc_pa, tables, starved>>
  BY DEF Load, procs
<1>2. ~starved' /\ ~starved
  BY <1>1 DEF BootRow
<1>3. CASE kern'.op = "panic"
  BY <1>2, <1>3, RowElsewhere
<1>4. CASE kern'.op # "panic"
  <2>1. kern' = [kern EXCEPT !.op = "stack"]
    BY <1>4 DEF Load, Go
  <2>2. kern'.op = "stack" /\ kern'.pid = kern.pid /\ kern'.va = kern.va /\ kern'.hold = kern.hold
    BY <2>1 DEF IInv, TypeOK
  <2>3. Spent' = Spent
    BY <1>1, <2>2 DEF Spent, Filled, Tabled, Op
  <2>4. BootTakes(lo)'
    BY <1>1, <2>2, <2>3 DEF BootRow, BootTakes, Boots, Op
  <2>5. PastBelow(lo)'
    BY <1>1 DEF BootRow, PastBelow
  <2>6. KernelTables' /\ InRow(lo)'
    BY <2>2 DEF KernelTables, InRow, Op
  <2> QED BY <1>2, <2>4, <2>5, <2>6 DEF BootRow
<1> QED BY <1>3, <1>4

\* The next process begins where this one has ended.
LEMMA SetupDoneRow ==
    ASSUME IInv, NEW lo \in Pages, NEW hi \in Pages, Fits(lo, hi), BootRow(lo), SetupDone
    PROVE  BootRow(lo)'
<1>1. /\ Op("stack") /\ Go("boot", kern.pid + 1, 0, None)
      /\ UNCHANGED <<pages, next_alloc_pa, starved>>
  BY DEF SetupDone, memory
<1>2. kern'.op = "boot" /\ kern'.pid = kern.pid + 1
  BY <1>1 DEF Go
<1>3. kern.pid \in Nat /\ 1 <= kern.pid
  BY <1>1, KernelConstants DEF IInv, TypeOK, Loops
<1>4. /\ ProcessPages \in Nat /\ (kern.pid - 1) * ProcessPages \in Nat
      /\ kern.pid * ProcessPages = (kern.pid - 1) * ProcessPages + ProcessPages
  BY <1>1, Room
<1>5. Spent \in Nat /\ Spent <= ProcessPages
  BY <1>1, SpentBounded DEF SpentBound
<1>6. lo \in Nat /\ Below(lo) \in {0, 1} /\ next_alloc_pa \in Nat
  <2>1. next_alloc_pa \in 0..NPAGES
    BY DEF IInv, TypeOK
  <2> QED BY <2>1, Sizes, KernelConstants DEF Below
<1>7. next_alloc_pa + Below(lo) <= lo + (kern.pid - 1) * ProcessPages + Spent
  BY <1>1 DEF BootRow, BootTakes, Boots
<1>8. next_alloc_pa + Below(lo) <= lo + kern.pid * ProcessPages
  BY <1>4, <1>5, <1>6, <1>7
<1>9. Spent' = 0
  BY <1>2 DEF Spent, Op
<1>10. next_alloc_pa' + Below(lo) <= lo + (kern'.pid - 1) * ProcessPages + Spent'
  <2>1. kern'.pid - 1 = kern.pid
    BY <1>2, <1>3
  <2>2. kern.pid * ProcessPages \in Nat
    BY <1>4
  <2> HIDE DEF ProcessPages
  <2> QED BY <1>1, <1>6, <1>8, <1>9, <2>1, <2>2
<1>11. BootTakes(lo)'
  BY <1>1, <1>2, <1>3, <1>10 DEF BootRow, BootTakes, Boots
<1>12. PastBelow(lo)' /\ KernelTables' /\ InRow(lo)'
  BY <1>2 DEF PastBelow, KernelTables, InRow, Op
<1> QED BY <1>1, <1>11, <1>12 DEF BootRow

\* A page is taken for an address of the program.
LEMMA TakePageRow ==
    ASSUME IInv, IInv', NEW lo \in Pages, NEW hi \in Pages, Fits(lo, hi), BootRow(lo), TakePage,
           Op("setup") \/ Op("stack")
    PROVE  BootRow(lo)'
<1>1. /\ Busy /\ NeedsPage /\ kern.hold = None /\ Kalloc(kalloc, "int3")
      /\ kern' = [kern EXCEPT !.hold = kalloc] /\ UNCHANGED <<tables, map>>
  BY DEF TakePage, Op, procs
<1>2. kern'.op = kern.op /\ kern'.pid = kern.pid /\ kern'.va = kern.va /\ kern'.hold = kalloc
  BY <1>1 DEF IInv, TypeOK
<1>3. /\ ProcessPages \in Nat /\ (kern.pid - 1) * ProcessPages \in Nat
      /\ kern.pid * ProcessPages = (kern.pid - 1) * ProcessPages + ProcessPages
      /\ lo + kern.pid * ProcessPages <= hi + 1 + Below(lo)
  BY Room
<1>4. lo \in Nat /\ hi \in Nat /\ Below(lo) \in {0, 1}
  BY Sizes DEF Below
<1>5. Spent \in Nat /\ 1 <= Spent
  BY SpentBounded DEF SpentBound
<1>6. Spent' = Spent + 1 /\ Spent' <= ProcessPages
  <2>1. kern'.hold # None
    <3>1. kalloc \in Pages
      BY KallocResult, Sizes DEF IInv
    <3> QED BY <1>2, <3>1, Sizes
  <2>2. Filled' = Filled /\ Tabled' = Tabled
    BY <1>1, <1>2 DEF Filled, Tabled
  <2>3. Spent = 1 + Cardinality(Filled) + Cardinality(Tabled) + 0
    BY <1>1 DEF Spent, Op
  <2>7. Cardinality(Filled) \in Nat /\ Cardinality(Tabled) \in Nat
    BY FinitePart
  <2>4. Spent' = 1 + Cardinality(Filled) + Cardinality(Tabled) + 1
    BY <1>2, <2>1, <2>2 DEF Spent, Op
  <2>5. SpentBound'
    BY SpentBounded, PTL
  <2>6. Spent' <= ProcessPages
    BY <1>2, <2>5 DEF SpentBound, Op
  <2> QED BY <2>3, <2>4, <2>6, <2>7
<1>7. PICK r \in Nat : r = lo + (kern.pid - 1) * ProcessPages + Spent
  BY <1>3, <1>4, <1>5
<1>8. /\ \A q \in Allocatable : q >= next_alloc_pa => pages[q] = 0
      /\ next_alloc_pa + Below(lo) <= r /\ \A q \in Allocatable : q >= next_alloc_pa => q >= lo
  BY <1>7 DEF BootRow, BootTakes, Boots, PastBelow
<1>9. lo < r /\ r <= hi + Below(lo)
  BY <1>3, <1>4, <1>5, <1>6, <1>7
<1>10. /\ kalloc # Null /\ kalloc \in Allocatable /\ next_alloc_pa' = kalloc + 1
       /\ kalloc >= next_alloc_pa
       /\ next_alloc_pa' + Below(lo) <= r + 1
       /\ \A q \in Allocatable : q >= next_alloc_pa' => pages'[q] = 0 /\ q >= lo
       /\ next_alloc_pa >= lo => kalloc = next_alloc_pa
  BY <1>1, <1>4, <1>8, <1>9, KallocRow
<1>11. ~starved'
  <2>1. starved' = (starved \/ (kalloc = Null /\ ~Op("fork")))
    BY DEF TakePage
  <2>2. ~starved
    BY DEF BootRow
  <2> QED BY <1>10, <2>1, <2>2, Zenon
<1>12. BootTakes(lo)'
  <2>1. next_alloc_pa' + Below(lo) <= lo + (kern'.pid - 1) * ProcessPages + Spent'
    <3>1. next_alloc_pa' + Below(lo) <= lo + (kern.pid - 1) * ProcessPages + (Spent + 1)
      BY <1>3, <1>4, <1>5, <1>7, <1>10
    <3> QED BY <1>2, <1>6, <3>1
  <2>2. kern'.op # "boot"
    BY <1>2 DEF Op
  <2> QED BY <1>10, <2>1, <2>2 DEF BootTakes, Op
<1>13. PastBelow(lo)'
  BY <1>10 DEF PastBelow
<1>14. KernelTables'
  BY <1>1, <1>2 DEF BootRow, KernelTables, Missing, Op
<1>15. InRow(lo)'
  <2> SUFFICES ASSUME Op("setup") PROVE InRow(lo)'
    BY <1>2 DEF InRow, Op
  <2>1. kalloc >= lo /\ kalloc # None
    BY <1>8, <1>10, Sizes
  <2>2. \A s \in Segments, va \in UserVA : Place(s, va)' = Place(s, va)
    BY <1>1, <1>2 DEF Place
  <2>3. \A s \in Segments, va \in UserVA :
               s.first <= va /\ va <= s.last /\ va < kern.va => map[kern.pid][va].pa = Place(s, va)
    BY DEF BootRow, InRow
  <2>4. ASSUME NEW s \in Segments, s.first < kern.va, kern.va <= s.last
        PROVE  kalloc = Place(s, kern.va)
    BY <1>1, <1>10, <2>4 DEF BootRow, InRow
  <2>5. \A s \in Segments : Place(s, kern.va)' = Place(s, kern.va)
    BY <1>1, <1>2 DEF Place
  <2> QED BY <1>1, <1>2, <1>10, <2>1, <2>2, <2>3, <2>4, <2>5 DEF InRow
<1> QED BY <1>11, <1>12, <1>13, <1>14, <1>15 DEF BootRow

\* A segment's page needs no table that is not there yet.
LEMMA SegmentTables ==
    ASSUME IInv, NEW lo \in Pages, NEW hi \in Pages, Fits(lo, hi), KernelTables,
           Op("setup"), SegmentOf(kern.va) # {}
    PROVE  kern.va \in UserVA /\ Missing(kern.pid, kern.va) = {}
<1>1. kern.va \in UserVA
  <2>1. PICK s \in Segments : s.first <= kern.va /\ kern.va <= s.last
    BY DEF SegmentOf
  <2>2. s.first \in UserVA /\ s.last \in UserVA /\ kern.va \in Nat
    BY <2>1, KernelConstants DEF IInv, TypeOK
  <2> QED BY <2>1, <2>2, KernelConstants DEF UserVA
<1>2. Path[kern.va] \subseteq UNION {Path[w] : w \in 1..PROC_START-1}
  BY <1>1 DEF Fits
<1>3. \A w \in 1..PROC_START-1 : w < kern.va
  BY <1>1, KernelConstants DEF UserVA
<1>4. \A w \in 1..PROC_START-1 : \A n \in Path[w] : tables[kern.pid][n] # Null
  <2> TAKE w \in 1..PROC_START-1
  <2>1. Missing(kern.pid, w) = {}
    BY <1>3 DEF KernelTables
  <2> QED BY <2>1 DEF Missing
<1> QED BY <1>1, <1>2, <1>4 DEF Missing

\* A table is taken, for the kernel's part or for the stack.
LEMMA GrowTableRow ==
    ASSUME IInv, IInv', NEW lo \in Pages, NEW hi \in Pages, Fits(lo, hi), BootRow(lo), GrowTable,
           Op("setup") \/ Op("stack")
    PROVE  BootRow(lo)'
<1> DEFINE n == Least(Missing(kern.pid, kern.va))
<1>1. Busy /\ HasPage /\ NeedsTable /\ Kalloc(kalloc, "zero") /\ UNCHANGED map
  BY DEF GrowTable
<1>2. kern.pid \in Pids /\ kern.va \in VA
  BY <1>1, LoopFacts DEF IInv, Building, UnderWay
<1>3. n \in Missing(kern.pid, kern.va) /\ n \in Nodes /\ tables[kern.pid][n] = Null
  <2>1. n \in Missing(kern.pid, kern.va)
    BY <1>1, <1>2, ChosenNodes DEF NeedsTable
  <2> QED BY <1>2, <2>1, KernelConstants DEF Missing
<1> HIDE DEF n
<1>4. /\ ProcessPages \in Nat /\ (kern.pid - 1) * ProcessPages \in Nat
      /\ kern.pid * ProcessPages = (kern.pid - 1) * ProcessPages + ProcessPages
      /\ lo + kern.pid * ProcessPages <= hi + 1 + Below(lo)
  BY Room
<1>5. lo \in Nat /\ hi \in Nat /\ Below(lo) \in {0, 1}
  BY Sizes DEF Below
<1>6. Spent \in Nat /\ 1 <= Spent /\ Spent <= ProcessPages
  BY SpentBounded DEF SpentBound
<1>7. Spent + 1 <= ProcessPages
  <2>1. n \notin Tabled /\ Tabled \cup {n} \subseteq Nodes
    BY <1>3, FinitePart DEF Tabled
  <2>2. Cardinality(Tabled \cup {n}) = Cardinality(Tabled) + 1 /\ Cardinality(Tabled \cup {n}) <= Cardinality(Nodes)
    BY <2>1, FinitePart, FS_AddElement, FS_Subset
  <2>3. CASE kern.hold = None
    <3>1. Spent = 1 + Cardinality(Filled) + Cardinality(Tabled) + 0
      BY <2>3 DEF Spent, Op
    <3> QED BY <2>2, <3>1, FinitePart DEF ProcessPages
  <2>4. CASE kern.hold # None
    <3>1. Spent = 1 + Cardinality(Filled) + Cardinality(Tabled) + 1
      BY <2>4 DEF Spent, Op
    <3>2. kern.va \in ProgramVA
      BY <2>4, HoldsForProgram DEF IInv, Loops
    <3>3. kern.va \notin Filled /\ Filled \cup {kern.va} \subseteq ProgramVA
      <4>1. kern.va \in Int
        BY DEF IInv, TypeOK
      <4> QED BY <3>2, <4>1, FinitePart DEF Filled
    <3>4. Cardinality(Filled \cup {kern.va}) = Cardinality(Filled) + 1
          /\ Cardinality(Filled \cup {kern.va}) <= Cardinality(ProgramVA)
      BY <3>3, FinitePart, FS_AddElement, FS_Subset
    <3> QED BY <2>2, <3>1, <3>4, FinitePart DEF ProcessPages
  <2> QED BY <2>3, <2>4
<1>8. PICK r \in Nat : r = lo + (kern.pid - 1) * ProcessPages + Spent
  BY <1>4, <1>5, <1>6
<1>9. /\ \A q \in Allocatable : q >= next_alloc_pa => pages[q] = 0
      /\ next_alloc_pa + Below(lo) <= r
  BY <1>8 DEF BootRow, BootTakes, Boots
<1>10. lo < r /\ r <= hi + Below(lo)
  BY <1>4, <1>5, <1>6, <1>7, <1>8
<1>11. /\ kalloc # Null /\ next_alloc_pa' + Below(lo) <= r + 1
       /\ \A q \in Allocatable : q >= next_alloc_pa' => pages'[q] = 0 /\ q >= lo
  BY <1>1, <1>5, <1>9, <1>10, KallocRow
<1>12. /\ tables' = [tables EXCEPT ![kern.pid][n] = kalloc] /\ UNCHANGED <<kern, starved>>
  BY <1>11 DEF GrowTable, n
<1>13. \A m \in Nodes : tables'[kern.pid][m] = IF m = n THEN kalloc ELSE tables[kern.pid][m]
  BY <1>2, <1>3, <1>12 DEF IInv, TypeOK
<1>14. Spent' = Spent + 1
  <2>1. Filled' = Filled
    BY <1>12 DEF Filled
  <2>2. Tabled' = Tabled \cup {n} /\ n \notin Tabled
    BY <1>3, <1>11, <1>12, <1>13 DEF Tabled
  <2>3. Cardinality(Tabled') = Cardinality(Tabled) + 1
    BY <2>2, FinitePart, FS_AddElement
  <2>4. CASE kern.hold = None
    <3>1. /\ Spent = 1 + Cardinality(Filled) + Cardinality(Tabled) + 0
          /\ Spent' = 1 + Cardinality(Filled) + Cardinality(Tabled') + 0
      BY <1>12, <2>1, <2>4 DEF Spent, Op
    <3> QED BY <2>3, <3>1, FinitePart
  <2>5. CASE kern.hold # None
    <3>1. /\ Spent = 1 + Cardinality(Filled) + Cardinality(Tabled) + 1
          /\ Spent' = 1 + Cardinality(Filled) + Cardinality(Tabled') + 1
      BY <1>12, <2>1, <2>5 DEF Spent, Op
    <3> QED BY <2>3, <3>1, FinitePart
  <2> QED BY <2>4, <2>5
<1>15. BootTakes(lo)'
  <2>1. next_alloc_pa' \in Nat
    BY KernelConstants DEF IInv, TypeOK
  <2>2. next_alloc_pa' + Below(lo) <= lo + (kern.pid - 1) * ProcessPages + (Spent + 1)
    BY <1>4, <1>5, <1>6, <1>8, <1>11, <2>1
  <2>3. next_alloc_pa' + Below(lo) <= lo + (kern'.pid - 1) * ProcessPages + Spent'
    BY <1>12, <1>14, <2>2
  <2> QED BY <1>11, <1>12, <2>3 DEF BootTakes, Op
<1>16. PastBelow(lo)'
  BY <1>11 DEF PastBelow
<1>17. KernelTables'
  <2> SUFFICES ASSUME Op("setup"), NEW w \in 1..PROC_START-1, w < kern.va
               PROVE  Missing(kern.pid, w)' = {}
    BY <1>12 DEF KernelTables, Op
  <2>1. Missing(kern.pid, w) = {}
    BY DEF BootRow, KernelTables
  <2>2. \A m \in Path[w] : tables'[kern.pid][m] # Null
    <3>1. w \in VA
      BY KernelConstants DEF VA
    <3>2. Path[w] \subseteq Nodes
      BY <3>1, KernelConstants
    <3> QED BY <1>11, <1>13, <2>1, <3>2 DEF Missing
  <2> QED BY <1>12, <2>2 DEF Missing
<1>18. InRow(lo)'
  <2> SUFFICES ASSUME Op("setup") PROVE InRow(lo)'
    BY <1>12 DEF InRow, Op
  <2>1. SegmentOf(kern.va) = {}
    <3>1. Missing(kern.pid, kern.va) # {}
      BY <1>1 DEF NeedsTable
    <3> QED BY <3>1, SegmentTables DEF BootRow
  <2>2. kern.hold = None
    BY <2>1, HoldsForProgram DEF IInv, Loops
  <2>3. \A s \in Segments : ~(s.first < kern.va /\ kern.va <= s.last)
    <3>1. kern.va \in Int /\ \A s \in Segments : s.first \in Int
      BY <1>2, KernelConstants DEF VA, UserVA
    <3> QED BY <2>1, <3>1 DEF SegmentOf
  <2>4. \A s \in Segments, va \in UserVA :
               s.first <= va /\ va <= s.last /\ va < kern.va => map[kern.pid][va].pa = Place(s, va)
    BY DEF BootRow, InRow
  <2> QED BY <1>1, <1>12, <2>2, <2>3, <2>4 DEF InRow, Place
<1> QED BY <1>12, <1>15, <1>16, <1>17, <1>18 DEF BootRow

\* An entry is written, and the loop goes on.
LEMMA InstallRow ==
    ASSUME IInv, IInv', NEW lo \in Pages, BootRow(lo), Install, Op("setup") \/ Op("stack")
    PROVE  BootRow(lo)'
<1>1. /\ Busy /\ HasPage /\ ~NeedsTable /\ map' = [map EXCEPT ![kern.pid][kern.va] = Entry]
      /\ kern' = [kern EXCEPT !.va = @ + 1, !.hold = None]
      /\ UNCHANGED <<pages, next_alloc_pa, tables, starved>>
  BY DEF Install, Advance, Op
<1>2. /\ kern'.op = kern.op /\ kern'.pid = kern.pid /\ kern'.va = kern.va + 1 /\ kern'.hold = None
      /\ kern.va \in Nat
  BY <1>1 DEF IInv, TypeOK
<1>3. kern.pid \in Pids /\ kern.va \in VA
  BY <1>1, LoopFacts DEF IInv, Building, UnderWay
<1>4. \A va \in VA : va < kern.va + 1 <=> va < kern.va \/ va = kern.va
  <2>1. VA \subseteq Int
    BY KernelConstants DEF VA
  <2> QED BY <1>2, <2>1
<1>5. ProgramVA \subseteq VA /\ UserVA \subseteq VA
  BY Sizes DEF ProgramVA
<1>6. kern.hold # None <=> NeedsPage
  BY <1>1 DEF HasPage, IInv, Loops
<1>7. Spent' = Spent
  <2>1. Tabled' = Tabled
    BY <1>1, <1>2 DEF Tabled
  <2>2. Filled' = {va \in ProgramVA : va < kern.va + 1}
    BY <1>2 DEF Filled
  <2>3. Spent' = 1 + Cardinality(Filled') + Cardinality(Tabled) + 0
    BY <1>2, <2>1 DEF Spent, Op
  <2>4. CASE NeedsPage
    <3>1. kern.va \in ProgramVA /\ kern.va \notin Filled
      BY <1>1, <1>2, <2>4, HoldsForProgram DEF Filled
    <3>2. Filled' = Filled \cup {kern.va}
      BY <1>4, <1>5, <2>2, <3>1 DEF Filled
    <3>3. Cardinality(Filled') = Cardinality(Filled) + 1
      BY <3>1, <3>2, FinitePart, FS_AddElement
    <3>4. Spent = 1 + Cardinality(Filled) + Cardinality(Tabled) + 1
      BY <1>6, <2>4 DEF Spent, Op
    <3> QED BY <2>3, <3>3, <3>4, FinitePart
  <2>5. CASE ~NeedsPage
    <3>1. kern.va \notin ProgramVA
      <4>1. Op("setup") /\ SegmentOf(kern.va) = {}
        BY <2>5 DEF NeedsPage, Op
      <4>2. kern.va # STACK
        BY <1>1, <1>2, <4>1, KernelConstants DEF Busy, End, STACK
      <4> QED BY <4>1, <4>2 DEF ProgramVA
    <3>2. Filled' = Filled
      BY <1>4, <1>5, <2>2, <3>1 DEF Filled
    <3>3. Spent = 1 + Cardinality(Filled) + Cardinality(Tabled) + 0
      BY <1>6, <2>5 DEF Spent, Op
    <3> QED BY <2>3, <3>2, <3>3
  <2> QED BY <2>4, <2>5
<1>8. BootTakes(lo)'
  BY <1>1, <1>2, <1>7 DEF BootRow, BootTakes, Boots, Op
<1>9. PastBelow(lo)'
  BY <1>1, <1>2 DEF BootRow, PastBelow, Op
<1>10. KernelTables'
  <2> SUFFICES ASSUME Op("setup"), NEW w \in 1..PROC_START-1, w < kern.va + 1
               PROVE  Missing(kern.pid, w) = {}
    BY <1>1, <1>2 DEF KernelTables, Missing, Op
  <2>1. w \in VA /\ w < PROC_START /\ w # 0
    BY KernelConstants DEF VA
  <2>2. CASE w = kern.va
    <3>1. Entry = KernelEntry(w)
      <4>1. Op("setup") /\ kern.va < PROC_START
        BY <2>1, <2>2
      <4> QED BY <1>2, <2>2, <4>1, KernelConstants DEF Entry, Op
    <3>2. Entry.perm # {}
      BY <2>1, <3>1 DEF KernelEntry, PWU
    <3> QED BY <1>1, <2>2, <3>2 DEF NeedsTable
  <2>3. CASE w # kern.va
    BY <1>4, <2>1, <2>3 DEF BootRow, KernelTables
  <2> QED BY <2>2, <2>3
<1>11. InRow(lo)'
  <2> SUFFICES ASSUME Op("setup") PROVE InRow(lo)'
    BY <1>2 DEF InRow, Op
  <2>1. /\ map'[kern.pid][kern.va] = Entry
        /\ \A va \in VA : va # kern.va => map'[kern.pid][va] = map[kern.pid][va]
    BY <1>1, <1>3 DEF IInv, TypeOK
  <2>2. ASSUME NEW s \in Segments, s.first <= kern.va, kern.va <= s.last
        PROVE  /\ Entry.pa = kern.hold /\ kern.hold # None
               /\ kern.va # s.first => kern.hold = Place(s, kern.va)
    <3>1. kern.va \in UserVA /\ s \in SegmentOf(kern.va)
      BY <1>2, <2>2, KernelConstants DEF UserVA, SegmentOf
    <3>2. NeedsPage
      BY <3>1 DEF NeedsPage, Op
    <3>3. Entry.perm = ProgramPerm(kern.va) /\ (present(Entry) => Entry.pa = kern.hold)
      BY <1>1, <3>1, SetupEntry
    <3>4. present(Entry)
      BY <3>1, <3>3 DEF ProgramPerm, present, PWU
    <3>5. kern.hold # None
      BY <1>6, <3>2
    <3>6. kern.va # s.first => s.first < kern.va
      BY <1>2, <2>2, KernelConstants DEF UserVA
    <3> QED BY <2>2, <3>3, <3>4, <3>5, <3>6 DEF BootRow, InRow
  <2>3. ASSUME NEW s \in Segments, s.first <= kern.va, kern.va <= s.last
        PROVE  /\ Place(s, kern.va)' = map'[kern.pid][s.first].pa + (kern.va + 1 - s.first)
               /\ kern.hold = map'[kern.pid][s.first].pa + (kern.va - s.first)
               /\ next_alloc_pa = kern.hold + 1 /\ next_alloc_pa >= lo
    <3>2. Entry.pa = kern.hold /\ kern.hold # None
          /\ (kern.va # s.first => kern.hold = Place(s, kern.va))
      BY <2>2, <2>3
    <3>1. s.first \in VA /\ s.first \in Int /\ kern.hold \in Int /\ lo \in Int /\ next_alloc_pa \in Int
      <4>1. next_alloc_pa \in Int
        BY KernelConstants DEF IInv, TypeOK
      <4>2. kern.hold \in Pages
        BY <3>2 DEF IInv, TypeOK
      <4>3. lo \in Int /\ kern.hold \in Int
        <5>1. Pages \subseteq Int
          BY Sizes
        <5> QED BY <4>2, <5>1
      <4>4. s.first \in UserVA
        BY KernelConstants
      <4>5. s.first \in VA /\ s.first \in Int
        BY <1>5, <4>4, KernelConstants DEF UserVA
      <4> QED BY <4>1, <4>3, <4>5
    <3>3. kern.hold = map'[kern.pid][s.first].pa + (kern.va - s.first)
      <4>1. CASE kern.va = s.first
        BY <1>2, <2>1, <3>1, <3>2, <4>1
      <4>2. CASE kern.va # s.first
        BY <2>1, <3>1, <3>2, <4>2 DEF Place
      <4> QED BY <4>1, <4>2
    <3>4. next_alloc_pa = kern.hold + 1 /\ kern.hold >= lo
      BY <3>2 DEF BootRow, InRow
    <3>5. Place(s, kern.va)' = map'[kern.pid][s.first].pa + (kern.va + 1 - s.first)
      <4>1. Place(s, kern.va)' = map'[kern'.pid][s.first].pa + (kern'.va - s.first)
        BY DEF Place
      <4> QED BY <1>2, <3>1, <4>1
    <3> QED BY <3>1, <3>3, <3>4, <3>5
  <2>4. ASSUME NEW s \in Segments, NEW va \in UserVA, s.first <= va, va <= s.last, va < kern.va + 1
        PROVE  map'[kern.pid][va].pa = map'[kern.pid][s.first].pa + (va - s.first)
    <3>1. s.first \in VA /\ s.first \in Int /\ va \in Int /\ va \in VA
      BY <1>5, KernelConstants DEF UserVA
    <3>2. CASE va = kern.va
      BY <2>1, <2>2, <2>3, <2>4, <3>2
    <3>3. CASE va # kern.va
      <4>1. va < kern.va /\ s.first # kern.va
        BY <1>2, <1>4, <2>4, <3>1, <3>3
      <4>2. map[kern.pid][va].pa = Place(s, va)
        BY <2>4, <4>1 DEF BootRow, InRow
      <4> QED BY <2>1, <3>1, <3>3, <4>1, <4>2 DEF Place
    <3> QED BY <3>2, <3>3
  <2>5. ASSUME NEW s \in Segments, s.first < kern.va + 1, kern.va + 1 <= s.last
        PROVE  next_alloc_pa = map'[kern.pid][s.first].pa + (kern.va + 1 - s.first) /\ next_alloc_pa >= lo
    <3>1. s.first \in Int /\ s.last \in Int
      BY KernelConstants DEF UserVA
    <3>2. s.first <= kern.va /\ kern.va <= s.last
      BY <1>2, <2>5, <3>1
    <3>3. /\ kern.hold = map'[kern.pid][s.first].pa + (kern.va - s.first)
          /\ next_alloc_pa = kern.hold + 1 /\ next_alloc_pa >= lo
      BY <2>3, <3>2
    <3>4. map'[kern.pid][s.first].pa \in Int
      <4>1. s.first \in VA
        BY <1>5, KernelConstants
      <4>2. map'[kern.pid][s.first].pa \in Pages
        BY <1>3, <4>1 DEF IInv, TypeOK
      <4> QED BY <4>2, Sizes
    <3> QED BY <1>2, <3>1, <3>3, <3>4
  <2>6. \A s \in Segments, va \in UserVA : Place(s, va)' = map'[kern.pid][s.first].pa + (va - s.first)
    BY <1>2 DEF Place
  <2>7. \A s \in Segments, va \in UserVA :
            s.first <= va /\ va <= s.last /\ va < kern'.va => map'[kern'.pid][va].pa = Place(s, va)'
    BY <1>2, <2>4, <2>6
  <2>8. \A s \in Segments : s.first < kern'.va /\ kern'.va <= s.last =>
            next_alloc_pa' = Place(s, kern.va)' /\ next_alloc_pa' >= lo
    <3> SUFFICES ASSUME NEW s \in Segments, s.first < kern'.va, kern'.va <= s.last
                 PROVE  next_alloc_pa' = Place(s, kern.va)' /\ next_alloc_pa' >= lo
      OBVIOUS
    <3>1. next_alloc_pa = map'[kern.pid][s.first].pa + (kern.va + 1 - s.first) /\ next_alloc_pa >= lo
      BY <1>2, <2>5
    <3>2. Place(s, kern.va)' = map'[kern'.pid][s.first].pa + (kern'.va - s.first)
      BY DEF Place
    <3>3. kern'.va - s.first = kern.va + 1 - s.first
      <4>1. s.first \in Int
        BY KernelConstants DEF UserVA
      <4> QED BY <1>2, <4>1
    <3> QED BY <1>1, <1>2, <3>1, <3>2, <3>3
  <2> QED BY <1>2, <2>7, <2>8 DEF InRow
<1> QED BY <1>1, <1>8, <1>9, <1>10, <1>11 DEF BootRow

\* A boot begins with nothing taken.
LEMMA BootBeginsRow ==
    ASSUME NEW lo \in Pages, ~starved, Op("boot"), kern.pid = 1, next_alloc_pa = 0,
           \A q \in Allocatable : pages[q] = 0
    PROVE  BootRow(lo)
<1>1. ProcessPages \in Nat
  <2>1. Cardinality(ProgramVA) \in Nat /\ Cardinality(Nodes) \in Nat
    BY FinitePart
  <2> QED BY <2>1 DEF ProcessPages
<1>2. lo \in Nat /\ Below(lo) <= lo /\ Below(lo) \in {0, 1}
  <2>1. lo \in Nat /\ Allocatable \subseteq Nat
    BY Sizes
  <2> QED BY <2>1 DEF Below
<1>3. Spent = 0
  BY DEF Spent
<1>4. next_alloc_pa + Below(lo) <= lo + (kern.pid - 1) * ProcessPages + Spent
  <2> HIDE DEF ProcessPages
  <2>1. (kern.pid - 1) * ProcessPages = 0
    BY <1>1
  <2> QED BY <1>2, <1>3, <2>1
<1>5. BootTakes(lo)
  BY <1>4 DEF BootTakes
<1>6. PastBelow(lo) /\ KernelTables /\ InRow(lo)
  BY DEF PastBelow, KernelTables, InRow, Op
<1> QED BY <1>5, <1>6 DEF BootRow

\* The boot's order, wherever on the machine the row of pages lies.
RowInv == ProgramsFit => \E lo, hi \in Pages : Fits(lo, hi) /\ BootRow(lo)

LEMMA InitRow == Init => RowInv
<1> SUFFICES ASSUME Init, NEW lo \in Pages, NEW hi \in Pages, Fits(lo, hi)
             PROVE  BootRow(lo)
  BY DEF RowInv, ProgramsFit
<1>1. /\ ~starved /\ Op("boot") /\ kern.pid = 1 /\ next_alloc_pa = 0
      /\ \A q \in Allocatable : pages[q] = 0
  BY Sizes DEF Init, Op
<1> QED BY <1>1, BootBeginsRow

LEMMA RebootRow == ASSUME NEW lo \in Pages, SoftReboot PROVE BootRow(lo)'
<1>1. /\ pages' = [q \in Pages |-> 0] /\ next_alloc_pa' = 0 /\ starved' = FALSE
      /\ Go("boot", 1, 0, None)
  BY DEF SoftReboot
<1>2. kern'.op = "boot" /\ kern'.pid = 1
  BY <1>1 DEF Go
<1>3. ~starved' /\ \A q \in Allocatable : pages'[q] = 0
  BY <1>1, Sizes
<1>4. ProcessPages \in Nat
  <2>1. Cardinality(ProgramVA) \in Nat /\ Cardinality(Nodes) \in Nat
    BY FinitePart
  <2> QED BY <2>1 DEF ProcessPages
<1>5. lo \in Nat /\ Below(lo) <= lo /\ Below(lo) \in {0, 1}
  <2>1. lo \in Nat /\ Allocatable \subseteq Nat
    BY Sizes
  <2> QED BY <2>1 DEF Below
<1>6. Spent' = 0
  BY <1>2 DEF Spent, Op
<1>7. next_alloc_pa' + Below(lo) <= lo + (kern'.pid - 1) * ProcessPages + Spent'
  <2> HIDE DEF ProcessPages
  <2>1. (kern'.pid - 1) * ProcessPages = 0
    BY <1>2, <1>4
  <2> QED BY <1>1, <1>5, <1>6, <2>1
<1>8. BootTakes(lo)'
  BY <1>1, <1>3, <1>7 DEF BootTakes
<1>9. PastBelow(lo)' /\ KernelTables' /\ InRow(lo)'
  BY <1>2 DEF PastBelow, KernelTables, InRow, Op
<1> QED BY <1>3, <1>8, <1>9 DEF BootRow

LEMMA BootDoneRow ==
    ASSUME NEW lo \in Pages, ~starved, BootDone
    PROVE  BootRow(lo)'
<1>1. ~starved' /\ kern'.op \in {"user", "panic"}
  BY DEF BootDone, ReturnToUser, Go
<1> QED BY <1>1, RowElsewhere

\* fork and page_alloc take memory after the boot.
LEMMA CallRow ==
    ASSUME IInv, NEW lo \in Pages, ~starved, ~Op("setup"), ~Op("stack"),
           TakePage \/ GrowTable \/ Install
    PROVE  BootRow(lo)'
<1>1. Op("fork") \/ Op("alloc")
  BY DEF TakePage, GrowTable, Install, Busy, Building
<1>2. starved \in BOOLEAN
  BY DEF IInv, TypeOK
<1>3. ~NeedsPage \/ Op("fork")
  BY <1>1 DEF NeedsPage, Op
<1>4. kern'.op \in {"fork", "alloc", "exit", "user"}
  <2>1. kern.op \in {"fork", "alloc"}
    BY <1>1 DEF Op
  <2>2. \/ kern' = kern \/ ReturnToUser \/ FailFork
        \/ kern' = [kern EXCEPT !.hold = kalloc]
        \/ kern' = [kern EXCEPT !.va = @ + 1, !.hold = None]
    <3>1. CASE TakePage
      BY <3>1 DEF TakePage
    <3>2. CASE GrowTable
      BY <3>2 DEF GrowTable, Advance
    <3>3. CASE Install
      BY <3>3 DEF Install, Advance
    <3> QED BY <3>1, <3>2, <3>3
  <2>3. CASE ReturnToUser \/ FailFork
    BY <2>3 DEF ReturnToUser, FailFork, Go
  <2>4. CASE ~(ReturnToUser \/ FailFork)
    <3>1. kern'.op = kern.op
      BY <2>2, <2>4 DEF IInv, TypeOK
    <3> QED BY <2>1, <3>1
  <2> QED BY <2>3, <2>4
<1>5. starved' = starved
  <2>1. CASE TakePage
    <3>1. starved' = (starved \/ (kalloc = Null /\ ~Op("fork")))
      BY <2>1, Zenon DEF TakePage
    <3>2. Op("fork")
      BY <1>3, <2>1 DEF TakePage
    <3> QED BY <3>1, <3>2, <1>2, Zenon
  <2>2. CASE GrowTable
    <3>1. (starved' = starved) \/ starved' = (starved \/ Op("setup") \/ Op("stack"))
      BY <2>2, Zenon DEF GrowTable
    <3> QED BY <3>1, <1>2, Zenon
  <2>3. CASE Install
    BY <2>3 DEF Install
  <2> QED BY <2>1, <2>2, <2>3
<1>6. ~starved'
  BY <1>5, Zenon
<1> QED BY <1>4, <1>6, RowElsewhere

\* So do all other steps.
LEMMA QuietRow ==
    ASSUME IInv, NEW lo \in Pages, ~starved,
           \/ ForkDone \/ FreeUserPage \/ FreeTable \/ FreeRoot \/ DropHeld
           \/ UserStep \/ Memshow \/ Timer
    PROVE  BootRow(lo)'
<1>1. starved' = starved
  BY Zenon DEF ForkDone, FreeUserPage, FreeTable, FreeRoot, DropHeld, UserStep, ForkStart, ExitStart,
     PageFault, Panic, PageAlloc, UserWrite, Memshow, Timer
<1>2. ~starved'
  BY <1>1, Zenon
<1>3. CASE ForkDone \/ DropHeld \/ ExitStart \/ Panic
  BY <1>2, <1>3, RowElsewhere DEF ForkDone, DropHeld, ExitStart, Panic, ReturnToUser, Go
<1>4. CASE FreeUserPage \/ FreeTable
  <2>1. kern'.op = "exit"
    BY <1>4 DEF FreeUserPage, FreeTable, Op, IInv, TypeOK
  <2> QED BY <1>2, <2>1, RowElsewhere
<1>5. CASE FreeRoot
  <2>1. kern'.op \in {"user", "idle", "drop"}
    BY <1>5 DEF FreeRoot, schedule, ReturnToUser, Go, IInv, TypeOK
  <2> QED BY <1>2, <2>1, RowElsewhere
<1>6. CASE Timer \/ PageFault
  <2>1. kern'.op \in {"user", "idle"}
    BY <1>6 DEF Timer, PageFault, schedule, ReturnToUser, Go
  <2> QED BY <1>2, <2>1, RowElsewhere
<1>7. CASE ForkStart \/ Memshow \/ \E va \in VA : PageAlloc(va)
  <2>1. \/ kern' = kern /\ Op("user")
        \/ \E op \in {"fork", "alloc", "panic"} : \E p, va, hold : Go(op, p, va, hold)
    <3>1. CASE ForkStart
      BY <3>1 DEF ForkStart, Trap
    <3>2. CASE Memshow
      BY <3>2 DEF Memshow
    <3>3. CASE \E va \in VA : PageAlloc(va)
      BY <3>3 DEF PageAlloc, Trap
    <3> QED BY <1>7, <3>1, <3>2, <3>3
  <2>2. kern'.op \in {"user", "fork", "alloc", "panic"}
    BY <2>1 DEF Go, Op
  <2> QED BY <1>2, <2>2, RowElsewhere
<1>8. CASE \E va \in UserVA, v \in UserValue : UserWrite(va, v)
  <2>1. kern'.op = "user"
    BY <1>8 DEF UserWrite, Op
  <2> QED BY <1>2, <2>1, RowElsewhere
<1> QED BY <1>3, <1>4, <1>5, <1>6, <1>7, <1>8 DEF UserStep

LEMMA StepRow == IInv /\ IInv' /\ RowInv /\ [Next]_vars => RowInv'
<1> SUFFICES ASSUME IInv, IInv', [Next]_vars,
                    NEW lo \in Pages, NEW hi \in Pages, Fits(lo, hi), BootRow(lo)
             PROVE  BootRow(lo)'
  BY DEF RowInv
<1>0. ~starved
  BY DEF BootRow
<1>1. CASE SetupStart
  BY <1>1, SetupStartRow
<1>2. CASE Load
  BY <1>2, LoadRow
<1>3. CASE SetupDone
  BY <1>3, SetupDoneRow
<1>4. CASE BootDone
  BY <1>0, <1>4, BootDoneRow
<1>5. CASE (TakePage \/ GrowTable \/ Install) /\ ~Op("setup") /\ ~Op("stack")
  BY <1>0, <1>5, CallRow
<1>6. CASE TakePage /\ (Op("setup") \/ Op("stack"))
  BY <1>6, TakePageRow
<1>7. CASE GrowTable /\ (Op("setup") \/ Op("stack"))
  BY <1>7, GrowTableRow
<1>8. CASE Install /\ (Op("setup") \/ Op("stack"))
  BY <1>8, InstallRow
<1>9. CASE \/ ForkDone \/ FreeUserPage \/ FreeTable \/ FreeRoot \/ DropHeld
           \/ UserStep \/ Memshow \/ Timer
  BY <1>0, <1>9, QuietRow
<1>10. CASE SoftReboot
  BY <1>10, RebootRow
<1>11. CASE UNCHANGED vars
  BY <1>11 DEF vars, memory, procs, BootRow, BootTakes, PastBelow, KernelTables, InRow, Boots,
               Spent, Filled, Tabled, Place, Missing, Op
<1> QED BY <1>1, <1>2, <1>3, <1>4, <1>5, <1>6, <1>7, <1>8, <1>9, <1>10, <1>11
        DEF Next, KernelStep

\* When the segments lie in a row up to the stack they are all in a row.
LEMMA RowInOrder == IInv /\ RowInv => (ProgramsFit => LoadedInOrder)
<1> SUFFICES ASSUME IInv, NEW lo \in Pages, BootRow(lo) PROVE LoadedInOrder
  BY DEF RowInv
<1>1. \A s \in Segments, va \in UserVA : s.first <= va /\ va <= s.last => va < STACK
  BY KernelConstants DEF UserVA, STACK
<1> QED BY <1>1 DEF BootRow, InRow, Place, LoadedInOrder

\* On such a machine, after every restart, there is memory for each process
\* and a segment has its pages in a row, though tables are taken from the same
\* memory.
THEOREM BootsInOrder == Spec => [](ProgramsFit => LoadedInOrder)
BY InitRow, StepRow, Invariance, RowInOrder, PTL DEF Spec

\* On such a machine the kernel gives every process a memory of its own: no
\* system call, fault or exhaustion of memory lets one process change what
\* another sees, and a child starts with what its parent had.
THEOREM MemoriesPrivate == ProgramsFit => (Spec => ImplementsProcessMemory)
<1>1. ProgramsFit => ProgramsFit'
  OBVIOUS
<1>2. ProgramsFit /\ Spec => Spec /\ []LoadedInOrder
  BY <1>1, BootsInOrder, PTL
<1> QED BY <1>2, PrivateIfInOrder, PTL
=============================================================================
