----------------------------- MODULE WeensyKernel -----------------------------
(***************************************************************************)
(* The WeensyOS kernel: physical page allocation with reference counts,    *)
(* page tables, process creation, fork, exit, page_alloc and the round     *)
(* robin scheduler (weensyos/kernel.cc, k-vmiter.cc).                      *)
(*                                                                         *)
(* The kernel is not preemptible: while kern.op is not "user" no process   *)
(* runs.  Its loops are still one step per iteration, so that every point  *)
(* at which memory can run out is a state.  Addresses are page numbers.    *)
(* A page table is the root page, the inner nodes it has (tables) and the  *)
(* entries of its leaves (map); entries of a table that is being released  *)
(* are cleared as the loop passes them, because nothing reads them again.  *)
(***************************************************************************)
EXTENDS Integers, FiniteSets

CONSTANTS NPROC,          \* process slots; slot 0 is never used
          NPAGES,         \* physical pages
          Allocatable,    \* the pages kalloc may hand out
          MEMSIZE_VIRTUAL,\* pages of virtual memory
          PROC_START,     \* first page a program may use
          CONSOLE,        \* the console page
          Segments,       \* loadable segments: first, last, writable
          Nodes,          \* inner page table nodes, a parent before a child
          Path,           \* Path[va]: the nodes on the way to va's leaf
          UserValue,      \* what programs write
          BootCounts,     \* how many processes kernel() may set up
          MaxLost         \* bound on the pages page_alloc loses, and on the
                          \* references to one page

Pids  == 0..NPROC-1
Pages == 0..NPAGES-1
VA    == 0..MEMSIZE_VIRTUAL-1
UserVA == PROC_START..MEMSIZE_VIRTUAL-1
STACK == MEMSIZE_VIRTUAL - 1
Null  == 0      \* the null pointer; physical page 0 is reserved
None  == -1     \* no page held by the running loop

ASSUME KernelConstants ==
    /\ NPROC \in Nat /\ NPROC >= 2
    /\ NPAGES \in Nat \ {0}
    /\ Allocatable \subseteq Pages \ {Null, CONSOLE}
    /\ MEMSIZE_VIRTUAL \in Nat /\ PROC_START \in Nat /\ CONSOLE \in Nat
    /\ Null < CONSOLE /\ CONSOLE < PROC_START /\ PROC_START < MEMSIZE_VIRTUAL
    /\ PROC_START <= NPAGES
    /\ Segments \subseteq [first: UserVA, last: UserVA, writable: BOOLEAN]
    /\ \A s \in Segments : s.first <= s.last /\ s.last < STACK
    /\ \A s, t \in Segments : s = t \/ s.last < t.first \/ t.last < s.first
    /\ Nodes \subseteq Nat /\ IsFiniteSet(Nodes)
    /\ Path \in [VA -> SUBSET Nodes]
    /\ BootCounts \subseteq 1..NPROC-1
    /\ MaxLost \in Nat /\ NPROC + MaxLost < 255
    /\ UserValue \cap {"zero", "int3", "text", "data", "absent"} = {}

Value == {"zero", "int3", "text", "data"} \cup UserValue

Perm == SUBSET {"P", "W", "U"}
PWU  == {"P", "W", "U"}
NoEntry == [pa |-> Null, perm |-> {}]

VARIABLES pages,          \* reference count of every physical page
          next_alloc_pa,  \* where kalloc starts to search
          mem,            \* content of every physical page
          state,          \* ptable[].state
          root,           \* ptable[].pagetable, Null when there is none
          tables,         \* the page of every inner node, Null when missing
          map,            \* the leaf entries of every page table
          current,        \* the running process
          kern,           \* where the kernel is: op, pid, va, hold
          nboot,          \* how many processes the boot command asks for
          viewer,         \* the page of the memory viewer, Null before its first use
          starved,        \* history: process_setup ran out of memory
          lost            \* history: references dropped without a kfree

memory == <<pages, next_alloc_pa, mem>>
procs  == <<state, root, tables, map>>
vars   == <<memory, procs, current, kern, nboot, viewer, starved, lost>>

Op(op) == kern.op = op
Go(op, pid, va, hold) == kern' = [op |-> op, pid |-> pid, va |-> va, hold |-> hold]
ReturnToUser == Go("user", Null, 0, None)

-----------------------------------------------------------------------------
(* vmiter: what an entry allows.                                           *)

present(e)  == "P" \in e.perm
writable(e) == {"P", "W"} \subseteq e.perm
user(e)     == {"P", "U"} \subseteq e.perm

\* The entry kernel() gives va in the kernel's own page table.
KernelEntry(va) ==
    IF va = 0 THEN NoEntry
    ELSE [pa |-> va, perm |-> IF va < PROC_START /\ va # CONSOLE
                              THEN {"P", "W"} ELSE PWU]

\* The inner nodes try_map still has to allocate on its way to va's leaf.
Missing(pid, va) == {n \in Path[va] : tables[pid][n] = Null}

Least(S)    == CHOOSE n \in S : \A m \in S : n <= m
Greatest(S) == CHOOSE n \in S : \A m \in S : m <= n

-----------------------------------------------------------------------------
(* kalloc and kfree.                                                       *)

FreePages ==
    {q \in Allocatable : q >= next_alloc_pa /\ pages[q] = 0}

kalloc == IF FreePages = {} THEN Null ELSE Least(FreePages)

\* kalloc returns pa, and its caller fills the page with v.
Kalloc(pa, v) ==
    /\ pa = kalloc
    /\ next_alloc_pa' = IF pa = Null THEN NPAGES ELSE pa + 1
    /\ pages' = IF pa = Null THEN pages ELSE [pages EXCEPT ![pa] = 1]
    /\ mem' = IF pa = Null THEN mem ELSE [mem EXCEPT ![pa] = v]

\* Mutant: the search start is not moved back.
MutantKfreeKeepsStart(pa) ==
    /\ pages' = IF pa \in Allocatable /\ pages[pa] # 0
                THEN [pages EXCEPT ![pa] = @ - 1] ELSE pages
    /\ UNCHANGED <<next_alloc_pa, mem>>

\* What a free page holds is dead, for kalloc fills the page with 0xCC before
\* anyone reads it; the model fills it when the last reference goes.
Kfree(pa) ==
    /\ pages' = IF pa \in Allocatable /\ pages[pa] # 0
                THEN [pages EXCEPT ![pa] = @ - 1] ELSE pages
    /\ next_alloc_pa' = IF pa # Null /\ pa < next_alloc_pa THEN pa ELSE next_alloc_pa
    /\ mem' = IF pa \in Allocatable /\ pages'[pa] = 0 THEN [mem EXCEPT ![pa] = "int3"] ELSE mem

-----------------------------------------------------------------------------
(* schedule: the next runnable slot after the current one.                 *)

\* Mutant: the search always begins at slot 0.
MutantSearchFromZero(from, to) == to

Distance(from, to) == (to - from - 1) % NPROC

NextRunnable(from, st) ==
    CHOOSE q \in Pids : /\ st[q] = "RUNNABLE"
                        /\ \A r \in Pids : st[r] = "RUNNABLE" =>
                               Distance(from, q) <= Distance(from, r)

schedule(st) ==
    IF \E q \in Pids : st[q] = "RUNNABLE"
    THEN current' = NextRunnable(current, st) /\ ReturnToUser
    ELSE UNCHANGED current /\ Go("idle", Null, 0, None)

-----------------------------------------------------------------------------
(* Building a page table: process_setup ("setup", then "stack" once the    *)
(* segments are loaded), fork and page_alloc walk over virtual addresses;  *)
(* at each one they may take a page, then try_map allocates missing nodes, *)
(* then the leaf entry is written.                                         *)

SegmentOf(va) == {s \in Segments : s.first <= va /\ va <= s.last}

Source == map[current][kern.va]     \* the entry of the process that called

\* Mutant: fork shares writable pages as well.
MutantShareWritable ==
    CASE Op("setup") -> SegmentOf(kern.va) # {}
      [] Op("stack") -> TRUE
      [] OTHER       -> FALSE

NeedsPage ==
    CASE Op("setup") -> SegmentOf(kern.va) # {}
      [] Op("stack") -> TRUE
      [] Op("fork")  -> user(Source) /\ writable(Source) /\ kern.va # CONSOLE
      [] OTHER       -> FALSE

\* Mutant: fork skips what the program cannot access.
MutantEntryUserOnly ==
    CASE Op("setup") /\ kern.va < PROC_START -> KernelEntry(kern.va)
      [] Op("setup") /\ kern.va >= PROC_START ->
             IF NeedsPage
             THEN [pa |-> kern.hold,
                   perm |-> IF \E s \in SegmentOf(kern.va) : s.writable
                            THEN PWU ELSE {"P", "U"}]
             ELSE NoEntry
      [] Op("fork") -> IF ~user(Source) THEN NoEntry
                       ELSE IF NeedsPage THEN [Source EXCEPT !.pa = kern.hold] ELSE Source
      [] OTHER -> [pa |-> kern.hold, perm |-> PWU]

Entry ==
    CASE Op("setup") /\ kern.va < PROC_START ->
             KernelEntry(kern.va)
      [] Op("setup") /\ kern.va >= PROC_START ->
             IF NeedsPage
             THEN [pa |-> kern.hold,
                   perm |-> IF \E s \in SegmentOf(kern.va) : s.writable
                            THEN PWU ELSE {"P", "U"}]
             ELSE NoEntry
      [] Op("fork") -> IF NeedsPage THEN [Source EXCEPT !.pa = kern.hold] ELSE Source
      [] OTHER -> [pa |-> kern.hold, perm |-> PWU]

Building == Op("setup") \/ Op("stack") \/ Op("fork") \/ Op("alloc")
End == IF Op("setup") THEN STACK ELSE MEMSIZE_VIRTUAL
Busy == Building /\ kern.va < End
HasPage == NeedsPage => kern.hold # None

\* Mutant: the page in hand is forgotten.
MutantForgetHeld == Go("exit", kern.pid, PROC_START, None)

\* fork: out of memory.  The child is released, then the page it held.
FailFork == Go("exit", kern.pid, PROC_START, kern.hold)

\* process_setup does not test what kalloc returns.
TakePage ==
    /\ Busy /\ NeedsPage /\ kern.hold = None
    /\ Kalloc(kalloc, IF Op("fork") THEN mem[Source.pa] ELSE "int3")
    /\ IF kalloc = Null /\ Op("fork")
       THEN FailFork
       ELSE kern' = [kern EXCEPT !.hold = kalloc]
    /\ starved' = (starved \/ (kalloc = Null /\ ~Op("fork")))
    /\ UNCHANGED <<procs, current, nboot, viewer, lost>>

\* The loop goes on with the next address; page_alloc returns.
Advance ==
    IF Op("alloc") THEN ReturnToUser
    ELSE kern' = [kern EXCEPT !.va = @ + 1, !.hold = None]

NeedsTable == Entry.perm # {} /\ Missing(kern.pid, kern.va) # {}

Lose(pa) == lost' = [lost EXCEPT ![pa] = @ + 1]

\* One turn of try_map's loop.  Only fork tests its result; page_alloc returns
\* and process_setup goes on with the page they took in nobody's table.
GrowTable ==
    /\ Busy /\ HasPage /\ NeedsTable
    /\ Kalloc(kalloc, "zero")
    /\ IF kalloc # Null
       THEN /\ tables' = [tables EXCEPT
                 ![kern.pid][Least(Missing(kern.pid, kern.va))] = kalloc]
            /\ UNCHANGED <<kern, starved, lost>>
       ELSE /\ IF Op("fork") THEN FailFork ELSE Advance
            /\ starved' = (starved \/ Op("setup") \/ Op("stack"))
            /\ IF ~Op("fork") /\ kern.hold \in Allocatable
               THEN Lose(kern.hold) ELSE UNCHANGED lost
            /\ UNCHANGED tables
    /\ UNCHANGED <<state, root, map, current, nboot, viewer>>

\* The leaf entry; fork counts the second reference to a read-only page, and
\* page_alloc overwrites an entry without giving its page back.
Install ==
    /\ Busy /\ HasPage /\ ~NeedsTable
    /\ map' = [map EXCEPT ![kern.pid][kern.va] = Entry]
    /\ pages' = IF Op("fork") /\ present(Source) /\ ~writable(Source)
                THEN [pages EXCEPT ![Source.pa] = (@ + 1) % 256] ELSE pages
    /\ IF Op("alloc") /\ present(Source) THEN Lose(Source.pa) ELSE UNCHANGED lost
    /\ Advance
    /\ UNCHANGED <<next_alloc_pa, mem, state, root, tables, current, nboot, viewer, starved>>

-----------------------------------------------------------------------------
(* kernel() and process_setup.                                             *)

Init ==
    /\ pages = [q \in Pages |-> 0]
    /\ next_alloc_pa = 0
    /\ mem = [q \in Pages |-> "int3"]
    /\ state = [p \in Pids |-> "FREE"]
    /\ root = [p \in Pids |-> Null]
    /\ tables = [p \in Pids |-> [n \in Nodes |-> Null]]
    /\ map = [p \in Pids |-> [va \in VA |-> NoEntry]]
    /\ current = 0
    /\ nboot \in BootCounts /\ viewer = Null
    /\ starved = FALSE /\ lost = [q \in Pages |-> 0]
    /\ kern = [op |-> "boot", pid |-> 1, va |-> 0, hold |-> None]

\* process_setup takes the root page, or gives up in silence.
SetupStart ==
    /\ Op("boot") /\ kern.pid <= nboot
    /\ Kalloc(kalloc, "zero")
    /\ root' = [root EXCEPT ![kern.pid] = kalloc]
    /\ IF kalloc = Null THEN kern' = [kern EXCEPT !.pid = @ + 1]
                        ELSE Go("setup", kern.pid, 0, None)
    /\ starved' = (starved \/ kalloc = Null)
    /\ UNCHANGED <<state, tables, map, current, nboot, viewer, lost>>

\* The segments are copied to consecutive PHYSICAL pages, starting where
\* the segment's first page is; without that page the kernel faults.
Load ==
    /\ Op("setup") /\ kern.va = STACK
    /\ LET First(s) == map[kern.pid][s.first].pa
       IN IF \E s \in Segments : First(s) = Null
          THEN Go("panic", Null, 0, None) /\ UNCHANGED mem
          ELSE /\ mem' = [q \in Pages |->
                     IF \E s \in Segments : q \in First(s)..First(s) + s.last - s.first
                     THEN IF \E s \in Segments :
                                 s.writable /\ q \in First(s)..First(s) + s.last - s.first
                          THEN "data" ELSE "text"
                     ELSE mem[q]]
               /\ kern' = [kern EXCEPT !.op = "stack"]
    /\ UNCHANGED <<pages, next_alloc_pa, procs, current, nboot, viewer, starved, lost>>

SetupDone ==
    /\ Op("stack") /\ kern.va = End
    /\ state' = [state EXCEPT ![kern.pid] = "RUNNABLE"]
    /\ Go("boot", kern.pid + 1, 0, None)
    /\ UNCHANGED <<memory, root, tables, map, current, nboot, viewer, starved, lost>>

\* run(&ptable[1]) asserts that the first process is runnable.
BootDone ==
    /\ Op("boot") /\ kern.pid > nboot
    /\ IF state[1] = "RUNNABLE"
       THEN current' = 1 /\ ReturnToUser
       ELSE Go("panic", Null, 0, None) /\ UNCHANGED current
    /\ UNCHANGED <<memory, procs, nboot, viewer, starved, lost>>

-----------------------------------------------------------------------------
(* fork and exit.                                                          *)

\* A system call or an exception; the first one gives memshow its page.
Trap == Op("user") /\ viewer # Null

\* memusage::refresh, on the first trap: kalloc's result is asserted.
Memshow ==
    /\ Op("user") /\ viewer = Null
    /\ Kalloc(kalloc, "zero")
    /\ viewer' = kalloc
    /\ IF kalloc = Null THEN Go("panic", Null, 0, None) ELSE UNCHANGED kern
    /\ UNCHANGED <<procs, current, nboot, starved, lost>>

FreeSlots == {p \in 1..NPROC-1 : state[p] = "FREE"}

\* Without a slot or a root page fork returns -1 at once.
ForkStart ==
    /\ Trap
    /\ IF FreeSlots = {}
       THEN UNCHANGED <<memory, root, kern>>
       ELSE /\ Kalloc(kalloc, "zero")
            /\ IF kalloc = Null
               THEN UNCHANGED <<root, kern>>
               ELSE /\ root' = [root EXCEPT ![Least(FreeSlots)] = kalloc]
                    /\ Go("fork", Least(FreeSlots), 0, None)
    /\ UNCHANGED <<state, tables, map, current, nboot, viewer, starved, lost>>

ForkDone ==
    /\ Op("fork") /\ kern.va = End
    /\ state' = [state EXCEPT ![kern.pid] = "RUNNABLE"]
    /\ ReturnToUser
    /\ UNCHANGED <<memory, root, tables, map, current, nboot, viewer, starved, lost>>

ExitStart ==
    /\ Trap
    /\ Go("exit", current, PROC_START, None)
    /\ UNCHANGED <<memory, procs, current, nboot, viewer, starved, lost>>

\* syscall_exit_assist: one virtual address, then one table page, then the
\* root page and the slot.
FreeUserPage ==
    /\ Op("exit") /\ kern.va < MEMSIZE_VIRTUAL
    /\ IF user(map[kern.pid][kern.va]) /\ kern.va # CONSOLE
       THEN Kfree(map[kern.pid][kern.va].pa) ELSE UNCHANGED memory
    /\ map' = [map EXCEPT ![kern.pid][kern.va] = NoEntry]
    /\ kern' = [kern EXCEPT !.va = @ + 1]
    /\ UNCHANGED <<state, root, tables, current, nboot, viewer, starved, lost>>

TableNodes == {n \in Nodes : tables[kern.pid][n] # Null}

FreeTable ==
    /\ Op("exit") /\ kern.va = MEMSIZE_VIRTUAL /\ TableNodes # {}
    /\ Kfree(tables[kern.pid][Greatest(TableNodes)])
    /\ tables' = [tables EXCEPT ![kern.pid][Greatest(TableNodes)] = Null]
    /\ UNCHANGED <<state, root, map, current, kern, nboot, viewer, starved, lost>>

FreeRoot ==
    /\ Op("exit") /\ kern.va = MEMSIZE_VIRTUAL /\ TableNodes = {}
    /\ Kfree(root[kern.pid])
    /\ root' = [root EXCEPT ![kern.pid] = Null]
    /\ map' = [map EXCEPT ![kern.pid] = [va \in VA |-> NoEntry]]
    /\ state' = [state EXCEPT ![kern.pid] = "FREE"]
    /\ IF kern.pid = current
       THEN schedule(state')
       ELSE /\ IF kern.hold = None THEN ReturnToUser
                                   ELSE kern' = [kern EXCEPT !.op = "drop"]
            /\ UNCHANGED current
    /\ UNCHANGED <<tables, nboot, viewer, starved, lost>>

\* fork gives back the page it could not map.
DropHeld ==
    /\ Op("drop")
    /\ Kfree(kern.hold)
    /\ ReturnToUser
    /\ UNCHANGED <<procs, current, nboot, viewer, starved, lost>>

-----------------------------------------------------------------------------
(* page_alloc, the timer, faults and what programs do.                     *)

\* Allocating at va may lose a page: there is one, or a table is missing.
MayLose(va) == present(map[current][va]) \/ Missing(current, va) # {}

\* Mutant: the new page is not cleared.
MutantNotCleared(va) ==
    /\ Trap
    /\ va \in UserVA /\ ~present(map[current][va])
    /\ Kalloc(kalloc, "int3")
    /\ IF kalloc = Null THEN UNCHANGED kern ELSE Go("alloc", current, va, kalloc)
    /\ UNCHANGED <<procs, current, nboot, viewer, starved, lost>>

PageAlloc(va) ==
    /\ Trap
    /\ (va \in UserVA /\ MayLose(va)) =>
           /\ Cardinality({q \in Pages : lost[q] # 0}) < MaxLost
           /\ \A q \in Pages : lost[q] < MaxLost
    /\ IF va \notin UserVA
       THEN UNCHANGED <<memory, kern>>
       ELSE /\ Kalloc(kalloc, "zero")
            /\ IF kalloc = Null THEN UNCHANGED kern
                                ELSE Go("alloc", current, va, kalloc)
    /\ UNCHANGED <<procs, current, nboot, viewer, starved, lost>>

\* A timer interrupt, or sys_yield.
Timer ==
    /\ Trap
    /\ schedule(state)
    /\ UNCHANGED <<memory, procs, nboot, viewer, starved, lost>>

\* Mutant: a faulting process is left blocked.
MutantBlocks ==
    /\ Trap
    /\ state' = [state EXCEPT ![current] = "BLOCKED"]
    /\ schedule(state')
    /\ UNCHANGED <<memory, root, tables, map, nboot, viewer, starved, lost>>

PageFault ==
    /\ Trap
    /\ state' = [state EXCEPT ![current] = "BROKEN"]
    /\ schedule(state')
    /\ UNCHANGED <<memory, root, tables, map, nboot, viewer, starved, lost>>

Panic ==
    /\ Trap
    /\ Go("panic", Null, 0, None)
    /\ UNCHANGED <<memory, procs, current, nboot, viewer, starved, lost>>

\* The running program stores v in one of its pages.
UserWrite(va, v) ==
    /\ Op("user")
    /\ user(map[current][va]) /\ writable(map[current][va])
    /\ mem' = [mem EXCEPT ![map[current][va].pa] = v]
    /\ UNCHANGED <<pages, next_alloc_pa, procs, current, kern, nboot, viewer, starved, lost>>

\* check_keyboard: a key restarts the kernel with its initial data, whatever
\* it was doing when a trap, the idle loop or fail() looked at the keyboard.
SoftReboot ==
    /\ Op("user") \/ Op("idle") \/ Op("panic")
    /\ pages' = [q \in Pages |-> 0]
    /\ next_alloc_pa' = 0
    /\ mem' = [q \in Pages |-> "int3"]
    /\ state' = [p \in Pids |-> "FREE"]
    /\ root' = [p \in Pids |-> Null]
    /\ tables' = [p \in Pids |-> [n \in Nodes |-> Null]]
    /\ map' = [p \in Pids |-> [va \in VA |-> NoEntry]]
    /\ current' = 0
    /\ nboot' \in BootCounts /\ viewer' = Null
    /\ starved' = FALSE /\ lost' = [q \in Pages |-> 0]
    /\ Go("boot", 1, 0, None)

KernelStep ==
    \/ SetupStart \/ Load \/ SetupDone \/ BootDone
    \/ TakePage \/ GrowTable \/ Install
    \/ ForkDone \/ FreeUserPage \/ FreeTable \/ FreeRoot \/ DropHeld

UserStep ==
    \/ ForkStart \/ ExitStart \/ PageFault \/ Panic
    \/ \E va \in VA : PageAlloc(va)
    \/ \E va \in UserVA, v \in UserValue : UserWrite(va, v)

Next == KernelStep \/ UserStep \/ Memshow \/ Timer \/ SoftReboot

\* The kernel keeps executing, and a timer interrupt that becomes pending
\* while the kernel runs is delivered when a process runs again; the first
\* one finds no viewer.
Fairness == WF_vars(KernelStep) /\ SF_vars(Memshow \/ Timer)

Spec == Init /\ [][Next]_vars /\ Fairness

-----------------------------------------------------------------------------
(* Properties.                                                             *)

\* The variables have the types of kernel.hh.
TypeOK ==
    /\ pages \in [Pages -> 0..255]
    /\ next_alloc_pa \in 0..NPAGES
    /\ mem \in [Pages -> Value]
    /\ state \in [Pids -> {"FREE", "RUNNABLE", "BROKEN"}]
    /\ root \in [Pids -> Pages]
    /\ tables \in [Pids -> [Nodes -> Pages]]
    /\ map \in [Pids -> [VA -> [pa: Pages, perm: Perm]]]
    /\ current \in Pids
    /\ kern \in [op: {"boot", "setup", "stack", "fork", "alloc", "exit", "drop",
                      "user", "idle", "panic"},
                 pid: 0..NPROC, va: 0..MEMSIZE_VIRTUAL, hold: Pages \cup {None}]
    /\ nboot \in BootCounts
    /\ viewer \in Pages
    /\ starved \in BOOLEAN
    /\ lost \in [Pages -> 0..255]

\* kfree moves the search start back and kalloc moves it on; a free page is
\* never behind it, so kalloc fails only when there is no free page at all.
NoFreePageLost ==
    \A q \in Allocatable : pages[q] = 0 => q >= next_alloc_pa

\* Everything that refers to an allocatable page: leaves of page tables,
\* inner nodes, roots, the page a kernel loop holds and the viewer's.
LeafRefs(q)  == {l \in Pids \X UserVA : /\ present(map[l[1]][l[2]])
                                         /\ map[l[1]][l[2]].pa = q}
TableRefs(q) == {t \in Pids \X Nodes : tables[t[1]][t[2]] = q}
RootRefs(q)  == {p \in Pids : root[p] = q}
Refs(q) ==
      Cardinality(LeafRefs(q)) + Cardinality(TableRefs(q)) + Cardinality(RootRefs(q))
    + (IF kern.hold = q THEN 1 ELSE 0) + (IF viewer = q THEN 1 ELSE 0)

\* Through fork's sharing, every out-of-memory path and exit, a page's count
\* is exactly the number of references to it, but for the references that
\* page_alloc and process_setup have lost: nothing else leaks and nothing is
\* freed while in use.
RefcountExact == \A q \in Allocatable : pages[q] = Refs(q) + lost[q]

\* What a live process can write belongs to it alone; what a process can
\* read is its own or a read-only page; and page table pages are never
\* mapped in a program.
Isolation ==
    ~starved => \A p \in Pids, va \in UserVA :
        LET e == map[p][va] IN
        present(e) =>
            /\ e.pa \in Allocatable /\ pages[e.pa] # 0 /\ e.pa # viewer
            /\ \A r \in Pids : e.pa # root[r] /\ \A n \in Nodes : e.pa # tables[r][n]
            /\ \A r \in Pids, w \in UserVA :
                   <<r, w>> # <<p, va>> /\ present(map[r][w]) /\ map[r][w].pa = e.pa
                       => ~writable(e) /\ ~writable(map[r][w]) /\ w = va

\* check_pagetable in run(): the process that runs has the kernel mapped at
\* its own address, without access from the program except to the console.
KernelMapped ==
    Op("user") /\ ~starved =>
        \A va \in 0..PROC_START-1 : map[current][va] = KernelEntry(va)

\* The machines that can load their programs: process_setup does not test what
\* kalloc returns, and loads a segment with one memset and one memcpy that run
\* on from its first page in physical memory.  Allocatable pages are in a row,
\* lo to hi, but for one that can come before; they are enough for the largest
\* boot, with a root, all tables and a program for each process; and the tables
\* on the way to a segment are those that the kernel's own pages need.
ProgramVA == {va \in UserVA : va = STACK \/ SegmentOf(va) # {}}
ProcessPages == 1 + Cardinality(Nodes) + Cardinality(ProgramVA)
Below(lo) == IF \E q \in Allocatable : q < lo THEN 1 ELSE 0
Fits(lo, hi) ==
    /\ lo..hi \subseteq Allocatable
    /\ \A q, r \in Allocatable : q < lo /\ r < lo => q = r
    /\ \A n \in BootCounts : lo + n * ProcessPages <= hi + 1 + Below(lo)
    /\ \A va \in UserVA : SegmentOf(va) # {} =>
           Path[va] \subseteq UNION {Path[w] : w \in 1..PROC_START-1}
ProgramsFit == \E lo, hi \in Pages : Fits(lo, hi)

\* A runnable process is given the processor, whatever the others do, unless
\* the system stops or is restarted.
RunnableRuns ==
    \A p \in Pids : (Op("user") /\ state[p] = "RUNNABLE")
                        ~> ((Op("user") /\ current = p) \/ Op("panic") \/ Op("boot"))

\* The memory the program sees.  A process being released has none any more,
\* and a child has none until fork completes.
Live == {p \in Pids : state[p] # "FREE" /\ ~(Op("exit") /\ kern.pid = p)}
View == [p \in Pids |-> [va \in UserVA |->
            IF p \in Live /\ present(map[p][va]) THEN mem[map[p][va].pa] ELSE "absent"]]
Fixed == [p \in Pids |-> {va \in UserVA :
             p \in Live /\ present(map[p][va]) /\ ~writable(map[p][va])}]
ProgramImage == [va \in UserVA |->
    IF va = STACK THEN "int3"
    ELSE IF \E s \in SegmentOf(va) : s.writable THEN "data"
    ELSE IF SegmentOf(va) # {} THEN "text" ELSE "absent"]
ProgramText == {va \in UserVA : \E s \in SegmentOf(va) : ~s.writable}

Memory == INSTANCE ProcessMemory WITH
    view <- View, fixed <- Fixed, live <- Live, Zero <- "zero", Image <- ProgramImage,
    ReadOnly <- ProgramText, Absent <- "absent"

\* The kernel implements private process memories.
ImplementsProcessMemory == Memory!Spec
=============================================================================
