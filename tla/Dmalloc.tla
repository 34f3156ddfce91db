------------------------------- MODULE Dmalloc -------------------------------
(***************************************************************************)
(* The debugging allocator (dmalloc/dmalloc.cc) over the base allocator    *)
(* (basealloc.cc).  A block is a header and the program's bytes; the       *)
(* header's flag tells a live block (2) from a freed one (3).  The program *)
(* writes what it likes into its live blocks and frees any pointer.        *)
(*                                                                         *)
(* Addresses count units of which the alignment is ALIGN; memory holds one *)
(* number per aligned address.  Of the header the flag and the length are  *)
(* kept; the file name and the line do not matter to any decision.         *)
(***************************************************************************)
EXTENDS Integers, FiniteSets, FiniteSetsExt

CONSTANTS SIZE_T,     \* size_t is modulo SIZE_T
          HEADER,     \* sizeof(struct metaData)
          ALIGN,
          Top,        \* malloc has the addresses ALIGN .. Top-1
          Sizes,      \* sizes and counts a program asks for
          MaxCalls    \* bound on the number of calls

ASSUME DmallocConstants ==
    /\ ALIGN \in Nat \ {0} /\ HEADER \in Nat /\ HEADER >= 2 * ALIGN /\ HEADER % ALIGN = 0
    /\ SIZE_T \in Nat /\ 2 * HEADER < SIZE_T /\ Top \in ALIGN..SIZE_T
    /\ Sizes \subseteq 0..SIZE_T-1 /\ MaxCalls \in Nat

VARIABLES mem,     \* the memory, by aligned address
          chunks,  \* what malloc has given out and not got back: base -> length
          allocs,  \* basealloc's active allocations: base -> size
          frees,   \* basealloc's freed allocations: pairs base, size
          stats,   \* dmalloc_stature
          map,     \* pointerMap: pointer -> size
          want,    \* history: the size the program asked for, by live pointer
          freed,   \* history: the pointers that have been freed
          status,  \* "running", or how the process ended
          last,    \* history: the pointer last freed, and what it was
          calls

vars == <<mem, chunks, allocs, frees, stats, map, want, freed, status, last, calls>>

Aligned == {a \in 0..Top-1 : a % ALIGN = 0}
NULL == 0
LIVE == 2
FREE == 3

Put(f, k, v) == [x \in DOMAIN f \cup {k} |-> IF x = k THEN v ELSE f[x]]
Drop(f, k)   == [x \in DOMAIN f \ {k} |-> f[x]]
Sum(f)       == MapThenSumSet(LAMBDA x : f[x], DOMAIN f)

-----------------------------------------------------------------------------
(* The C library's malloc: some place, aligned to 2 * ALIGN, that overlaps *)
(* nothing; glibc keeps a word of its own between two chunks.              *)

malloc(sz) ==
    {a \in Aligned \ {NULL} :
        /\ a % (2 * ALIGN) = 0 /\ a + sz <= Top
        /\ \A c \in DOMAIN chunks :
              a + sz + ALIGN <= c \/ c + chunks[c] + ALIGN <= a}

\* base_malloc may take a freed allocation that is large enough, or else
\* asks malloc, which may fail.
Reusable(length) == {f \in frees : f[2] >= length}

-----------------------------------------------------------------------------
(* Failing, and handing out a block.                                       *)

Failed(sz) ==
    /\ stats' = [stats EXCEPT !.nfail = @ + 1, !.fail_size = (@ + sz) % SIZE_T]
    /\ UNCHANGED <<mem, chunks, allocs, frees, map, want>>

Least(a, b) == IF a < b THEN a ELSE b
Greatest(a, b) == IF a > b THEN a ELSE b

\* Mutant: the header is counted with the block.
MutantCount(ptr, sz) ==
    [stats EXCEPT !.nactive = @ + 1, !.active_size = (@ + HEADER + sz) % SIZE_T,
                  !.ntotal = @ + 1, !.total_size = (@ + HEADER + sz) % SIZE_T,
                  !.heap_min = IF @ = 0 THEN ptr ELSE Least(@, ptr),
                  !.heap_max = Greatest(@, ptr + ALIGN + sz)]

\* The statistics after a block of sz bytes at ptr.
Count(ptr, sz) ==
    [stats EXCEPT !.nactive = @ + 1, !.active_size = (@ + sz) % SIZE_T,
                  !.ntotal = @ + 1, !.total_size = (@ + sz) % SIZE_T,
                  !.heap_min = IF @ = 0 THEN ptr ELSE Least(@, ptr),
                  !.heap_max = Greatest(@, ptr + ALIGN + sz)]

\* The block at base is initialised: flag, length, and for dcalloc zeros.
Block(base, sz, zero) ==
    [a \in Aligned |->
        IF a = base THEN LIVE
        ELSE IF a = base + ALIGN THEN sz
        ELSE IF zero /\ a >= base + HEADER /\ a < base + HEADER + sz THEN 0
        ELSE mem[a]]

\* base_malloc has found base for sz bytes, of which the program asked asked.
Give(base, sz, zero, asked) ==
    /\ mem' = Block(base, sz, zero)
    /\ allocs' = Put(allocs, base, (HEADER + sz) % SIZE_T)
    /\ stats' = Count(base + HEADER, sz)
    /\ map' = Put(map, base + HEADER, sz)
    /\ want' = Put(want, base + HEADER, asked)

Overflows(sz) == sz > HEADER /\ (HEADER + sz) % SIZE_T < HEADER

\* Mutant: the size is not tested for overflow.
MutantUnchecked(sz, zero, asked) ==
    LET length == (HEADER + sz) % SIZE_T
    IN \E base \in malloc(length) :
          /\ chunks' = Put(chunks, base, length)
          /\ UNCHANGED frees
          /\ Give(base, sz, zero, asked)

\* dmalloc: asked is what the program's request comes to.
Allocate(sz, zero, asked) ==
    LET length == (HEADER + sz) % SIZE_T
    IN \/ Failed(sz)
       \/ /\ ~Overflows(sz)
          /\ \/ \E f \in Reusable(length) :
                   /\ frees' = frees \ {f}
                   /\ UNCHANGED chunks
                   /\ Give(f[1], sz, zero, asked)
             \/ \E base \in malloc(length) :
                   /\ chunks' = Put(chunks, base, length)
                   /\ UNCHANGED frees
                   /\ Give(base, sz, zero, asked)

-----------------------------------------------------------------------------
(* The operations.                                                         *)

Start == status = "running" /\ calls < MaxCalls /\ calls' = calls + 1

dmalloc ==
    /\ Start
    /\ \E sz \in Sizes : Allocate(sz, FALSE, sz)
    /\ UNCHANGED <<freed, status, last>>

\* The test of the product divides by nmemb: zero ends the process.
dcalloc ==
    /\ Start
    /\ \E nmemb, sz \in Sizes :
          LET length == (nmemb * sz) % SIZE_T
          IN CASE nmemb = 0 ->
                    /\ status' = "trapped"
                    /\ UNCHANGED <<mem, chunks, allocs, frees, stats, map, want>>
               [] nmemb # 0 /\ length \div nmemb # sz ->
                    Failed(length) /\ UNCHANGED status
               [] OTHER ->
                    Allocate(length, TRUE, nmemb * sz) /\ UNCHANGED status
    /\ UNCHANGED <<freed, last>>

\* Mutant: the block is given back, by the address base_malloc knows it by.
MutantBaseFree(ptr) ==
    IF ptr - HEADER \in DOMAIN allocs
    THEN /\ allocs' = Drop(allocs, ptr - HEADER)
         /\ frees' = frees \cup {<<ptr - HEADER, allocs[ptr - HEADER]>>}
    ELSE UNCHANGED <<allocs, frees>>

\* base_free ignores a pointer it does not know: dfree calls it with the
\* program's pointer, which base_malloc never returned.
base_free(ptr) ==
    IF ptr \in DOMAIN allocs
    THEN /\ allocs' = Drop(allocs, ptr)
         /\ frees' = frees \cup {<<ptr, allocs[ptr]>>}
    ELSE UNCHANGED <<allocs, frees>>

\* What dfree finds ptr to be; the first test that applies decides.
Verdict(ptr) ==
    IF ptr < stats.heap_min \/ ptr > stats.heap_max THEN "not in heap"
    ELSE IF (ptr - HEADER) % ALIGN # 0 THEN "not allocated"
    ELSE IF mem[ptr - HEADER] \notin {LIVE, FREE} THEN "not allocated"
    ELSE IF mem[ptr - HEADER] = FREE THEN "double free"
    ELSE "accepted"

Kind(ptr) ==
    IF ptr \in DOMAIN want THEN "live" ELSE IF ptr \in freed THEN "freed" ELSE "wild"

\* dfree: every bad pointer is reported and the process aborts.  A pointer
\* whose flag looks right but which the map lacks makes erase undefined.
dfree ==
    /\ Start
    /\ \E ptr \in 0..Top :
          /\ last' = [ptr |-> ptr, kind |-> Kind(ptr)]
          /\ IF ptr = NULL
             THEN UNCHANGED <<mem, chunks, allocs, frees, stats, map, want, freed, status>>
             ELSE IF Verdict(ptr) # "accepted"
             THEN /\ status' = Verdict(ptr)
                  /\ UNCHANGED <<mem, chunks, allocs, frees, stats, map, want, freed>>
             ELSE /\ mem' = [mem EXCEPT ![ptr - HEADER] = FREE]
                  /\ stats' = [stats EXCEPT
                        !.nactive = (@ - 1) % SIZE_T,
                        !.active_size = (@ - mem[ptr - HEADER + ALIGN]) % SIZE_T]
                  /\ base_free(ptr)
                  /\ map' = Drop(map, ptr)
                  /\ status' = IF ptr \in DOMAIN map THEN "running" ELSE "undefined"
                  /\ want' = Drop(want, ptr)
                  /\ freed' = freed \cup {ptr}
                  /\ UNCHANGED chunks

\* The program writes into one of its blocks, also what looks like a flag.
Write ==
    /\ status = "running"
    /\ \E p \in DOMAIN want : \E a \in Aligned :
          /\ p <= a /\ a < p + want[p]
          /\ \E v \in {0, LIVE, FREE} : mem' = [mem EXCEPT ![a] = v]
    /\ UNCHANGED <<chunks, allocs, frees, stats, map, want, freed, status, last, calls>>

\* get_statistics copies the counters.
get_statistics == stats

\* print_leak_report prints the pointers of the map with the sizes in the headers.
print_leak_report == {<<p, mem[p - HEADER + ALIGN]>> : p \in DOMAIN map}

Init ==
    /\ mem = [a \in Aligned |-> 0]
    /\ chunks = [a \in {} |-> 0] /\ allocs = [a \in {} |-> 0] /\ frees = {}
    /\ stats = [nactive |-> 0, active_size |-> 0, ntotal |-> 0, total_size |-> 0,
                nfail |-> 0, fail_size |-> 0, heap_min |-> 0, heap_max |-> 0]
    /\ map = [a \in {} |-> 0]
    /\ want = [a \in {} |-> 0] /\ freed = {}
    /\ status = "running" /\ last = [ptr |-> NULL, kind |-> "wild"] /\ calls = 0

Next == dmalloc \/ dcalloc \/ dfree \/ Write

Spec == Init /\ [][Next]_vars

-----------------------------------------------------------------------------
(* Properties.                                                             *)

Ends == {"running", "trapped", "not in heap", "not allocated", "double free", "undefined"}

\* The state of the two allocators.
TypeOK ==
    /\ mem \in [Aligned -> 0..SIZE_T-1]
    /\ \A x \in {chunks, allocs, map} :
          DOMAIN x \subseteq 1..Top /\ \A a \in DOMAIN x : x[a] \in 0..SIZE_T-1
    /\ DOMAIN allocs \subseteq DOMAIN chunks
    /\ \A f \in DOMAIN stats : stats[f] \in 0..Top+SIZE_T
    /\ status \in Ends
    /\ calls \in 0..MaxCalls

\* The active counters are exactly the live blocks' number and bytes, through
\* any sequence of allocations, failures and frees; every block that was ever
\* counted is live or has been freed; and the leak report names every live
\* block, and no other, with its true size: nothing the program does to its
\* own bytes reaches a header.
AccountsExact ==
    status # "undefined" =>
        /\ print_leak_report = {<<p, want[p]>> : p \in DOMAIN want}
        /\ get_statistics.nactive = Cardinality(DOMAIN want)
        /\ get_statistics.active_size = Sum(want) % SIZE_T
        /\ get_statistics.ntotal = Cardinality(DOMAIN want) + Cardinality(freed)

\* A live block and its header lie within one chunk of their own, with all
\* the bytes that were asked for, overflows of size_t notwithstanding.
BlocksApart ==
    \A p \in DOMAIN want :
        /\ p + want[p] <= Top
        /\ \A q \in DOMAIN want \ {p} :
              p + want[p] <= q - HEADER \/ q + want[q] <= p - HEADER

\* dfree never stops a program for freeing a live block, and always reports
\* the second free of a block as one, however much was allocated in between:
\* no later block is ever placed where a freed one was, so that a stale
\* pointer cannot pass for a live one.
FreesJudgedRight ==
    /\ last.kind = "live" => status \in {"running", "trapped"}
    /\ last.kind = "freed" => status = "double free"
    /\ status # "undefined" => DOMAIN want \cap freed = {}
=============================================================================
