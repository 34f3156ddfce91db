---------------------------- MODULE DmallocProofs ----------------------------
(***************************************************************************)
(* Proofs about Dmalloc, for any sizes of header, alignment, memory and    *)
(* size_t and any number of calls: BlocksApart, FreesJudgedRight and       *)
(* AccountsExact.                                                          *)
(*                                                                         *)
(* Every block that was ever handed out keeps a chunk of its own: base_free*)
(* is called with pointers that it does not know, so nothing is reused     *)
(* while the process runs. Chunks lie apart, a header is in its chunk      *)
(* before the bytes that the program may write, and so a header says       *)
(* whether its block is live or freed until dfree itself changes it.       *)
(***************************************************************************)
EXTENDS Dmalloc, FiniteSetTheorems, WellFoundedInduction, TLAPS

\* The statistics, as numbers.
Stats == [nactive: Int, active_size: Int, ntotal: Int, total_size: Int,
          nfail: Int, fail_size: Int, heap_min: Int, heap_max: Int]

\* Every block that was handed out.
Blocks == DOMAIN want \cup freed

Types ==
    /\ mem \in [Aligned -> Int]
    /\ status \in Ends /\ calls \in Nat
    /\ DOMAIN want \subseteq Nat /\ freed \subseteq Nat
    /\ DOMAIN allocs \subseteq DOMAIN chunks

\* The chunks of malloc, apart from one another, and the live blocks in them.
Layout ==
    /\ \A c \in DOMAIN chunks :
          /\ c \in Aligned /\ c # 0
          /\ chunks[c] \in Nat /\ HEADER <= chunks[c] /\ c + chunks[c] <= Top
    /\ \A c, d \in DOMAIN chunks :
          c # d => \/ c + chunks[c] + ALIGN <= d
                   \/ d + chunks[d] + ALIGN <= c
    /\ \A p \in DOMAIN want :
          /\ p - HEADER \in DOMAIN chunks
          /\ want[p] \in Nat /\ chunks[p - HEADER] = HEADER + want[p]

\* What the headers say, and what dfree relies on.
Headers ==
    /\ frees = {} /\ DOMAIN map = DOMAIN want /\ DOMAIN want \cap freed = {}
    /\ stats \in Stats
    /\ \A p \in DOMAIN want : mem[p - HEADER] = LIVE /\ mem[p - HEADER + ALIGN] = want[p]
    /\ \A p \in freed : p - HEADER \in DOMAIN chunks /\ mem[p - HEADER] = FREE
    /\ \A p \in Blocks : stats.heap_min <= p /\ p <= stats.heap_max /\ stats.heap_min # 0

\* What was said of the pointer last freed.
Judged ==
    /\ last.kind = "live" => status \in {"running", "trapped"}
    /\ last.kind = "freed" => status = "double free"

\* The counters.
Counts ==
    /\ IsFiniteSet(DOMAIN want) /\ IsFiniteSet(freed)
    /\ stats.nactive = Cardinality(DOMAIN want)
    /\ stats.active_size = Sum(want) % SIZE_T
    /\ stats.ntotal = Cardinality(DOMAIN want) + Cardinality(freed)

Sound == status # "undefined" => Headers /\ Counts

IInv == Types /\ Layout /\ Sound /\ Judged
-----------------------------------------------------------------------------
(* Arithmetic modulo size_t.                                               *)

LEMMA Constants ==
    /\ ALIGN \in Nat /\ ALIGN > 0 /\ HEADER \in Nat /\ HEADER >= 2 * ALIGN
    /\ SIZE_T \in Nat /\ 2 * HEADER < SIZE_T /\ Top \in Nat /\ ALIGN <= Top /\ Top <= SIZE_T
    /\ \A sz \in Sizes : sz \in Nat /\ sz < SIZE_T
  BY DmallocConstants

LEMMA ModSmall == ASSUME NEW m \in Nat, NEW x \in Nat, x < m PROVE x % m = x
  OBVIOUS

LEMMA ModOnce == ASSUME NEW m \in Nat, NEW x \in Nat, m <= x, x < 2 * m PROVE x % m = x - m
  OBVIOUS

\* A size that passes the test of dmalloc does not wrap.
LEMMA SizeFits ==
    ASSUME NEW sz \in Nat, sz < SIZE_T, ~Overflows(sz)
    PROVE  (HEADER + sz) % SIZE_T = HEADER + sz
<1> USE Constants
<1>1. CASE HEADER + sz < SIZE_T
  BY <1>1, ModSmall
<1>2. CASE HEADER + sz >= SIZE_T
  <2>1. (HEADER + sz) % SIZE_T = HEADER + sz - SIZE_T
    <3>1. PICK x \in Nat : x = HEADER + sz
      OBVIOUS
    <3>2. SIZE_T <= x /\ x < 2 * SIZE_T
      BY <1>2, <3>1
    <3>3. x % SIZE_T = x - SIZE_T
      BY <3>2, ModOnce
    <3> QED BY <3>1, <3>3
  <2> QED BY <1>2, <2>1 DEF Overflows
<1> QED BY <1>1, <1>2

\* A product that passes the test of dcalloc does not wrap.
LEMMA ProductFits ==
    ASSUME NEW nmemb \in Nat, NEW sz \in Nat, nmemb # 0,
           ((nmemb * sz) % SIZE_T) \div nmemb = sz
    PROVE  (nmemb * sz) % SIZE_T = nmemb * sz
<1> USE Constants
<1>1. nmemb * sz \in Nat
  OBVIOUS
<1> DEFINE l == (nmemb * sz) % SIZE_T
<1>2. l \in Nat /\ l < SIZE_T
  BY <1>1
<1> HIDE DEF l
<1>3. nmemb * (l \div nmemb) <= l
  BY <1>2
<1>4. nmemb * sz <= l
  BY <1>3 DEF l
<1> QED BY <1>1, <1>2, <1>4, ModSmall DEF l

LEMMA NextAligned ==
    ASSUME NEW a \in Aligned, a + ALIGN < Top
    PROVE  a + ALIGN \in Aligned
<1> USE Constants
<1>1. a \in Nat /\ a % ALIGN = 0
  BY DEF Aligned
<1>2. (a + ALIGN) % ALIGN = 0
  BY <1>1
<1> QED BY <1>1, <1>2 DEF Aligned

LEMMA DivMod ==
    ASSUME NEW m \in Nat \ {0}, NEW a \in Int
    PROVE  a \div m \in Int /\ a % m \in 0..m-1 /\ a = m * (a \div m) + (a % m)
  OBVIOUS

\* What remains of a division is determined by it.
LEMMA SmallMultiple ==
    ASSUME NEW m \in Nat \ {0}, NEW d \in Int, -m < m * d, m * d < m
    PROVE  d = 0
<1>1. CASE d >= 1
  <2>1. m * d >= m
    BY <1>1
  <2> QED BY <2>1
<1>2. CASE d <= -1
  <2>1. m * d <= -m
    BY <1>2
  <2> QED BY <2>1
<1> QED BY <1>1, <1>2

LEMMA SameRest ==
    ASSUME NEW m \in Nat \ {0}, NEW q \in Int, NEW r \in 0..m-1, NEW x \in Int, x = m * q + r
    PROVE  x % m = r
<1>1. PICK p \in Int, t \in 0..m-1 : x = m * p + t /\ x % m = t
  BY DivMod
<1>2. m * p + t = m * q + r
  BY <1>1
<1>3. m * (q - p) = m * q - m * p
  OBVIOUS
<1>4. m * q \in Int /\ m * p \in Int
  OBVIOUS
<1>5. -m < m * (q - p) /\ m * (q - p) < m
  BY <1>2, <1>3, <1>4
<1>6. q - p = 0
  BY <1>5, SmallMultiple
<1> QED BY <1>1, <1>2, <1>6

\* A sum that wraps may wrap at every step or once at the end.
LEMMA ModAdd ==
    ASSUME NEW m \in Nat \ {0}, NEW a \in Int, NEW b \in Int
    PROVE  ((a % m) + b) % m = (a + b) % m
<1>1. PICK q \in Int, r \in 0..m-1 : a = m * q + r /\ a % m = r
  BY DivMod
<1>2. PICK p \in Int, t \in 0..m-1 : r + b = m * p + t /\ (r + b) % m = t
  <2>1. PICK c \in Int : c = r + b
    OBVIOUS
  <2> QED BY <2>1, DivMod
<1>3. a + b = m * (q + p) + t
  <2>1. m * (q + p) = m * q + m * p /\ m * q \in Int /\ m * p \in Int
    OBVIOUS
  <2> QED BY <1>1, <1>2, <2>1
<1>4. (a + b) % m = t
  <2>1. PICK c, d \in Int : c = a + b /\ d = q + p
    OBVIOUS
  <2>2. c = m * d + t
    BY <1>3, <2>1
  <2>3. c % m = t
    BY <2>2, SameRest
  <2> QED BY <2>1, <2>3
<1> QED BY <1>1, <1>2, <1>4
-----------------------------------------------------------------------------
(* Sums of sizes.                                                          *)

\* The member of a set that the fold takes first.
Pick(s) == CHOOSE x \in s : TRUE

\* h gives the sum of f over each part of its domain, as the fold computes it.
Partial(f, h) ==
    h = [s \in SUBSET DOMAIN f |-> IF s = {} THEN 0 ELSE f[Pick(s)] + h[s \ {Pick(s)}]]

\* Sum is such a fold, if there is one.
LEMMA SumIs ==
    ASSUME NEW f
    PROVE  Sum(f) = (CHOOSE h : Partial(f, h))[DOMAIN f]
  BY DEF Sum, MapThenSumSet, MapThenFoldSet, Partial, Pick

\* Among sets, and among numbers, some are smallest.
LEMMA SmallestSet ==
    ASSUME NEW D, IsFiniteSet(D), NEW T \in SUBSET (SUBSET D), T # {}
    PROVE  \E s \in T : \A t \in T : ~(t \subseteq s /\ t # s)
<1>1. T \subseteq FiniteSubsetsOf(D)
  BY FS_FiniteSubsetsOfFinite
<1>2. PICK s \in T : \A t \in T : ~(<<t, s>> \in StrictSubsetOrdering(D))
  BY <1>1, FS_StrictSubsetOrderingWellFounded, WFMin
<1> QED BY <1>2 DEF StrictSubsetOrdering

LEMMA SmallestNat ==
    ASSUME NEW T \in SUBSET Nat, T # {}
    PROVE  \E n \in T : \A k \in T : ~(k < n)
<1>1. PICK n \in T : \A k \in T : ~(<<k, n>> \in OpToRel(<, Nat))
  BY NatLessThanWellFounded, WFMin
<1> QED BY <1>1 DEF OpToRel

\* The sum over every subset exists: level by level, from the empty set.
LEMMA PartialExists ==
    ASSUME NEW f, IsFiniteSet(DOMAIN f), \A x \in DOMAIN f : f[x] \in Int
    PROVE  \E h : Partial(f, h)
<1> DEFINE D == DOMAIN f
           Level(n) == {s \in SUBSET D : Cardinality(s) <= n}
           Upto(h, n) == \A s \in Level(n) :
                            h[s] = IF s = {} THEN 0 ELSE f[Pick(s)] + h[s \ {Pick(s)}]
           Bad == {n \in Nat : ~\E h \in [Level(n) -> Int] : Upto(h, n)}
<1>1. ASSUME NEW s \in SUBSET D
      PROVE  /\ IsFiniteSet(s) /\ Cardinality(s) \in Nat /\ Cardinality(s) <= Cardinality(D)
             /\ (Cardinality(s) = 0) <=> (s = {})
  <2>1. IsFiniteSet(s) /\ Cardinality(s) <= Cardinality(D)
    BY FS_Subset
  <2> QED BY <2>1, FS_CardinalityType, FS_EmptySet
<1>2. ASSUME NEW s \in SUBSET D, s # {}
      PROVE  /\ Pick(s) \in s /\ s \ {Pick(s)} \in SUBSET D
             /\ Cardinality(s \ {Pick(s)}) = Cardinality(s) - 1
  <2>1. Pick(s) \in s
    BY <1>2 DEF Pick
  <2>2. IsFiniteSet(s)
    BY <1>1
  <2>3. Cardinality(s \ {Pick(s)}) = Cardinality(s) - 1
    BY <2>1, <2>2, FS_RemoveElement
  <2> QED BY <2>1, <2>3
<1>3. Bad = {}
  <2> SUFFICES ASSUME Bad # {} PROVE FALSE
    OBVIOUS
  <2>1. PICK n \in Bad : \A k \in Bad : ~(k < n)
    <3>1. Bad \in SUBSET Nat
      OBVIOUS
    <3> HIDE DEF Bad
    <3> QED BY <3>1, SmallestNat
  <2>2. n \in Nat /\ ~\E h \in [Level(n) -> Int] : Upto(h, n)
    OBVIOUS
  <2>3. CASE n = 0
    <3> DEFINE g == [s \in Level(0) |-> 0]
    <3>1. \A s \in Level(0) : s = {}
      BY <1>1
    <3>2. g \in [Level(0) -> Int] /\ Upto(g, 0)
      BY <3>1
    <3> QED BY <2>2, <2>3, <3>2
  <2>4. CASE n # 0
    <3>1. n - 1 \in Nat /\ n - 1 < n
      BY <2>2, <2>4
    <3>2. PICK g \in [Level(n - 1) -> Int] : Upto(g, n - 1)
      BY <2>1, <3>1
    <3> DEFINE k == [s \in Level(n) |-> IF s = {} THEN 0 ELSE f[Pick(s)] + g[s \ {Pick(s)}]]
    <3>3. ASSUME NEW s \in Level(n), s # {}
          PROVE  /\ Pick(s) \in D /\ s \ {Pick(s)} \in Level(n - 1)
                 /\ s \ {Pick(s)} \in Level(n)
      BY <1>1, <1>2, <2>2, <3>3
    <3>4. k \in [Level(n) -> Int]
      <4> SUFFICES ASSUME NEW s \in Level(n), s # {} PROVE f[Pick(s)] + g[s \ {Pick(s)}] \in Int
        OBVIOUS
      <4>1. f[Pick(s)] \in Int /\ g[s \ {Pick(s)}] \in Int
        BY <3>2, <3>3
      <4> QED BY <4>1
    <3>5. \A t \in Level(n - 1) : t \in Level(n) /\ k[t] = g[t]
      <4> SUFFICES ASSUME NEW t \in Level(n - 1) PROVE t \in Level(n) /\ k[t] = g[t]
        OBVIOUS
      <4>1. t \in Level(n)
        BY <1>1, <2>2
      <4>2. g[t] = IF t = {} THEN 0 ELSE f[Pick(t)] + g[t \ {Pick(t)}]
        BY <3>2
      <4> QED BY <4>1, <4>2
    <3>6. Upto(k, n)
      <4> SUFFICES ASSUME NEW s \in Level(n)
                   PROVE  k[s] = IF s = {} THEN 0 ELSE f[Pick(s)] + k[s \ {Pick(s)}]
        OBVIOUS
      <4>1. s # {} => k[s \ {Pick(s)}] = g[s \ {Pick(s)}]
        BY <3>3, <3>5
      <4> QED BY <4>1
    <3> HIDE DEF k
    <3> QED BY <2>2, <3>4, <3>6
  <2> QED BY <2>3, <2>4
<1>4. PICK h \in [Level(Cardinality(D)) -> Int] : Upto(h, Cardinality(D))
  <2>1. Cardinality(D) \in Nat
    BY <1>1
  <2>2. Cardinality(D) \notin Bad
    BY <1>3
  <2> QED BY <2>1, <2>2
<1>5. Level(Cardinality(D)) = SUBSET D
  BY <1>1
<1>6. Partial(f, h)
  BY <1>4, <1>5 DEF Partial
<1> QED BY <1>6

\* h does not depend on what is taken first.
Additive(f, h) ==
    /\ \A s \in SUBSET DOMAIN f : h[s] \in Int
    /\ \A s \in SUBSET DOMAIN f : \A y \in s : h[s] = f[y] + h[s \ {y}]

\* Taking any member out of a set takes its number out of the sum.
LEMMA PartialAny ==
    ASSUME NEW f, IsFiniteSet(DOMAIN f), \A x \in DOMAIN f : f[x] \in Int,
           NEW h, Partial(f, h)
    PROVE  Additive(f, h)
<1>1. ASSUME NEW s \in SUBSET DOMAIN f, s # {}
      PROVE  Pick(s) \in s /\ h[s] = f[Pick(s)] + h[s \ {Pick(s)}]
  BY <1>1 DEF Partial, Pick
<1>2. h[{}] = 0
  BY DEF Partial
<1>3. \A s \in SUBSET DOMAIN f : h[s] \in Int
  <2> DEFINE Bad == {s \in SUBSET DOMAIN f : h[s] \notin Int}
  <2> SUFFICES ASSUME Bad # {} PROVE FALSE
    OBVIOUS
  <2>1. PICK s \in Bad : \A t \in Bad : ~(t \subseteq s /\ t # s)
    <3>1. Bad \in SUBSET (SUBSET DOMAIN f)
      OBVIOUS
    <3> HIDE DEF Bad
    <3> QED BY <3>1, SmallestSet
  <2>2. s # {} /\ s \in SUBSET DOMAIN f
    BY <1>2
  <2>3. s \ {Pick(s)} \notin Bad
    BY <1>1, <2>1, <2>2
  <2> QED BY <1>1, <2>2, <2>3
<1>4. \A s \in SUBSET DOMAIN f : \A y \in s : h[s] = f[y] + h[s \ {y}]
  <2> DEFINE Bad == {s \in SUBSET DOMAIN f : ~\A y \in s : h[s] = f[y] + h[s \ {y}]}
  <2> SUFFICES ASSUME Bad # {} PROVE FALSE
    OBVIOUS
  <2>1. PICK s \in Bad : \A t \in Bad : ~(t \subseteq s /\ t # s)
    <3>1. Bad \in SUBSET (SUBSET DOMAIN f)
      OBVIOUS
    <3> HIDE DEF Bad
    <3> QED BY <3>1, SmallestSet
  <2>2. PICK y \in s : h[s] # f[y] + h[s \ {y}]
    OBVIOUS
  <2> DEFINE x == Pick(s)
  <2>3. s \in SUBSET DOMAIN f /\ x \in s /\ h[s] = f[x] + h[s \ {x}]
    BY <1>1, <2>2
  <2> HIDE DEF x
  <2>4. x # y
    BY <2>2, <2>3
  <2>5. h[s \ {x}] = f[y] + h[(s \ {x}) \ {y}]
    <3>1. s \ {x} \notin Bad
      BY <2>1, <2>3
    <3> QED BY <2>3, <2>4, <3>1
  <2>6. h[s \ {y}] = f[x] + h[(s \ {y}) \ {x}]
    <3>1. s \ {y} \notin Bad
      BY <2>1, <2>3
    <3> QED BY <2>3, <2>4, <3>1
  <2>7. (s \ {x}) \ {y} = (s \ {y}) \ {x} /\ (s \ {x}) \ {y} \in SUBSET DOMAIN f
    BY <2>3
  <2>8. f[x] \in Int /\ f[y] \in Int /\ h[(s \ {x}) \ {y}] \in Int
    BY <1>3, <2>3, <2>7
  <2>9. PICK z : z = h[(s \ {x}) \ {y}]
    OBVIOUS
  <2>10. h[s] = f[x] + (f[y] + z) /\ h[s \ {y}] = f[x] + z
    BY <2>3, <2>5, <2>6, <2>7, <2>9
  <2>11. f[x] + (f[y] + z) = f[y] + (f[x] + z)
    BY <2>8, <2>9
  <2> QED BY <2>2, <2>10, <2>11
<1> QED BY <1>3, <1>4 DEF Additive

\* Functions that agree on a set have the same sum over it.
LEMMA PartialSame ==
    ASSUME NEW f, NEW g, NEW D, D \subseteq DOMAIN f, D \subseteq DOMAIN g, IsFiniteSet(D),
           \A x \in D : f[x] = g[x], NEW h, Partial(f, h), NEW k, Partial(g, k)
    PROVE  h[D] = k[D]
<1>1. ASSUME NEW s \in SUBSET D, s # {}
      PROVE  /\ Pick(s) \in s /\ h[s] = f[Pick(s)] + h[s \ {Pick(s)}]
             /\ k[s] = g[Pick(s)] + k[s \ {Pick(s)}]
  BY <1>1 DEF Partial, Pick
<1>2. h[{}] = 0 /\ k[{}] = 0
  BY DEF Partial
<1> DEFINE Bad == {s \in SUBSET D : h[s] # k[s]}
<1> SUFFICES ASSUME Bad # {} PROVE FALSE
  OBVIOUS
<1>3. PICK s \in Bad : \A t \in Bad : ~(t \subseteq s /\ t # s)
  <2>1. Bad \in SUBSET (SUBSET D)
    OBVIOUS
  <2> HIDE DEF Bad
  <2> QED BY <2>1, SmallestSet
<1>4. s # {} /\ s \in SUBSET D
  BY <1>2
<1>5. s \ {Pick(s)} \notin Bad
  BY <1>1, <1>3, <1>4
<1> QED BY <1>1, <1>3, <1>4, <1>5

\* The sum of the sizes with a block and without it.
LEMMA SumTakes ==
    ASSUME NEW f, NEW g, NEW k, IsFiniteSet(DOMAIN f), \A x \in DOMAIN f : f[x] \in Int,
           k \in DOMAIN f, DOMAIN g = DOMAIN f \ {k}, \A x \in DOMAIN g : g[x] = f[x]
    PROVE  Sum(f) \in Int /\ Sum(g) \in Int /\ Sum(f) = Sum(g) + f[k]
<1>1. IsFiniteSet(DOMAIN g) /\ \A x \in DOMAIN g : g[x] \in Int
  BY FS_RemoveElement
<1>2. PICK h : Partial(f, h) /\ Sum(f) = h[DOMAIN f]
  BY SumIs, PartialExists
<1>3. PICK j : Partial(g, j) /\ Sum(g) = j[DOMAIN g]
  BY <1>1, SumIs, PartialExists
<1>4. h[DOMAIN f] = f[k] + h[DOMAIN g] /\ h[DOMAIN f] \in Int /\ h[DOMAIN g] \in Int
  <2>1. k \in DOMAIN f /\ DOMAIN g \in SUBSET DOMAIN f
    OBVIOUS
  <2>2. /\ \A s \in SUBSET DOMAIN f : h[s] \in Int
        /\ \A s \in SUBSET DOMAIN f : \A y \in s : h[s] = f[y] + h[s \ {y}]
    <3>1. Additive(f, h)
      BY <1>2, PartialAny
    <3> QED BY <3>1 DEF Additive
  <2>3. h[DOMAIN f] = f[k] + h[DOMAIN f \ {k}]
    BY <2>1, <2>2
  <2> QED BY <2>1, <2>2, <2>3
<1>5. h[DOMAIN g] = j[DOMAIN g]
  <2>1. DOMAIN g \subseteq DOMAIN f /\ \A x \in DOMAIN g : f[x] = g[x]
    OBVIOUS
  <2> QED BY <1>1, <1>2, <1>3, <2>1, PartialSame
<1> QED BY <1>2, <1>3, <1>4, <1>5

LEMMA SumEmpty ==
    ASSUME NEW f, DOMAIN f = {}
    PROVE  Sum(f) = 0
<1>1. IsFiniteSet(DOMAIN f)
  BY FS_EmptySet
<1>2. PICK h : Partial(f, h) /\ Sum(f) = h[DOMAIN f]
  BY <1>1, SumIs, PartialExists
<1> QED BY <1>2 DEF Partial
-----------------------------------------------------------------------------
(* Every step is one of these.                                             *)

\* A block of sz bytes is handed out at base.
Gives(base, sz, zero) ==
    /\ status = "running" /\ frees' = frees
    /\ sz \in Nat /\ HEADER + sz < SIZE_T /\ base \in malloc(HEADER + sz)
    /\ chunks' = Put(chunks, base, HEADER + sz)
    /\ mem' = Block(base, sz, zero)
    /\ allocs' = Put(allocs, base, HEADER + sz)
    /\ stats' = Count(base + HEADER, sz)
    /\ map' = Put(map, base + HEADER, sz)
    /\ want' = Put(want, base + HEADER, sz)
    /\ UNCHANGED <<freed, status, last>>

\* A request fails, or divides by zero.
FailStats(sz) == [stats EXCEPT !.nfail = @ + 1, !.fail_size = (@ + sz) % SIZE_T]

Fails ==
    /\ status = "running"
    /\ status' \in {"running", "trapped"}
    /\ stats' = stats \/ \E sz \in Nat : stats' = FailStats(sz)
    /\ UNCHANGED <<mem, chunks, allocs, frees, map, want, freed, last>>

\* A pointer is found bad; the null pointer is not looked at.
Reports(ptr) ==
    /\ status = "running" /\ ptr \in Nat
    /\ last' = [ptr |-> ptr, kind |-> Kind(ptr)]
    /\ \/ ptr = NULL /\ status' = status
       \/ Verdict(ptr) # "accepted" /\ status' = Verdict(ptr)
    /\ UNCHANGED <<mem, chunks, allocs, frees, stats, map, want, freed>>

\* A pointer is accepted.
Accepted(ptr) ==
    /\ mem' = [mem EXCEPT ![ptr - HEADER] = FREE]
    /\ stats' = [stats EXCEPT !.nactive = (@ - 1) % SIZE_T,
                              !.active_size = (@ - mem[ptr - HEADER + ALIGN]) % SIZE_T]
    /\ base_free(ptr)
    /\ map' = Drop(map, ptr)
    /\ status' = IF ptr \in DOMAIN map THEN "running" ELSE "undefined"
    /\ want' = Drop(want, ptr)
    /\ freed' = freed \cup {ptr}
    /\ UNCHANGED chunks

Accepts(ptr) ==
    /\ status = "running" /\ ptr \in Nat
    /\ last' = [ptr |-> ptr, kind |-> Kind(ptr)]
    /\ Verdict(ptr) = "accepted"
    /\ Accepted(ptr)

Move ==
    \/ \E base \in Aligned, sz \in Nat, zero \in BOOLEAN : Gives(base, sz, zero)
    \/ Fails
    \/ \E ptr \in Nat : Reports(ptr) \/ Accepts(ptr)
    \/ Write

\* While nothing has been given back, an allocation is a fresh chunk of just
\* the size asked for.
LEMMA AllocateMoves ==
    ASSUME status = "running", frees = {}, NEW sz \in Nat, sz < SIZE_T, NEW zero \in BOOLEAN,
           Allocate(sz, zero, sz), UNCHANGED <<freed, status, last>>
    PROVE  Move
<1> USE Constants
<1>1. CASE Failed(sz)
  <2>1. stats' = FailStats(sz)
    BY <1>1 DEF Failed, FailStats
  <2>2. Fails
    BY <1>1, <2>1 DEF Failed, Fails
  <2> QED BY <2>2 DEF Move
<1>2. CASE ~Failed(sz)
  <2>1. ~Overflows(sz) /\ (HEADER + sz) % SIZE_T = HEADER + sz
    BY <1>2, SizeFits DEF Allocate
  <2>2. HEADER + sz < SIZE_T
    <3>1. HEADER + sz \in Nat
      OBVIOUS
    <3>2. (HEADER + sz) % SIZE_T < SIZE_T
      BY <3>1
    <3> QED BY <2>1, <3>2
  <2>3. Reusable(HEADER + sz) = {}
    BY DEF Reusable
  <2>4. PICK base \in malloc(HEADER + sz) :
          /\ chunks' = Put(chunks, base, HEADER + sz)
          /\ UNCHANGED frees
          /\ Give(base, sz, zero, sz)
    BY <1>2, <2>1, <2>3 DEF Allocate
  <2>5. base \in Aligned
    BY <2>4 DEF malloc
  <2>6. Gives(base, sz, zero)
    BY <2>1, <2>2, <2>4 DEF Gives, Give
  <2> QED BY <2>5, <2>6 DEF Move
<1> QED BY <1>1, <1>2

LEMMA StepMoves ==
    ASSUME Types, Sound, Next
    PROVE  Move /\ calls' \in Nat
<1> USE Constants
<1>1. CASE dmalloc
  <2>1. PICK sz \in Sizes : Allocate(sz, FALSE, sz)
    BY <1>1 DEF dmalloc
  <2>2. sz \in Nat /\ sz < SIZE_T
    OBVIOUS
  <2>3. /\ status = "running" /\ calls' \in Nat /\ frees = {}
        /\ UNCHANGED <<freed, status, last>>
    BY <1>1 DEF dmalloc, Start, Types, Sound, Headers
  <2> QED BY <2>1, <2>2, <2>3, AllocateMoves
<1>2. CASE dcalloc
  <2>1. PICK nmemb \in Sizes, sz \in Sizes :
          LET length == (nmemb * sz) % SIZE_T
          IN CASE nmemb = 0 ->
                    /\ status' = "trapped"
                    /\ UNCHANGED <<mem, chunks, allocs, frees, stats, map, want>>
               [] nmemb # 0 /\ length \div nmemb # sz ->
                    Failed(length) /\ UNCHANGED status
               [] OTHER ->
                    Allocate(length, TRUE, nmemb * sz) /\ UNCHANGED status
    BY <1>2 DEF dcalloc
  <2>2. status = "running" /\ calls' \in Nat /\ UNCHANGED <<freed, last>> /\ frees = {}
    BY <1>2 DEF dcalloc, Start, Types, Sound, Headers
  <2>3. nmemb * sz \in Nat
    OBVIOUS
  <2> DEFINE length == (nmemb * sz) % SIZE_T
  <2>4. length \in Nat /\ length < SIZE_T
    BY <2>3
  <2> HIDE DEF length
  <2>5. CASE nmemb = 0
    <3>1. Fails
      BY <2>1, <2>2, <2>5 DEF Fails
    <3> QED BY <2>2, <3>1 DEF Move
  <2>6. CASE nmemb # 0 /\ length \div nmemb # sz
    <3>1. Failed(length) /\ UNCHANGED status
      BY <2>1, <2>6 DEF length
    <3>3. stats' = FailStats(length)
      BY <3>1 DEF Failed, FailStats
    <3>2. Fails
      BY <2>2, <2>4, <3>1, <3>3 DEF Fails, Failed
    <3> QED BY <2>2, <3>2 DEF Move
  <2>7. CASE nmemb # 0 /\ length \div nmemb = sz
    <3>1. length = nmemb * sz
      BY <2>7, ProductFits DEF length
    <3>2. Allocate(length, TRUE, length) /\ UNCHANGED status
      BY <2>1, <2>7, <3>1 DEF length
    <3> QED BY <2>2, <2>4, <3>2, AllocateMoves
  <2> QED BY <2>5, <2>6, <2>7
<1>3. CASE dfree
  <2>1. PICK ptr \in 0..Top :
          /\ last' = [ptr |-> ptr, kind |-> Kind(ptr)]
          /\ IF ptr = NULL
             THEN UNCHANGED <<mem, chunks, allocs, frees, stats, map, want, freed, status>>
             ELSE IF Verdict(ptr) # "accepted"
             THEN /\ status' = Verdict(ptr)
                  /\ UNCHANGED <<mem, chunks, allocs, frees, stats, map, want, freed>>
             ELSE Accepted(ptr)
    BY <1>3 DEF dfree, Accepted
  <2>2. status = "running" /\ calls' \in Nat /\ ptr \in Nat
    BY <1>3 DEF dfree, Start, Types
  <2>3. CASE ptr = NULL \/ Verdict(ptr) # "accepted"
    <3>1. Reports(ptr)
      BY <2>1, <2>2, <2>3 DEF Reports
    <3> QED BY <2>2, <3>1 DEF Move
  <2>4. CASE ptr # NULL /\ Verdict(ptr) = "accepted"
    <3>1. Accepts(ptr)
      BY <2>1, <2>2, <2>4 DEF Accepts
    <3> QED BY <2>2, <3>1 DEF Move
  <2> QED BY <2>3, <2>4
<1>4. CASE Write
  BY <1>4 DEF Move, Write, Types
<1> QED BY <1>1, <1>2, <1>3, <1>4 DEF Next
-----------------------------------------------------------------------------
(* Handing out a block.                                                    *)

LEMMA PutIs ==
    ASSUME NEW f, NEW k, NEW v
    PROVE  /\ DOMAIN Put(f, k, v) = DOMAIN f \cup {k} /\ Put(f, k, v)[k] = v
           /\ \A x \in DOMAIN f \ {k} : Put(f, k, v)[x] = f[x]
  BY DEF Put

LEMMA DropIs ==
    ASSUME NEW f, NEW k
    PROVE  /\ DOMAIN Drop(f, k) = DOMAIN f \ {k}
           /\ \A x \in DOMAIN f \ {k} : Drop(f, k)[x] = f[x]
  BY DEF Drop

\* The fields of the statistics after each kind of step.
LEMMA StatsIs ==
    ASSUME stats \in Stats
    PROVE  /\ \A ptr, sz \in Nat :
                /\ Count(ptr, sz) \in Stats
                /\ Count(ptr, sz).nactive = stats.nactive + 1
                /\ Count(ptr, sz).active_size = (stats.active_size + sz) % SIZE_T
                /\ Count(ptr, sz).ntotal = stats.ntotal + 1
                /\ Count(ptr, sz).heap_min =
                      (IF stats.heap_min = 0 THEN ptr ELSE Least(stats.heap_min, ptr))
                /\ Count(ptr, sz).heap_max = Greatest(stats.heap_max, ptr + ALIGN + sz)
           /\ \A sz \in Nat :
                /\ FailStats(sz) \in Stats
                /\ FailStats(sz).nactive = stats.nactive
                /\ FailStats(sz).active_size = stats.active_size
                /\ FailStats(sz).ntotal = stats.ntotal
                /\ FailStats(sz).heap_min = stats.heap_min
                /\ FailStats(sz).heap_max = stats.heap_max
<1> USE Constants
<1>1. ASSUME NEW ptr \in Nat, NEW sz \in Nat
      PROVE  /\ Count(ptr, sz) \in Stats
             /\ Count(ptr, sz).nactive = stats.nactive + 1
             /\ Count(ptr, sz).active_size = (stats.active_size + sz) % SIZE_T
             /\ Count(ptr, sz).ntotal = stats.ntotal + 1
             /\ Count(ptr, sz).heap_min =
                   (IF stats.heap_min = 0 THEN ptr ELSE Least(stats.heap_min, ptr))
             /\ Count(ptr, sz).heap_max = Greatest(stats.heap_max, ptr + ALIGN + sz)
  <2>1. PICK na \in Int : na = stats.nactive + 1
    BY DEF Stats
  <2>2. PICK as \in Int : as = (stats.active_size + sz) % SIZE_T
    BY DEF Stats
  <2>3. PICK nt \in Int : nt = stats.ntotal + 1
    BY DEF Stats
  <2>4. PICK ts \in Int : ts = (stats.total_size + sz) % SIZE_T
    BY DEF Stats
  <2>5. PICK hmin \in Int :
          hmin = IF stats.heap_min = 0 THEN ptr ELSE Least(stats.heap_min, ptr)
    BY DEF Stats, Least
  <2>6. PICK hmax \in Int : hmax = Greatest(stats.heap_max, ptr + ALIGN + sz)
    BY DEF Stats, Greatest
  <2>7. Count(ptr, sz) = [stats EXCEPT !.nactive = na, !.active_size = as, !.ntotal = nt,
                            !.total_size = ts, !.heap_min = hmin, !.heap_max = hmax]
    BY <2>1, <2>2, <2>3, <2>4, <2>5, <2>6 DEF Count
  <2>8. /\ Count(ptr, sz) \in Stats
        /\ Count(ptr, sz).nactive = na /\ Count(ptr, sz).ntotal = nt
        /\ Count(ptr, sz).active_size = as
        /\ Count(ptr, sz).heap_min = hmin /\ Count(ptr, sz).heap_max = hmax
    BY <2>7 DEF Stats
  <2> QED BY <2>1, <2>2, <2>3, <2>5, <2>6, <2>8
<1>2. ASSUME NEW sz \in Nat
      PROVE  /\ FailStats(sz) \in Stats
             /\ FailStats(sz).nactive = stats.nactive
             /\ FailStats(sz).active_size = stats.active_size
             /\ FailStats(sz).ntotal = stats.ntotal
             /\ FailStats(sz).heap_min = stats.heap_min
             /\ FailStats(sz).heap_max = stats.heap_max
  <2>1. PICK nf \in Int : nf = stats.nfail + 1
    BY DEF Stats
  <2>2. PICK fs \in Int : fs = (stats.fail_size + sz) % SIZE_T
    BY DEF Stats
  <2>3. FailStats(sz) = [stats EXCEPT !.nfail = nf, !.fail_size = fs]
    BY <2>1, <2>2 DEF FailStats
  <2> QED BY <2>3 DEF Stats
<1> QED BY <1>1, <1>2

\* Where the header of a block is.
LEMMA HeaderAt ==
    ASSUME Types, Layout, NEW p \in Nat, p - HEADER \in DOMAIN chunks
    PROVE  /\ p - HEADER \in Aligned /\ p - HEADER + ALIGN \in Aligned
           /\ p - HEADER > 0 /\ p <= Top
<1> USE Constants
<1>1. PICK c \in DOMAIN chunks : c = p - HEADER
  OBVIOUS
<1>2. c \in Aligned /\ c # 0 /\ chunks[c] \in Nat /\ HEADER <= chunks[c] /\ c + chunks[c] <= Top
  BY <1>1 DEF Layout
<1>3. c \in Nat
  BY <1>2 DEF Aligned
<1>4. c + ALIGN < Top /\ c + HEADER <= Top
  BY <1>2, <1>3
<1>5. c + ALIGN \in Aligned
  BY <1>2, <1>4, NextAligned
<1> QED BY <1>1, <1>2, <1>3, <1>4, <1>5

LEMMA GivesLayout ==
    ASSUME Types, Layout, Headers, NEW base \in Aligned, NEW sz \in Nat, NEW zero \in BOOLEAN,
           Gives(base, sz, zero)
    PROVE  Layout' /\ base \notin DOMAIN chunks /\ base + HEADER \notin Blocks
<1> USE Constants
<1>1. /\ base \in Nat /\ base # 0 /\ base + (HEADER + sz) <= Top
      /\ \A c \in DOMAIN chunks : \/ base + (HEADER + sz) + ALIGN <= c
                                  \/ c + chunks[c] + ALIGN <= base
  BY DEF Gives, malloc, Aligned, NULL
<1>2. base \notin DOMAIN chunks
  BY <1>1 DEF Layout
<1>3. base + HEADER \notin Blocks
  <2>1. \A p \in Blocks : p \in Nat /\ p - HEADER \in DOMAIN chunks
    BY DEF Blocks, Types, Layout, Headers
  <2>2. (base + HEADER) - HEADER = base
    BY <1>1
  <2> QED BY <1>2, <2>1, <2>2
<1>4. /\ DOMAIN chunks' = DOMAIN chunks \cup {base} /\ chunks'[base] = HEADER + sz
      /\ \A c \in DOMAIN chunks : chunks'[c] = chunks[c]
  BY <1>2 DEF Gives, Put
<1>5. /\ DOMAIN want' = DOMAIN want \cup {base + HEADER} /\ want'[base + HEADER] = sz
      /\ \A p \in DOMAIN want : want'[p] = want[p]
  BY <1>3 DEF Gives, Blocks, Put
<1>6. ASSUME NEW c \in DOMAIN chunks'
      PROVE  /\ c \in Aligned /\ c # 0 /\ chunks'[c] \in Nat
             /\ HEADER <= chunks'[c] /\ c + chunks'[c] <= Top
  BY <1>1, <1>4 DEF Layout
<1>7. ASSUME NEW c \in DOMAIN chunks', NEW d \in DOMAIN chunks', c # d
      PROVE  c + chunks'[c] + ALIGN <= d \/ d + chunks'[d] + ALIGN <= c
  <2>1. CASE c = base
    BY <1>1, <1>4, <1>7, <2>1
  <2>2. CASE d = base
    BY <1>1, <1>4, <1>7, <2>2
  <2>3. CASE c # base /\ d # base
    BY <1>4, <1>7, <2>3 DEF Layout
  <2> QED BY <2>1, <2>2, <2>3
<1>8. ASSUME NEW p \in DOMAIN want'
      PROVE  /\ p - HEADER \in DOMAIN chunks' /\ want'[p] \in Nat
             /\ chunks'[p - HEADER] = HEADER + want'[p]
  <2>1. CASE p = base + HEADER
    <3>1. p - HEADER = base
      BY <1>1, <2>1
    <3> QED BY <1>4, <1>5, <2>1, <3>1
  <2>2. CASE p \in DOMAIN want
    BY <1>4, <1>5, <2>2 DEF Layout
  <2> QED BY <1>5, <2>1, <2>2
<1> QED BY <1>2, <1>3, <1>6, <1>7, <1>8 DEF Layout

\* A new block leaves the headers of the others alone.
LEMMA GivesHeaders ==
    ASSUME Types, Layout, Headers, NEW base \in Aligned, NEW sz \in Nat, NEW zero \in BOOLEAN,
           Gives(base, sz, zero)
    PROVE  Headers' /\ mem' \in [Aligned -> Int]
<1> USE Constants
<1>1. /\ base \in Nat /\ base # 0 /\ base + (HEADER + sz) <= Top
      /\ \A c \in DOMAIN chunks : \/ base + (HEADER + sz) + ALIGN <= c
                                  \/ c + chunks[c] + ALIGN <= base
  BY DEF Gives, malloc, Aligned, NULL
<1>2. base \notin DOMAIN chunks /\ base + HEADER \notin Blocks
  BY GivesLayout
<1>3. /\ DOMAIN want' = DOMAIN want \cup {base + HEADER} /\ want'[base + HEADER] = sz
      /\ \A p \in DOMAIN want : want'[p] = want[p]
  BY <1>2 DEF Gives, Blocks, Put
<1>4. /\ DOMAIN map' = DOMAIN map \cup {base + HEADER} /\ frees' = frees /\ freed' = freed
      /\ DOMAIN chunks' = DOMAIN chunks \cup {base}
  BY PutIs DEF Gives
<1>5. base + ALIGN \in Aligned
  BY <1>1, NextAligned
<1>6. mem' = Block(base, sz, zero)
  BY DEF Gives
<1>7. mem' \in [Aligned -> Int]
  BY <1>6 DEF Block, Types, LIVE
<1>8. mem'[base] = LIVE /\ mem'[base + ALIGN] = sz
  BY <1>1, <1>5, <1>6 DEF Block
<1>9. \A a \in Aligned : a < base \/ base + HEADER + sz <= a => mem'[a] = mem[a]
  BY <1>1, <1>6 DEF Block, Aligned
<1>10. ASSUME NEW p \in Blocks
       PROVE  mem'[p - HEADER] = mem[p - HEADER] /\ mem'[p - HEADER + ALIGN] = mem[p - HEADER + ALIGN]
  <2>1. p \in Nat /\ p - HEADER \in DOMAIN chunks
    BY DEF Blocks, Types, Layout, Headers
  <2>2. PICK c \in DOMAIN chunks : c = p - HEADER
    BY <2>1
  <2>3. c \in Nat /\ c \in Aligned /\ c + ALIGN \in Aligned
    BY <2>1, <2>2, HeaderAt DEF Aligned
  <2>4. chunks[c] \in Nat /\ HEADER <= chunks[c]
    BY DEF Layout
  <2>5. base + (HEADER + sz) + ALIGN <= c \/ c + chunks[c] + ALIGN <= base
    BY <1>1
  <2>6. /\ c < base \/ base + HEADER + sz <= c
        /\ c + ALIGN < base \/ base + HEADER + sz <= c + ALIGN
    BY <1>1, <2>3, <2>4, <2>5
  <2>7. mem'[c] = mem[c] /\ mem'[c + ALIGN] = mem[c + ALIGN]
    BY <1>9, <2>3, <2>6
  <2> QED BY <2>2, <2>7
<1>11. ASSUME NEW p \in DOMAIN want'
       PROVE  mem'[p - HEADER] = LIVE /\ mem'[p - HEADER + ALIGN] = want'[p]
  <2>1. CASE p = base + HEADER
    <3>1. p - HEADER = base
      BY <1>1, <2>1
    <3> QED BY <1>3, <1>8, <2>1, <3>1
  <2>2. CASE p \in DOMAIN want
    BY <1>3, <1>10, <2>2 DEF Headers, Blocks
  <2> QED BY <1>3, <2>1, <2>2
<1>12. \A p \in freed' : p - HEADER \in DOMAIN chunks' /\ mem'[p - HEADER] = FREE
  BY <1>4, <1>10 DEF Headers, Blocks
<1>13. ASSUME NEW p \in Blocks'
       PROVE  stats'.heap_min <= p /\ p <= stats'.heap_max /\ stats'.heap_min # 0
  <2> DEFINE q == base + HEADER
  <2>1. q \in Nat /\ q # 0
    BY <1>1
  <2>2. /\ stats'.heap_min = (IF stats.heap_min = 0 THEN q ELSE Least(stats.heap_min, q))
        /\ stats'.heap_max = Greatest(stats.heap_max, q + ALIGN + sz)
        /\ stats.heap_min \in Int /\ stats.heap_max \in Int
    BY <2>1, StatsIs DEF Gives, Headers, Stats
  <2> HIDE DEF q
  <2>3. p = q \/ p \in Blocks
    BY <1>3, <1>4 DEF Blocks, q
  <2>4. CASE p = q
    BY <2>1, <2>2, <2>4 DEF Least, Greatest
  <2>5. CASE p \in Blocks
    <3>1. p \in Nat /\ stats.heap_min <= p /\ p <= stats.heap_max /\ stats.heap_min # 0
      BY <2>5 DEF Headers, Types, Blocks
    <3> QED BY <2>1, <2>2, <3>1 DEF Least, Greatest
  <2> QED BY <2>3, <2>4, <2>5
<1>15. stats' \in Stats
  <2>1. base + HEADER \in Nat
    BY <1>1
  <2> QED BY <2>1, StatsIs DEF Gives, Headers
<1>14. frees' = {} /\ DOMAIN map' = DOMAIN want' /\ DOMAIN want' \cap freed' = {}
  BY <1>2, <1>3, <1>4 DEF Headers, Blocks
<1> QED BY <1>7, <1>11, <1>12, <1>13, <1>14, <1>15 DEF Headers

LEMMA GivesKeeps ==
    ASSUME IInv, NEW base \in Aligned, NEW sz \in Nat, NEW zero \in BOOLEAN,
           Gives(base, sz, zero), calls' \in Nat
    PROVE  IInv'
<1> USE Constants
<1>1. Types /\ Layout /\ Headers /\ Counts /\ Judged /\ status = "running"
  BY DEF IInv, Sound, Gives
<1>2. /\ Layout' /\ Headers' /\ base + HEADER \notin Blocks
      /\ mem' \in [Aligned -> Int]
  BY <1>1, GivesLayout, GivesHeaders
<1>3. /\ DOMAIN want' = DOMAIN want \cup {base + HEADER} /\ freed' = freed
      /\ DOMAIN allocs' = DOMAIN allocs \cup {base} /\ DOMAIN chunks' = DOMAIN chunks \cup {base}
      /\ UNCHANGED <<status, last>>
  BY DEF Gives, Put
<1>4. base + HEADER \in Nat
  BY DEF Aligned
<1>5. Types'
  BY <1>1, <1>2, <1>3, <1>4 DEF Types
<1>6. Counts'
  <2>1. /\ IsFiniteSet(DOMAIN want')
        /\ Cardinality(DOMAIN want') = Cardinality(DOMAIN want) + 1
    BY <1>1, <1>2, <1>3, FS_AddElement DEF Counts, Blocks
  <2>2. stats'.nactive = stats.nactive + 1 /\ stats'.ntotal = stats.ntotal + 1
    BY <1>1, <1>4, StatsIs, ZenonT(30) DEF Gives, Headers
  <2>3. Cardinality(DOMAIN want) \in Nat /\ Cardinality(freed) \in Nat
    BY <1>1, FS_CardinalityType DEF Counts
  <2>4. stats'.active_size = Sum(want') % SIZE_T
    <3>1. /\ want'[base + HEADER] = sz
          /\ \A p \in DOMAIN want : want'[p] = want[p] /\ want[p] \in Nat
      BY <1>1, <1>2 DEF Gives, Put, Blocks, Layout
    <3>2. /\ base + HEADER \in DOMAIN want' /\ DOMAIN want = DOMAIN want' \ {base + HEADER}
          /\ \A p \in DOMAIN want' : want'[p] \in Int
      <4>1. base + HEADER \notin DOMAIN want
        BY <1>2 DEF Blocks
      <4>2. \A p \in DOMAIN want' : want'[p] \in Nat
        BY <1>3, <3>1
      <4> QED BY <1>3, <4>1, <4>2
    <3>3. Sum(want) \in Int /\ Sum(want') = Sum(want) + sz
      BY <2>1, <3>1, <3>2, SumTakes
    <3>4. stats'.active_size = (stats.active_size + sz) % SIZE_T
      BY <1>1, <1>4, StatsIs DEF Gives, Headers
    <3>5. stats.active_size = Sum(want) % SIZE_T
      BY <1>1 DEF Counts
    <3> QED BY <3>3, <3>4, <3>5, ModAdd
  <2> QED BY <1>1, <1>3, <2>1, <2>2, <2>3, <2>4 DEF Counts
<1>7. Judged'
  BY <1>1, <1>3 DEF Judged
<1> QED BY <1>2, <1>5, <1>6, <1>7 DEF IInv, Sound

-----------------------------------------------------------------------------
(* The other steps.                                                        *)

LEMMA FailsKeeps ==
    ASSUME IInv, Fails, calls' \in Nat
    PROVE  IInv'
<1>1. /\ Types /\ Layout /\ Headers /\ Counts /\ Judged /\ status = "running"
      /\ status' \in {"running", "trapped"}
      /\ UNCHANGED <<mem, chunks, allocs, frees, map, want, freed, last>>
  BY DEF IInv, Sound, Fails
<1>2. /\ stats' \in Stats /\ stats'.nactive = stats.nactive /\ stats'.ntotal = stats.ntotal
      /\ stats'.active_size = stats.active_size
      /\ stats'.heap_min = stats.heap_min /\ stats'.heap_max = stats.heap_max
  BY <1>1, StatsIs DEF Fails, Headers
<1>3. Types'
  BY <1>1 DEF Types, Ends
<1>4. Layout'
  BY <1>1 DEF Layout
<1>5. Headers' /\ Counts'
  BY <1>1, <1>2 DEF Headers, Counts, Blocks
<1>6. Judged'
  BY <1>1 DEF Judged
<1> QED BY <1>3, <1>4, <1>5, <1>6 DEF IInv, Sound

\* What dfree says of a pointer to a block: a live one is accepted, a freed
\* one is reported as such.
LEMMA VerdictRight ==
    ASSUME Types, Layout, Headers, NEW ptr \in Nat
    PROVE  /\ ptr \in DOMAIN want => Verdict(ptr) = "accepted" /\ ptr # NULL
           /\ ptr \in freed => Verdict(ptr) = "double free" /\ ptr # NULL
<1> USE Constants
<1>1. SUFFICES ASSUME ptr \in Blocks
               PROVE  /\ ptr \in DOMAIN want => Verdict(ptr) = "accepted" /\ ptr # NULL
                      /\ ptr \in freed => Verdict(ptr) = "double free" /\ ptr # NULL
  BY DEF Blocks
<1>2. ptr - HEADER \in DOMAIN chunks
  BY <1>1 DEF Blocks, Layout, Headers
<1>3. ptr - HEADER \in Aligned /\ ptr - HEADER > 0
  BY <1>2, HeaderAt
<1>4. (ptr - HEADER) % ALIGN = 0 /\ ptr # NULL
  BY <1>3 DEF Aligned, NULL
<1>5. stats.heap_min <= ptr /\ ptr <= stats.heap_max /\ stats.heap_min \in Int /\ stats.heap_max \in Int
  BY <1>1 DEF Headers, Stats
<1>6. ~(ptr < stats.heap_min) /\ ~(ptr > stats.heap_max)
  BY <1>5
<1>7. /\ ptr \in DOMAIN want => mem[ptr - HEADER] = LIVE
      /\ ptr \in freed => mem[ptr - HEADER] = FREE
  BY DEF Headers
<1> QED BY <1>4, <1>6, <1>7 DEF Verdict, LIVE, FREE

LEMMA ReportsKeeps ==
    ASSUME IInv, NEW ptr \in Nat, Reports(ptr), calls' \in Nat
    PROVE  IInv'
<1>1. /\ Types /\ Layout /\ Headers /\ Counts /\ Judged /\ status = "running"
      /\ UNCHANGED <<mem, chunks, allocs, frees, stats, map, want, freed>>
      /\ last' = [ptr |-> ptr, kind |-> Kind(ptr)]
  BY DEF IInv, Sound, Reports
<1>2. status' \in Ends
  BY <1>1 DEF Reports, Verdict, Ends
<1>3. Judged'
  <2>1. last'.kind = Kind(ptr)
    BY <1>1
  <2>2. Kind(ptr) = "live" => ptr \in DOMAIN want
    BY DEF Kind
  <2>3. Kind(ptr) = "freed" => ptr \in freed
    BY DEF Kind
  <2> QED BY <1>1, <2>1, <2>2, <2>3, VerdictRight DEF Judged, Reports
<1>4. Types' /\ Layout' /\ Headers' /\ Counts'
  BY <1>1, <1>2 DEF Types, Layout, Headers, Counts, Blocks
<1> QED BY <1>3, <1>4 DEF IInv, Sound

\* The program writes into its blocks behind their headers.
LEMMA WriteKeeps ==
    ASSUME IInv, Write
    PROVE  IInv'
<1> USE Constants
<1>1. /\ Types /\ Layout /\ Headers /\ Counts /\ Judged /\ status = "running"
      /\ UNCHANGED <<chunks, allocs, frees, stats, map, want, freed, status, last, calls>>
  BY DEF IInv, Sound, Write
<1>2. PICK p \in DOMAIN want, a \in Aligned, v \in {0, LIVE, FREE} :
        p <= a /\ a < p + want[p] /\ mem' = [mem EXCEPT ![a] = v]
  BY DEF Write
<1>3. mem' \in [Aligned -> Int]
  BY <1>1, <1>2 DEF Types, LIVE, FREE
<1>4. ASSUME NEW q \in Blocks
      PROVE  mem'[q - HEADER] = mem[q - HEADER] /\ mem'[q - HEADER + ALIGN] = mem[q - HEADER + ALIGN]
  <2>1. q \in Nat /\ p \in Nat /\ a \in Nat /\ want[p] \in Nat
    <3>1. q \in Nat /\ p \in Nat
      BY <1>1 DEF Blocks, Types
    <3>2. a \in Nat
      BY DEF Aligned
    <3> QED BY <1>1, <3>1, <3>2 DEF Layout
  <2>2. PICK c \in DOMAIN chunks : c = q - HEADER
    BY <1>1 DEF Blocks, Layout, Headers
  <2>3. PICK d \in DOMAIN chunks : d = p - HEADER
    BY <1>1 DEF Layout
  <2>4. /\ c \in Int /\ d \in Int /\ c + HEADER = q /\ d + HEADER = p
    BY <2>1, <2>2, <2>3
  <2>5. chunks[c] \in Nat /\ HEADER <= chunks[c] /\ chunks[d] = HEADER + want[p]
    BY <1>1, <2>3 DEF Layout
  <2>6. c = d \/ c + chunks[c] + ALIGN <= d \/ d + chunks[d] + ALIGN <= c
    BY <1>1 DEF Layout
  <2>7. a # c /\ a # c + ALIGN
    BY <1>2, <2>1, <2>4, <2>5, <2>6
  <2> QED BY <1>1, <1>2, <2>2, <2>7 DEF Types
<1>5. Types' /\ Layout' /\ Counts' /\ Judged'
  BY <1>1, <1>3 DEF Types, Layout, Counts, Judged
<1>6. Headers'
  BY <1>1, <1>4 DEF Headers, Blocks
<1> QED BY <1>5, <1>6 DEF IInv, Sound

\* A block that is freed keeps its chunk: base_free does not know it.
LEMMA FreesLive ==
    ASSUME IInv, NEW ptr \in Nat, Accepts(ptr), ptr \in DOMAIN want, calls' \in Nat
    PROVE  IInv'
<1> USE Constants
<1>1. /\ Types /\ Layout /\ Headers /\ Counts /\ status = "running"
      /\ DOMAIN map = DOMAIN want /\ ptr \notin freed
  BY DEF IInv, Sound, Accepts, Headers
<1>2. PICK c \in DOMAIN chunks : c = ptr - HEADER
  BY <1>1 DEF Layout
<1>3. /\ c \in Nat /\ c \in Aligned /\ c + HEADER = ptr /\ ptr <= Top /\ c > 0
      /\ chunks[c] \in Nat /\ HEADER <= chunks[c]
  <2>1. c \in Aligned /\ c > 0 /\ ptr <= Top
    BY <1>1, <1>2, HeaderAt
  <2>2. c \in Nat
    BY <2>1 DEF Aligned
  <2> QED BY <1>1, <1>2, <2>1, <2>2 DEF Layout
<1>4. ptr \notin DOMAIN chunks
  <2> SUFFICES ASSUME ptr \in DOMAIN chunks PROVE FALSE
    OBVIOUS
  <2>1. chunks[ptr] \in Nat
    BY <1>1 DEF Layout
  <2>2. c # ptr
    BY <1>3
  <2>3. ptr + chunks[ptr] + ALIGN <= c \/ c + chunks[c] + ALIGN <= ptr
    BY <1>1, <2>2 DEF Layout
  <2>4. CASE c + chunks[c] + ALIGN <= ptr
    BY <1>3, <2>4
  <2>5. CASE ptr + chunks[ptr] + ALIGN <= c
    BY <1>3, <2>1, <2>5
  <2> QED BY <2>3, <2>4, <2>5
<1>5. /\ UNCHANGED <<allocs, frees, chunks>> /\ status' = "running"
      /\ DOMAIN map' = DOMAIN map \ {ptr} /\ DOMAIN want' = DOMAIN want \ {ptr}
      /\ \A q \in DOMAIN want \ {ptr} : want'[q] = want[q]
      /\ freed' = freed \cup {ptr} /\ mem' = [mem EXCEPT ![c] = FREE]
      /\ last' = [ptr |-> ptr, kind |-> Kind(ptr)]
  <2>1. UNCHANGED <<allocs, frees>>
    BY <1>1, <1>4 DEF Accepts, Accepted, base_free, Types
  <2> QED BY <1>1, <1>2, <2>1 DEF Accepts, Accepted, Drop
<1>6. /\ stats' \in Stats /\ stats'.nactive = (stats.nactive - 1) % SIZE_T
      /\ stats'.active_size = (stats.active_size - want[ptr]) % SIZE_T
      /\ stats'.ntotal = stats.ntotal
      /\ stats'.heap_min = stats.heap_min /\ stats'.heap_max = stats.heap_max
  <2>1. mem[ptr - HEADER + ALIGN] = want[ptr] /\ want[ptr] \in Nat /\ stats \in Stats
    BY <1>1 DEF Headers, Layout
  <2>2. PICK na \in Int : na = (stats.nactive - 1) % SIZE_T
    BY <2>1 DEF Stats
  <2>3. PICK as \in Int : as = (stats.active_size - want[ptr]) % SIZE_T
    BY <2>1 DEF Stats
  <2>4. stats' = [stats EXCEPT !.nactive = na, !.active_size = as]
    BY <2>1, <2>2, <2>3 DEF Accepts, Accepted
  <2> QED BY <2>1, <2>2, <2>3, <2>4 DEF Stats
<1>7. mem' \in [Aligned -> Int] /\ mem'[c] = FREE /\ \A a \in Aligned \ {c} : mem'[a] = mem[a]
  BY <1>1, <1>3, <1>5 DEF Types, FREE
<1>8. ASSUME NEW q \in Blocks, q # ptr
      PROVE  mem'[q - HEADER] = mem[q - HEADER] /\ mem'[q - HEADER + ALIGN] = mem[q - HEADER + ALIGN]
  <2>1. q \in Nat
    BY <1>1 DEF Blocks, Types
  <2>2. PICK d \in DOMAIN chunks : d = q - HEADER
    BY <1>1 DEF Blocks, Layout, Headers
  <2>3. d \in Aligned /\ d + ALIGN \in Aligned
    BY <1>1, <2>1, <2>2, HeaderAt
  <2>4. d \in Nat /\ d # c /\ chunks[d] \in Nat /\ HEADER <= chunks[d]
    BY <1>1, <1>3, <1>8, <2>1, <2>2, <2>3 DEF Aligned, Layout
  <2>5. d + chunks[d] + ALIGN <= c \/ c + chunks[c] + ALIGN <= d
    BY <1>1, <2>4 DEF Layout
  <2>6. d + ALIGN # c
    BY <1>3, <2>4, <2>5
  <2> QED BY <1>7, <2>2, <2>3, <2>4, <2>6
<1>9. Types'
  BY <1>1, <1>5, <1>7 DEF Types
<1>10. Layout'
  BY <1>1, <1>5 DEF Layout
<1>11. Headers'
  <2>1. frees' = {} /\ DOMAIN map' = DOMAIN want' /\ DOMAIN want' \cap freed' = {}
    BY <1>1, <1>5 DEF Headers
  <2>2. ASSUME NEW p \in DOMAIN want'
        PROVE  mem'[p - HEADER] = LIVE /\ mem'[p - HEADER + ALIGN] = want'[p]
    BY <1>1, <1>5, <1>8 DEF Headers, Blocks
  <2>3. ASSUME NEW p \in freed' PROVE p - HEADER \in DOMAIN chunks' /\ mem'[p - HEADER] = FREE
    <3>1. CASE p = ptr
      BY <1>2, <1>5, <1>7, <3>1
    <3>2. CASE p \in freed
      BY <1>1, <1>5, <1>8, <3>2 DEF Headers, Blocks
    <3> QED BY <1>5, <3>1, <3>2
  <2>4. Blocks' = Blocks
    BY <1>5 DEF Blocks
  <2>5. \A p \in Blocks : stats.heap_min <= p /\ p <= stats.heap_max /\ stats.heap_min # 0
    BY <1>1 DEF Headers
  <2> QED BY <1>6, <2>1, <2>2, <2>3, <2>4, <2>5 DEF Headers
<1>12. Counts'
  <2> DEFINE n == Cardinality(DOMAIN want)
  <2>1. IsFiniteSet(DOMAIN want) /\ IsFiniteSet(freed) /\ n \in Nat /\ Cardinality(freed) \in Nat
    BY <1>1, FS_CardinalityType DEF Counts
  <2>2. /\ IsFiniteSet(DOMAIN want') /\ Cardinality(DOMAIN want') = n - 1
        /\ IsFiniteSet(freed') /\ Cardinality(freed') = Cardinality(freed) + 1
    <3>1. /\ DOMAIN want' = DOMAIN want \ {ptr} /\ ptr \in DOMAIN want
          /\ freed' = freed \cup {ptr} /\ ptr \notin freed
      BY <1>1, <1>2, <1>5 DEF Headers
    <3>2. IsFiniteSet(DOMAIN want \ {ptr}) /\ Cardinality(DOMAIN want \ {ptr}) = n - 1
      BY <2>1, <3>1, FS_RemoveElement
    <3>3. IsFiniteSet(freed \cup {ptr}) /\ Cardinality(freed \cup {ptr}) = Cardinality(freed) + 1
      BY <2>1, <3>1, FS_AddElement
    <3> QED BY <3>1, <3>2, <3>3
  <2>3. n # 0
    BY <2>1, FS_EmptySet
  <2>4. n <= Top
    <3>1. DOMAIN want \in SUBSET (1..Top)
      <4>1. ASSUME NEW p \in DOMAIN want PROVE p \in 1..Top
        <5>1. p \in Nat /\ p - HEADER \in DOMAIN chunks
          BY <1>1 DEF Types, Layout
        <5>2. p - HEADER > 0 /\ p <= Top
          BY <1>1, <5>1, HeaderAt
        <5> QED BY <5>1, <5>2
      <4> QED BY <4>1
    <3>2. IsFiniteSet(1..Top) /\ Cardinality(1..Top) = Top
      <4>1. Top \in Int /\ ~(1 > Top)
        BY <1>2, HeaderAt
      <4>2. PICK t \in Int : t = Top /\ ~(1 > t)
        BY <4>1
      <4>3. /\ IsFiniteSet(1..t)
            /\ Cardinality(1..t) = IF 1 > t THEN 0 ELSE t - 1 + 1
        <5>1. 1 \in Int
          OBVIOUS
        <5> QED BY <5>1, FS_Interval, Zenon
      <4> QED BY <4>2, <4>3
    <3> QED BY <3>1, <3>2, FS_Subset
  <2>5. stats.nactive = n /\ stats.ntotal = n + Cardinality(freed)
    BY <1>1 DEF Counts
  <2> HIDE DEF n
  <2>6. (n - 1) % SIZE_T = n - 1
    <3>1. n - 1 \in Nat /\ n - 1 < SIZE_T
      BY <2>1, <2>3, <2>4
    <3> QED BY <3>1, ModSmall
  <2>7. stats'.active_size = Sum(want') % SIZE_T
    <3>1. /\ \A p \in DOMAIN want : want[p] \in Nat
          /\ DOMAIN want' = DOMAIN want \ {ptr} /\ \A p \in DOMAIN want' : want'[p] = want[p]
      BY <1>1, <1>5 DEF Layout
    <3>2. Sum(want) \in Int /\ Sum(want') \in Int /\ Sum(want) = Sum(want') + want[ptr]
      BY <2>1, <3>1, SumTakes
    <3>3. stats.active_size = Sum(want) % SIZE_T
      BY <1>1 DEF Counts
    <3>4. PICK b \in Int : b = -want[ptr]
      BY <3>1
    <3>5. want[ptr] \in Nat /\ Sum(want) % SIZE_T \in Int
      BY <3>1, <3>2
    <3>6. stats.active_size - want[ptr] = (Sum(want) % SIZE_T) + b /\ Sum(want) + b = Sum(want')
      BY <3>2, <3>3, <3>4, <3>5
    <3>7. ((Sum(want) % SIZE_T) + b) % SIZE_T = (Sum(want) + b) % SIZE_T
      <4>1. SIZE_T \in Nat \ {0}
        BY Constants
      <4> QED BY <3>2, <3>4, <4>1, ModAdd, Zenon
    <3>8. stats'.active_size = (stats.active_size - want[ptr]) % SIZE_T
      BY <1>6
    <3> QED BY <3>6, <3>7, <3>8, Zenon
  <2> QED BY <1>6, <2>1, <2>2, <2>5, <2>6, <2>7 DEF Counts
<1>13. Judged'
  BY <1>5 DEF Judged, Kind
<1> QED BY <1>9, <1>10, <1>11, <1>12, <1>13 DEF IInv, Sound

LEMMA AcceptsKeeps ==
    ASSUME IInv, NEW ptr \in Nat, Accepts(ptr), calls' \in Nat
    PROVE  IInv'
<1>1. CASE ptr \in DOMAIN want
  BY <1>1, FreesLive
<1>2. CASE ptr \notin DOMAIN want
  <2>1. /\ Types /\ Layout /\ Headers /\ status = "running" /\ ptr \notin DOMAIN map
    BY <1>2 DEF IInv, Sound, Accepts, Headers
  <2>2. ptr \notin freed
    BY <2>1, VerdictRight DEF Accepts
  <2>3. /\ status' = "undefined" /\ UNCHANGED chunks
        /\ last' = [ptr |-> ptr, kind |-> "wild"] /\ freed' = freed \cup {ptr}
        /\ DOMAIN want' = DOMAIN want \ {ptr}
        /\ \A q \in DOMAIN want \ {ptr} : want'[q] = want[q]
        /\ mem' = [mem EXCEPT ![ptr - HEADER] = FREE]
    BY <1>2, <2>1, <2>2 DEF Accepts, Accepted, Kind, Drop
  <2>4. DOMAIN allocs' \subseteq DOMAIN allocs
    BY DEF Accepts, Accepted, base_free, Drop
  <2>5. mem' \in [Aligned -> Int]
    <3>1. PICK h : h = ptr - HEADER
      OBVIOUS
    <3>2. mem \in [Aligned -> Int] /\ mem' = [mem EXCEPT ![h] = FREE] /\ FREE \in Int
      BY <2>1, <2>3, <3>1 DEF Types, FREE
    <3>3. CASE h \in Aligned
      BY <3>2, <3>3
    <3>4. CASE h \notin Aligned
      BY <3>2, <3>4
    <3> QED BY <3>3, <3>4
  <2>6. Types'
    BY <2>1, <2>3, <2>4, <2>5 DEF Types, Ends
  <2>7. Layout'
    BY <2>1, <2>3 DEF Layout
  <2>8. Sound' /\ Judged'
    BY <2>3 DEF Sound, Judged
  <2> QED BY <2>6, <2>7, <2>8 DEF IInv
<1> QED BY <1>1, <1>2

-----------------------------------------------------------------------------
(* Invariance.                                                             *)

LEMMA InitIInv == Init => IInv
<1> SUFFICES ASSUME Init PROVE IInv
  OBVIOUS
<1> USE Constants
<1>1. DOMAIN chunks = {} /\ DOMAIN allocs = {} /\ DOMAIN want = {} /\ DOMAIN map = {} /\ freed = {}
  BY DEF Init
<1>2. Types
  BY <1>1 DEF Init, Types, Ends
<1>3. Layout
  BY <1>1 DEF Layout
<1>4. stats \in Stats /\ stats.nactive = 0 /\ stats.ntotal = 0 /\ stats.active_size = 0
  BY DEF Init, Stats
<1>5. Headers
  BY <1>1, <1>4 DEF Init, Headers, Blocks
<1>6. Counts
  <2>1. Sum(want) % SIZE_T = 0
    BY <1>1, SumEmpty
  <2> QED BY <1>1, <1>4, <2>1, FS_EmptySet DEF Counts
<1>7. Judged
  BY DEF Init, Judged
<1> QED BY <1>2, <1>3, <1>5, <1>6, <1>7 DEF IInv, Sound

LEMMA Invariance == Spec => []IInv
<1>1. IInv /\ [Next]_vars => IInv'
  <2> SUFFICES ASSUME IInv, [Next]_vars PROVE IInv'
    OBVIOUS
  <2>1. CASE Next
    <3>1. Move /\ calls' \in Nat
      BY <2>1, StepMoves DEF IInv
    <3> QED BY <3>1, GivesKeeps, FailsKeeps, ReportsKeeps, AcceptsKeeps, WriteKeeps DEF Move
  <2>2. CASE UNCHANGED vars
    BY <2>2 DEF vars, IInv, Types, Layout, Sound, Headers, Counts, Judged, Blocks
  <2> QED BY <2>1, <2>2
<1> QED BY <1>1, InitIInv, PTL DEF Spec

\* Live blocks and their headers never overlap and lie in the memory that
\* malloc has, with all the bytes asked for: the tests of dmalloc and dcalloc
\* catch every size that wraps.
THEOREM BlocksDisjoint == Spec => []BlocksApart
<1>1. IInv => BlocksApart
  <2> SUFFICES ASSUME IInv PROVE BlocksApart
    OBVIOUS
  <2> USE Constants
  <2>1. ASSUME NEW p \in DOMAIN want
        PROVE  /\ p \in Nat /\ p - HEADER \in DOMAIN chunks /\ want[p] \in Nat
               /\ chunks[p - HEADER] = HEADER + want[p] /\ p + want[p] <= Top
    <3>1. /\ p \in Nat /\ p - HEADER \in DOMAIN chunks /\ want[p] \in Nat
          /\ chunks[p - HEADER] = HEADER + want[p]
      BY DEF IInv, Types, Layout
    <3>2. (p - HEADER) + chunks[p - HEADER] <= Top
      BY <3>1 DEF IInv, Layout
    <3> QED BY <3>1, <3>2
  <2>2. ASSUME NEW p \in DOMAIN want, NEW q \in DOMAIN want \ {p}
        PROVE  p + want[p] <= q - HEADER \/ q + want[q] <= p - HEADER
    <3>1. p - HEADER # q - HEADER
      BY <2>1
    <3>2. \/ (p - HEADER) + chunks[p - HEADER] + ALIGN <= q - HEADER
          \/ (q - HEADER) + chunks[q - HEADER] + ALIGN <= p - HEADER
      BY <2>1, <3>1 DEF IInv, Layout
    <3> QED BY <2>1, <3>2
  <2> QED BY <2>1, <2>2 DEF BlocksApart
<1> QED BY <1>1, Invariance, PTL

\* dfree accepts every live block and reports every second free of one as
\* such, whatever the program has written and allocated in between.
THEOREM FreesJudged == Spec => []FreesJudgedRight
<1>1. IInv => FreesJudgedRight
  BY DEF IInv, Sound, Headers, Judged, FreesJudgedRight
<1> QED BY <1>1, Invariance, PTL

\* get_statistics and print_leak_report tell the truth about the live blocks:
\* how many there are, where, and how many bytes they have together.
THEOREM AccountsTrue == Spec => []AccountsExact
<1>1. IInv => AccountsExact
  <2> SUFFICES ASSUME IInv, status # "undefined" PROVE AccountsExact
    BY DEF AccountsExact
  <2>1. Headers /\ Counts
    BY DEF IInv, Sound
  <2>2. print_leak_report = {<<p, want[p]>> : p \in DOMAIN want}
    BY <2>1 DEF Headers, print_leak_report
  <2> QED BY <2>1, <2>2 DEF Counts, AccountsExact, get_statistics
<1> QED BY <1>1, Invariance, PTL
=============================================================================
