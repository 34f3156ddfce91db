-------------------------- MODULE ShardmasterProofs --------------------------
(***************************************************************************)
(* Proofs about the shardmaster's two halves: Shards, the arithmetic that  *)
(* divides the key space, for any alphabet, any granularity and any number *)
(* of servers, and StaticShardmaster, its threads, for any set of clients. *)
(*                                                                         *)
(* Shards: the string order of words of one length is the order of their   *)
(* bucket numbers (BucketOrder), and bucket_to_str undoes str_to_bucket    *)
(* (BucketWord).  So the shards are intervals of numbers: split_into       *)
(* divides them (SplitInto), and two halves in the place of a shard, put   *)
(* in order by sort_shards, divide them again (HalvesDivide).  The sums of *)
(* str_to_bucket and the powers are followed along by UpTo, which takes    *)
(* the least number at which a claim fails.                                *)
(*                                                                         *)
(* StaticShardmaster: MasterInv, in the last section.                      *)
(***************************************************************************)
EXTENDS StaticShardmaster, Shards, FiniteSetTheorems, FunctionTheorems, WellFoundedInduction, TLAPS

-----------------------------------------------------------------------------
(* Induction, and recursive functions.                                     *)

LEMMA Smallest ==
    ASSUME NEW B \in SUBSET Nat, B # {}
    PROVE  \E n \in B : \A k \in B : ~(k < n)
<1>1. PICK n \in B : \A k \in B : ~(<<k, n>> \in OpToRel(<, Nat))
  BY NatLessThanWellFounded, WFMin
<1> QED BY <1>1 DEF OpToRel

\* A set of numbers that has 0, and with a number below N the next, has all of 0..N.
LEMMA UpTo ==
    ASSUME NEW N \in Nat, NEW T, 0 \in T, \A i \in 0..N-1 : i \in T => i + 1 \in T
    PROVE  \A i \in 0..N : i \in T
<1> SUFFICES ASSUME NEW b \in 0..N, b \notin T PROVE FALSE
  OBVIOUS
<1>1. PICK B : B = {i \in 0..N : i \notin T}
  OBVIOUS
<1>2. PICK n \in B : \A k \in B : ~(k < n)
  <2>1. B \in SUBSET Nat /\ B # {}
    BY <1>1
  <2> QED BY <2>1, Smallest
<1>3. n \in 0..N /\ n \notin T /\ n # 0
  BY <1>1, <1>2
<1>4. n - 1 \in 0..N-1 /\ n - 1 \in 0..N /\ n - 1 < n /\ (n - 1) + 1 = n
  BY <1>3
<1>5. n - 1 \in T
  BY <1>1, <1>2, <1>4
<1> QED BY <1>3, <1>4, <1>5

\* A function that is given at 0 and from each number to the next.
Recurs(f, n, a, F) ==
    f \in [0..n -> Int] /\ f[0] = a /\ \A i \in 1..n : f[i] = F[i][f[i - 1]]

LEMMA RecursionExists ==
    ASSUME NEW N \in Nat, NEW a \in Int, NEW F \in [1..N -> [Int -> Int]]
    PROVE  \E f : Recurs(f, N, a, F)
<1> DEFINE T == {n \in 0..N : \E f : Recurs(f, n, a, F)}
<1>1. 0 \in T
  <2>1. PICK f : f = [i \in 0..0 |-> a]
    OBVIOUS
  <2>2. Recurs(f, 0, a, F)
    BY <2>1 DEF Recurs
  <2> QED BY <2>2
<1>2. ASSUME NEW n \in 0..N-1, n \in T PROVE n + 1 \in T
  <2>1. PICK f : Recurs(f, n, a, F)
    BY <1>2
  <2>2. PICK m \in 1..N : m = n + 1 /\ m \in 0..N /\ m - 1 = n
    OBVIOUS
  <2>3. PICK v : v = F[m][f[n]]
    OBVIOUS
  <2>4. f \in [0..n -> Int] /\ n \in 0..n /\ v \in Int
    BY <2>1, <2>2, <2>3 DEF Recurs
  <2>5. PICK g : g = [i \in 0..m |-> IF i = m THEN v ELSE f[i]]
    OBVIOUS
  <2>6. g \in [0..m -> Int] /\ g[m] = v /\ \A i \in 0..n : g[i] = f[i]
    <3>1. \A i \in 0..m : i # m => i \in 0..n
      BY <2>2
    <3>2. m \in 0..m /\ \A i \in 0..n : i \in 0..m /\ i # m
      BY <2>2
    <3> QED BY <2>4, <2>5, <3>1, <3>2
  <2>7. ASSUME NEW i \in 1..m PROVE g[i] = F[i][g[i - 1]]
    <3>1. CASE i = m
      BY <2>2, <2>3, <2>4, <2>6, <3>1
    <3>2. CASE i # m
      <4>1. i \in 1..n /\ i \in 0..n /\ i - 1 \in 0..n
        BY <2>2, <3>2
      <4> QED BY <2>1, <2>6, <4>1 DEF Recurs
    <3> QED BY <3>1, <3>2
  <2>8. Recurs(g, m, a, F)
    <3>1. g[0] = a
      BY <2>1, <2>6 DEF Recurs
    <3> QED BY <2>6, <2>7, <3>1 DEF Recurs
  <2> QED BY <2>2, <2>8
<1> HIDE DEF T
<1>3. \A i \in 0..N-1 : i \in T => i + 1 \in T
  BY <1>2
<1>4. \A i \in 0..N : i \in T
  BY <1>1, <1>3, UpTo
<1> QED BY <1>4 DEF T

-----------------------------------------------------------------------------
(* Arithmetic.                                                             *)

LEMMA DivMod ==
    ASSUME NEW m \in Nat \ {0}, NEW a \in Nat
    PROVE  a \div m \in Nat /\ a % m \in 0..m-1 /\ a = m * (a \div m) + (a % m)
  OBVIOUS

LEMMA TimesMonotone ==
    ASSUME NEW p \in Nat, NEW a \in Int, NEW b \in Int, a <= b
    PROVE  a * p \in Int /\ b * p \in Int /\ a * p <= b * p
  OBVIOUS

\* A quotient and a rest below the divisor are those of the division.
LEMMA Division ==
    ASSUME NEW m \in Nat \ {0}, NEW q \in Nat, NEW r \in 0..m-1, NEW x, x = m * q + r
    PROVE  x \in Nat /\ x \div m = q /\ x % m = r
<1>1. x \in Nat
  OBVIOUS
<1>2. PICK p \in Nat, t \in 0..m-1 : x = m * p + t /\ x \div m = p /\ x % m = t
  BY <1>1, DivMod
<1>3. m * p \in Nat /\ m * q \in Nat
  OBVIOUS
<1>4. ~(p < q)
  <2> SUFFICES ASSUME p + 1 <= q PROVE FALSE
    OBVIOUS
  <2>1. (p + 1) * m <= q * m /\ (p + 1) * m = m * p + m /\ q * m = m * q
    BY TimesMonotone
  <2> QED BY <1>2, <1>3, <2>1
<1>5. ~(q < p)
  <2> SUFFICES ASSUME q + 1 <= p PROVE FALSE
    OBVIOUS
  <2>1. (q + 1) * m <= p * m /\ (q + 1) * m = m * q + m /\ p * m = m * p
    BY TimesMonotone
  <2> QED BY <1>2, <1>3, <2>1
<1>6. p = q
  BY <1>4, <1>5
<1> QED BY <1>1, <1>2, <1>3, <1>6

\* The rest by a divisor's divisor.
LEMMA ModMod ==
    ASSUME NEW m \in Nat \ {0}, NEW c \in Nat \ {0}, NEW x \in Nat
    PROVE  (x % (c * m)) % m = x % m
<1>1. PICK M \in Nat \ {0} : M = c * m
  OBVIOUS
<1>2. PICK q \in Nat, r \in 0..M-1 : x = M * q + r /\ x % M = r
  BY DivMod
<1>3. PICK p \in Nat, t \in 0..m-1 : r = m * p + t /\ r % m = t
  <2>1. r \in Nat
    OBVIOUS
  <2> QED BY <2>1, DivMod
<1>4. PICK h \in Nat : h = c * q + p
  OBVIOUS
<1>5. m * (c * q + p) = M * q + m * p
  BY <1>1
<1>6. x = m * h + t
  BY <1>2, <1>3, <1>4, <1>5
<1>7. x % m = t
  BY <1>6, Division
<1> QED BY <1>1, <1>2, <1>3, <1>7

-----------------------------------------------------------------------------
(* The numbers of buckets.                                                 *)

LEMMA Powers ==
    /\ \A g \in 0..MAX_GRANULARITY : GRANULARITY_OPTS[g] \in Nat \ {0}
    /\ GRANULARITY_OPTS[0] = 1
    /\ \A g \in 1..MAX_GRANULARITY : GRANULARITY_OPTS[g] = CHARS * GRANULARITY_OPTS[g - 1]
<1>1. PICK N \in Nat \ {0} : N = MAX_GRANULARITY
  BY ShardConstants
<1>2. CHARS \in Nat \ {0}
  BY ShardConstants
<1> DEFINE Is(f) == f = [g \in 0..N |-> IF g = 0 THEN 1 ELSE CHARS * f[g - 1]]
<1>3. \E f : Is(f)
  <2>1. PICK F : F = [i \in 1..N |-> [v \in Int |-> CHARS * v]]
    OBVIOUS
  <2>2. F \in [1..N -> [Int -> Int]]
    BY <1>2, <2>1
  <2>3. PICK f : Recurs(f, N, 1, F)
    <3>1. 1 \in Int
      OBVIOUS
    <3> QED BY <2>2, <3>1, RecursionExists
  <2>4. \A i \in 1..N : i - 1 \in 0..N /\ f[i - 1] \in Int /\ f[i] = CHARS * f[i - 1]
    BY <2>1, <2>3 DEF Recurs
  <2>5. f = [i \in 0..N |-> f[i]] /\ f[0] = 1
    BY <2>3 DEF Recurs
  <2>6. Is(f)
    BY <2>4, <2>5
  <2> QED BY <2>6
<1>4. Is(GRANULARITY_OPTS)
  <2>1. GRANULARITY_OPTS = CHOOSE f : Is(f)
    BY <1>1 DEF GRANULARITY_OPTS
  <2> HIDE DEF Is
  <2> QED BY <1>3, <2>1
<1>5. \A g \in 0..N : g \in {i \in 0..N : GRANULARITY_OPTS[i] \in Nat \ {0}}
  <2> DEFINE T == {i \in 0..N : GRANULARITY_OPTS[i] \in Nat \ {0}}
  <2>1. 0 \in T
    BY <1>4
  <2>2. ASSUME NEW i \in 0..N-1, i \in T PROVE i + 1 \in T
    <3>1. PICK v \in Nat \ {0} : v = GRANULARITY_OPTS[i]
      BY <2>2
    <3>2. i + 1 \in 0..N /\ i + 1 # 0 /\ (i + 1) - 1 = i
      OBVIOUS
    <3>3. GRANULARITY_OPTS[i + 1] = CHARS * v
      BY <1>4, <3>1, <3>2
    <3>4. CHARS * v \in Nat \ {0}
      BY <1>2
    <3> QED BY <3>2, <3>3, <3>4
  <2> HIDE DEF T
  <2>3. \A i \in 0..N : i \in T
    BY <2>1, <2>2, UpTo
  <2> QED BY <2>3 DEF T
<1>6. \A g \in 1..N : g \in 0..N /\ g # 0
  OBVIOUS
<1> QED BY <1>1, <1>4, <1>5, <1>6

-----------------------------------------------------------------------------
(* The order of strings.                                                   *)

Texts == Seq(Int)

\* s is in front of t because of position i.
Before(s, t, i) ==
    /\ i \in 1..Len(t) /\ i <= Len(s) + 1
    /\ \A j \in 1..i-1 : s[j] = t[j]
    /\ i = Len(s) + 1 \/ s[i] < t[i]

LEMMA LessBefore ==
    ASSUME NEW s, NEW t
    PROVE  Less(s, t) <=> \E i \in Int : Before(s, t, i)
<1>1. \A i \in 1..Len(t) : i \in Int
  OBVIOUS
<1> QED BY <1>1 DEF Less, Before

LEMMA LessIrreflexive ==
    ASSUME NEW s \in Texts
    PROVE  ~Less(s, s)
<1> SUFFICES ASSUME NEW i \in Int, Before(s, s, i) PROVE FALSE
  BY LessBefore
<1>1. PICK n \in Nat : n = Len(s)
  BY DEF Texts
<1>2. i \in 1..n /\ (i = n + 1 \/ s[i] < s[i])
  BY <1>1 DEF Before
<1>3. s[i] \in Int
  BY <1>1, <1>2 DEF Texts
<1> QED BY <1>2, <1>3

LEMMA LessTransitive ==
    ASSUME NEW s \in Texts, NEW t \in Texts, NEW u \in Texts, Less(s, t), Less(t, u)
    PROVE  Less(s, u)
<1>1. PICK i \in Int, k \in Int : Before(s, t, i) /\ Before(t, u, k)
  BY LessBefore
<1>0. Len(s) \in Nat /\ Len(t) \in Nat /\ Len(u) \in Nat
  BY DEF Texts
<1>2. PICK a, b, c : a \in Nat /\ b \in Nat /\ c \in Nat
                     /\ a = Len(s) /\ b = Len(t) /\ c = Len(u)
  BY <1>0
<1>3. /\ i \in 1..b /\ i <= a + 1 /\ (\A j \in 1..i-1 : s[j] = t[j]) /\ (i = a + 1 \/ s[i] < t[i])
      /\ k \in 1..c /\ k <= b + 1 /\ (\A j \in 1..k-1 : t[j] = u[j]) /\ (k = b + 1 \/ t[k] < u[k])
  BY <1>1, <1>2 DEF Before
<1>4. CASE i < k
  <2>1. i \in 1..c /\ i \in 1..k-1
    BY <1>2, <1>3, <1>4
  <2>2. \A j \in 1..i-1 : j \in 1..k-1
    BY <1>4
  <2>3. \A j \in 1..i-1 : s[j] = u[j]
    BY <1>3, <2>2
  <2>4. Before(s, u, i)
    BY <1>2, <1>3, <2>1, <2>3 DEF Before
  <2> QED BY <2>4, LessBefore
<1>5. CASE ~(i < k)
  <2>1. k <= a + 1 /\ k \in 1..b /\ t[k] < u[k]
    BY <1>2, <1>3, <1>5
  <2>2. \A j \in 1..k-1 : j \in 1..i-1
    BY <1>5
  <2>3. \A j \in 1..k-1 : s[j] = u[j]
    BY <1>3, <2>2
  <2>4. k = a + 1 \/ s[k] < u[k]
    <3>1. CASE k < i
      <4>1. k \in 1..i-1
        BY <1>3, <3>1
      <4> QED BY <1>3, <2>1, <4>1
    <3>2. CASE k = i /\ k # a + 1
      <4>1. k \in 1..a /\ s[k] < t[k]
        BY <1>2, <1>3, <2>1, <3>2
      <4>2. s[k] \in Int /\ t[k] \in Int /\ u[k] \in Int
        BY <1>2, <1>3, <2>1, <4>1 DEF Texts
      <4> QED BY <2>1, <4>1, <4>2
    <3> QED BY <1>5, <3>1, <3>2
  <2>5. Before(s, u, k)
    BY <1>2, <1>3, <2>1, <2>3, <2>4 DEF Before
  <2> QED BY <2>5, LessBefore
<1> QED BY <1>4, <1>5

\* The four ways to follow two comparisons.
LEMMA LeqTransitive ==
    ASSUME NEW s \in Texts, NEW t \in Texts, NEW u \in Texts
    PROVE  /\ Leq(s, t) /\ Leq(t, u) => Leq(s, u)
           /\ Less(s, t) /\ Leq(t, u) => Less(s, u)
           /\ Leq(s, t) /\ Less(t, u) => Less(s, u)
           /\ Less(s, t) => ~Leq(t, s)
  BY LessTransitive, LessIrreflexive DEF Leq

-----------------------------------------------------------------------------
(* The bounds of a shard: strings of one length g, and their buckets.      *)

Chars == 0..CHARS-1
Words(g) == [1..g -> Chars]

LEMMA WordTyped ==
    ASSUME NEW g \in Nat, NEW w \in Words(g)
    PROVE  w \in Texts /\ Len(w) = g /\ DOMAIN w = 1..g
<1>1. CHARS \in Nat
  BY ShardConstants
<1>2. w \in [1..g -> Int]
  BY <1>1 DEF Words, Chars
<1> QED BY <1>2 DEF Texts

\* The first position at which two words differ.
FirstAt(g, s, t, i) == i \in 1..g /\ s[i] # t[i] /\ \A j \in 1..i-1 : s[j] = t[j]

LEMMA FirstDifference ==
    ASSUME NEW g \in Nat, NEW s \in Words(g), NEW t \in Words(g), s # t
    PROVE  \E i : FirstAt(g, s, t, i)
<1>1. PICK B : B = {i \in 1..g : s[i] # t[i]}
  OBVIOUS
<1>2. B \in SUBSET Nat /\ B # {}
  BY <1>1 DEF Words
<1>3. PICK i \in B : \A k \in B : ~(k < i)
  BY <1>2, Smallest
<1>4. i \in 1..g /\ s[i] # t[i]
  BY <1>1
<1>5. \A j \in 1..i-1 : j \in 1..g /\ j < i
  BY <1>4
<1>6. \A j \in 1..i-1 : s[j] = t[j]
  BY <1>1, <1>3, <1>5
<1> QED BY <1>4, <1>6 DEF FirstAt

\* The sums that str_to_bucket makes of a word.
Sums(w, g, sum) ==
    /\ sum \in [0..g -> Nat] /\ sum[0] = 0
    /\ \A i \in 1..g : sum[i] = sum[i - 1] + w[i] * GRANULARITY_OPTS[g - i]

LEMMA BucketSums ==
    ASSUME NEW g \in 0..MAX_GRANULARITY, NEW w \in Words(g)
    PROVE  \E sum : Sums(w, g, sum) /\ str_to_bucket(w) = sum[g]
<1>0. MAX_GRANULARITY \in Nat /\ CHARS \in Nat \ {0} /\ g \in Nat
  BY ShardConstants
<1>1. Len(w) = g /\ \A i \in 1..g : w[i] \in Chars
  BY <1>0, WordTyped DEF Words
<1>2. ASSUME NEW i \in 1..g
      PROVE  /\ toupper(w[i]) = w[i] /\ w[i] \in Nat /\ GRANULARITY_OPTS[g - i] \in Nat
             /\ w[i] * GRANULARITY_OPTS[g - i] \in Nat
  <2>1. g - i \in 0..MAX_GRANULARITY
    BY <1>0
  <2>2. GRANULARITY_OPTS[g - i] \in Nat
    BY <2>1, Powers
  <2>3. toupper(w[i]) = w[i] /\ w[i] \in Nat
    BY <1>0, <1>1 DEF toupper, Chars
  <2> QED BY <2>2, <2>3
<1>3. PICK P : P = [i \in 1..g |-> w[i] * GRANULARITY_OPTS[g - i]]
  OBVIOUS
<1>4. P \in [1..g -> Nat]
  BY <1>2, <1>3
<1> DEFINE Is(f) == f = [i \in 0..g |-> IF i = 0 THEN 0 ELSE f[i - 1] + P[i]]
<1>5. \E f : Is(f)
  <2>1. PICK F : F = [i \in 1..g |-> [v \in Int |-> v + P[i]]]
    OBVIOUS
  <2>2. F \in [1..g -> [Int -> Int]]
    BY <1>4, <2>1
  <2>3. PICK f : Recurs(f, g, 0, F)
    <3>1. 0 \in Int
      OBVIOUS
    <3> QED BY <1>0, <2>2, <3>1, RecursionExists
  <2>4. ASSUME NEW i \in 1..g PROVE f[i] = f[i - 1] + P[i]
    <3>1. i - 1 \in 0..g
      BY <1>0
    <3>2. f[i - 1] \in Int
      BY <2>3, <3>1 DEF Recurs
    <3>3. f[i] = F[i][f[i - 1]]
      BY <2>3 DEF Recurs
    <3> QED BY <2>1, <3>2, <3>3
  <2>5. f = [i \in 0..g |-> f[i]] /\ f[0] = 0
    BY <2>3 DEF Recurs
  <2>6. \A i \in 0..g : f[i] = IF i = 0 THEN 0 ELSE f[i - 1] + P[i]
    <3>1. \A i \in 0..g : i # 0 => i \in 1..g
      BY <1>0
    <3> QED BY <2>4, <2>5, <3>1
  <2>7. Is(f)
    BY <2>5, <2>6
  <2> QED BY <2>7
<1>6. PICK sum : sum = CHOOSE f : Is(f)
  OBVIOUS
<1>7. Is(sum)
  <2> HIDE DEF Is
  <2> QED BY <1>5, <1>6
<1>8. str_to_bucket(w) = sum[g]
  <2>1. \A f : Is(f) <=> f = [i \in 0..g |-> IF i = 0 THEN 0
                               ELSE f[i - 1] + toupper(w[i]) * GRANULARITY_OPTS[g - i]]
    <3> SUFFICES ASSUME NEW f
                 PROVE  [i \in 0..g |-> IF i = 0 THEN 0 ELSE f[i - 1] + P[i]]
                        = [i \in 0..g |-> IF i = 0 THEN 0
                               ELSE f[i - 1] + toupper(w[i]) * GRANULARITY_OPTS[g - i]]
      OBVIOUS
    <3>1. \A i \in 0..g : i # 0 => P[i] = toupper(w[i]) * GRANULARITY_OPTS[g - i]
      BY <1>0, <1>2, <1>3
    <3> QED BY <3>1
  <2>2. sum = CHOOSE f : f = [i \in 0..g |-> IF i = 0 THEN 0
                               ELSE f[i - 1] + toupper(w[i]) * GRANULARITY_OPTS[g - i]]
    <3> HIDE DEF Is
    <3> QED BY <1>6, <2>1
  <2> HIDE DEF Is
  <2> QED BY <1>1, <2>2 DEF str_to_bucket
<1>9. \A i \in 0..g : i \in {j \in 0..g : sum[j] \in Nat}
  <2> DEFINE T == {j \in 0..g : sum[j] \in Nat}
  <2>1. 0 \in T
    BY <1>0, <1>7
  <2>2. ASSUME NEW i \in 0..g-1, i \in T PROVE i + 1 \in T
    <3>1. i + 1 \in 0..g /\ i + 1 \in 1..g /\ i + 1 # 0 /\ (i + 1) - 1 = i
      BY <1>0
    <3>2. sum[i + 1] = sum[i] + P[i + 1] /\ P[i + 1] \in Nat /\ sum[i] \in Nat
      BY <1>4, <1>7, <2>2, <3>1
    <3> QED BY <3>1, <3>2
  <2> HIDE DEF T
  <2>3. \A i \in 0..g-1 : i \in T => i + 1 \in T
    BY <2>2
  <2>4. \A i \in 0..g : i \in T
    BY <1>0, <2>1, <2>3, UpTo
  <2> QED BY <2>4 DEF T
<1>10. Sums(w, g, sum)
  <2>1. sum = [i \in 0..g |-> sum[i]] /\ \A i \in 0..g : sum[i] \in Nat
    BY <1>7, <1>9
  <2>2. sum \in [0..g -> Nat]
    BY <2>1
  <2>3. sum[0] = 0
    BY <1>0, <1>7
  <2>4. ASSUME NEW i \in 1..g PROVE sum[i] = sum[i - 1] + w[i] * GRANULARITY_OPTS[g - i]
    <3>1. i \in 0..g /\ i # 0
      OBVIOUS
    <3> QED BY <1>3, <1>7, <3>1
  <2> QED BY <2>2, <2>3, <2>4 DEF Sums
<1> QED BY <1>8, <1>10

\* The place of a character: its power, and what it can add at most.
LEMMA Places ==
    ASSUME NEW g \in 0..MAX_GRANULARITY, NEW w \in Words(g), NEW i \in 1..g
    PROVE  \E p, q : /\ p \in Nat \ {0} /\ q \in Nat
                     /\ p = GRANULARITY_OPTS[g - i] /\ q = w[i] * p
                     /\ GRANULARITY_OPTS[g - (i - 1)] = CHARS * p
                     /\ CHARS * p \in Nat /\ q + p <= CHARS * p
<1>0. MAX_GRANULARITY \in Nat /\ CHARS \in Nat \ {0} /\ g \in Nat
  BY ShardConstants
<1>1. g - i \in 0..MAX_GRANULARITY /\ g - (i - 1) \in 1..MAX_GRANULARITY
      /\ (g - (i - 1)) - 1 = g - i
  BY <1>0
<1>2. PICK p \in Nat \ {0} : p = GRANULARITY_OPTS[g - i]
  BY <1>1, Powers
<1>3. GRANULARITY_OPTS[g - (i - 1)] = CHARS * p
  BY <1>1, <1>2, Powers
<1>4. PICK c \in Nat : c = w[i] /\ c + 1 <= CHARS
  BY <1>0 DEF Words, Chars
<1>5. PICK q \in Nat : q = c * p
  OBVIOUS
<1>6. (c + 1) * p <= CHARS * p /\ (c + 1) * p = c * p + p
  BY <1>0, <1>4, TimesMonotone
<1>7. CHARS * p \in Nat
  BY <1>0
<1> QED BY <1>2, <1>3, <1>4, <1>5, <1>6, <1>7

\* What is left of the buckets after the first characters.
LEMMA Room ==
    ASSUME NEW g \in 0..MAX_GRANULARITY, NEW w \in Words(g), NEW sum, Sums(w, g, sum)
    PROVE  sum[g] \in 0..GRANULARITY_OPTS[g]-1
<1>0. MAX_GRANULARITY \in Nat /\ CHARS \in Nat \ {0} /\ g \in Nat
  BY ShardConstants
<1>1. PICK G \in Nat \ {0} : G = GRANULARITY_OPTS[g]
  BY Powers
<1> DEFINE T == {i \in 0..g : sum[i] + GRANULARITY_OPTS[g - i] <= G}
<1>2. 0 \in T
  <2>1. sum[0] = 0 /\ g - 0 = g /\ 0 \in 0..g
    BY <1>0 DEF Sums
  <2> QED BY <1>1, <2>1
<1>3. ASSUME NEW k \in 0..g-1, k \in T PROVE k + 1 \in T
  <2>1. PICK i \in 1..g : i = k + 1 /\ i - 1 = k
    BY <1>0
  <2>2. PICK p, q : /\ p \in Nat \ {0} /\ q \in Nat
                    /\ p = GRANULARITY_OPTS[g - i] /\ q = w[i] * p
                    /\ GRANULARITY_OPTS[g - (i - 1)] = CHARS * p
                    /\ CHARS * p \in Nat /\ q + p <= CHARS * p
    BY Places
  <2>3. sum[k] \in Nat /\ sum[i] = sum[k] + q /\ i \in 0..g
    BY <1>0, <2>1, <2>2 DEF Sums
  <2>4. sum[k] + CHARS * p <= G
    BY <1>3, <2>1, <2>2
  <2>5. sum[i] + p <= G
    BY <1>0, <1>1, <2>2, <2>3, <2>4
  <2> QED BY <2>1, <2>2, <2>3, <2>5
<1> HIDE DEF T
<1>4. \A i \in 0..g-1 : i \in T => i + 1 \in T
  BY <1>3
<1>5. \A i \in 0..g : i \in T
  BY <1>0, <1>2, <1>4, UpTo
<1>6. g \in 0..g /\ g - g = 0 /\ sum[g] \in Nat
  BY <1>0 DEF Sums
<1>7. sum[g] + GRANULARITY_OPTS[0] <= G
  <2>1. g \in T
    BY <1>5, <1>6
  <2> QED BY <1>6, <2>1 DEF T
<1> QED BY <1>1, <1>6, <1>7, Powers

LEMMA BucketRange ==
    ASSUME NEW g \in 0..MAX_GRANULARITY, NEW w \in Words(g)
    PROVE  str_to_bucket(w) \in 0..GRANULARITY_OPTS[g]-1
  BY BucketSums, Room

\* Of two words the one with the smaller character at the first difference.
LEMMA SumsOrdered ==
    ASSUME NEW g \in 0..MAX_GRANULARITY, NEW s \in Words(g), NEW t \in Words(g),
           NEW a, NEW b, Sums(s, g, a), Sums(t, g, b),
           NEW d \in 1..g, \A j \in 1..d-1 : s[j] = t[j], s[d] < t[d]
    PROVE  a[g] < b[g]
<1>0. MAX_GRANULARITY \in Nat /\ CHARS \in Nat \ {0} /\ g \in Nat
  BY ShardConstants
<1>1. \A i \in 0..g : a[i] \in Nat /\ b[i] \in Nat
  BY DEF Sums
<1>2. \A i \in 0..d-1 : i \in {k \in 0..d-1 : a[k] = b[k]}
  <2> DEFINE T == {k \in 0..d-1 : a[k] = b[k]}
  <2>1. 0 \in T
    BY <1>0 DEF Sums
  <2>2. ASSUME NEW k \in 0..(d-1)-1, k \in T PROVE k + 1 \in T
    <3>1. k + 1 \in 1..g /\ k + 1 \in 1..d-1 /\ k + 1 \in 0..d-1 /\ (k + 1) - 1 = k
      BY <1>0
    <3>2. a[k] = b[k] /\ s[k + 1] = t[k + 1]
      BY <2>2, <3>1
    <3>3. PICK i \in 1..g : i = k + 1 /\ i - 1 = k
      BY <3>1
    <3>4. a[i] = a[k] + s[i] * GRANULARITY_OPTS[g - i] /\ b[i] = b[k] + t[i] * GRANULARITY_OPTS[g - i]
      BY <3>3 DEF Sums
    <3>5. a[i] = b[i]
      BY <3>2, <3>3, <3>4
    <3> QED BY <3>1, <3>3, <3>5
  <2> HIDE DEF T
  <2>3. d - 1 \in Nat /\ \A i \in 0..(d-1)-1 : i \in T => i + 1 \in T
    BY <1>0, <2>2
  <2>4. \A i \in 0..d-1 : i \in T
    BY <2>1, <2>3, UpTo
  <2> QED BY <2>4 DEF T
<1> DEFINE T == {k \in 0..g-d : a[d + k] + GRANULARITY_OPTS[g - (d + k)] <= b[d + k]}
<1>3. 0 \in T
  <2>1. PICK p \in Nat \ {0} : p = GRANULARITY_OPTS[g - d]
    <3>1. g - d \in 0..MAX_GRANULARITY
      BY <1>0
    <3> QED BY <3>1, Powers
  <2>2. PICK x \in Nat, y \in Nat : x = s[d] /\ y = t[d] /\ x + 1 <= y
    BY <1>0 DEF Words, Chars
  <2>3. d \in 0..g /\ d - 1 \in 0..d-1 /\ d - 1 \in 0..g /\ d + 0 = d /\ 0 \in 0..g-d
    BY <1>0
  <2>4. a[d - 1] = b[d - 1] /\ a[d - 1] \in Nat
    BY <1>1, <1>2, <2>3
  <2>5. a[d] = a[d - 1] + x * p /\ b[d] = b[d - 1] + y * p
    BY <2>1, <2>2 DEF Sums
  <2>6. (x + 1) * p <= y * p /\ (x + 1) * p = x * p + p
    BY <2>1, <2>2, TimesMonotone
  <2>7. x * p \in Nat /\ y * p \in Nat
    BY <2>1, <2>2
  <2>8. a[d] + p <= b[d]
    BY <2>4, <2>5, <2>6, <2>7
  <2> QED BY <2>1, <2>3, <2>8
<1>4. ASSUME NEW k \in 0..(g-d)-1, k \in T PROVE k + 1 \in T
  <2>1. PICK i \in 1..g : i = d + (k + 1) /\ i - 1 = d + k
    BY <1>0
  <2>2. PICK p, q : /\ p \in Nat \ {0} /\ q \in Nat
                    /\ p = GRANULARITY_OPTS[g - i] /\ q = s[i] * p
                    /\ GRANULARITY_OPTS[g - (i - 1)] = CHARS * p
                    /\ CHARS * p \in Nat /\ q + p <= CHARS * p
    BY Places
  <2>3. PICK r \in Nat : r = t[i] * p
    <3>1. \E z, r : /\ z \in Nat \ {0} /\ r \in Nat
                    /\ z = GRANULARITY_OPTS[g - i] /\ r = t[i] * z
                    /\ GRANULARITY_OPTS[g - (i - 1)] = CHARS * z
                    /\ CHARS * z \in Nat /\ r + z <= CHARS * z
      BY Places
    <3> QED BY <2>2, <3>1
  <2>4. /\ i - 1 \in 0..g /\ a[i - 1] \in Nat /\ b[i - 1] \in Nat
        /\ a[i] = a[i - 1] + q /\ b[i] = b[i - 1] + r
    BY <1>0, <1>1, <2>2, <2>3 DEF Sums
  <2>5. a[i - 1] + CHARS * p <= b[i - 1]
    BY <1>4, <2>1, <2>2
  <2>6. a[i] + p <= b[i]
    BY <1>0, <2>2, <2>3, <2>4, <2>5
  <2>7. k + 1 \in 0..g-d
    BY <1>0
  <2> QED BY <2>1, <2>2, <2>6, <2>7
<1> HIDE DEF T
<1>5. g - d \in Nat /\ \A i \in 0..(g-d)-1 : i \in T => i + 1 \in T
  BY <1>0, <1>4
<1>6. \A i \in 0..g-d : i \in T
  BY <1>3, <1>5, UpTo
<1>7. d + (g - d) = g /\ g - g = 0 /\ g - d \in T
  BY <1>0, <1>5, <1>6
<1>8. a[g] + GRANULARITY_OPTS[0] <= b[g] /\ a[g] \in Nat /\ b[g] \in Nat
  BY <1>0, <1>1, <1>7 DEF T
<1> QED BY <1>8, Powers

\* The order of two words is that of their buckets.
LEMMA BucketOrder ==
    ASSUME NEW g \in 0..MAX_GRANULARITY, NEW s \in Words(g), NEW t \in Words(g)
    PROVE  /\ Less(s, t) <=> str_to_bucket(s) < str_to_bucket(t)
           /\ Leq(s, t) <=> str_to_bucket(s) <= str_to_bucket(t)
           /\ s = t <=> str_to_bucket(s) = str_to_bucket(t)
<1>0. MAX_GRANULARITY \in Nat /\ CHARS \in Nat \ {0} /\ g \in Nat
  BY ShardConstants
<1>1. PICK a : Sums(s, g, a) /\ str_to_bucket(s) = a[g]
  BY BucketSums
<1>2. PICK b : Sums(t, g, b) /\ str_to_bucket(t) = b[g]
  BY BucketSums
<1>3. a[g] \in Nat /\ b[g] \in Nat
  BY <1>0, <1>1, <1>2 DEF Sums
<1>4. Len(s) = g /\ Len(t) = g
  BY <1>0, WordTyped
<1>5. Less(s, t) => a[g] < b[g]
  <2> SUFFICES ASSUME NEW i \in Int, Before(s, t, i) PROVE a[g] < b[g]
    BY LessBefore
  <2>1. i \in 1..g /\ (\A j \in 1..i-1 : s[j] = t[j]) /\ s[i] < t[i]
    BY <1>0, <1>4 DEF Before
  <2> QED BY <1>1, <1>2, <2>1, SumsOrdered
<1>6. s # t /\ ~Less(s, t) => b[g] < a[g]
  <2> SUFFICES ASSUME s # t, ~Less(s, t) PROVE b[g] < a[g]
    OBVIOUS
  <2>1. PICK i : i \in 1..g /\ s[i] # t[i] /\ \A j \in 1..i-1 : s[j] = t[j]
    BY <1>0, FirstDifference DEF FirstAt
  <2>2. ~(s[i] < t[i])
    <3> SUFFICES ASSUME s[i] < t[i] PROVE FALSE
      OBVIOUS
    <3>1. i \in Int /\ Before(s, t, i)
      BY <1>0, <1>4, <2>1 DEF Before
    <3> QED BY <3>1, LessBefore
  <2>3. s[i] \in Int /\ t[i] \in Int
    BY <1>0, <2>1 DEF Words, Chars
  <2>4. t[i] < s[i] /\ \A j \in 1..i-1 : t[j] = s[j]
    BY <2>1, <2>2, <2>3
  <2> QED BY <1>1, <1>2, <2>1, <2>4, SumsOrdered
<1> QED BY <1>1, <1>2, <1>3, <1>5, <1>6 DEF Leq

\* A quotient that is a character's number is the character of the word.
LEMMA Character ==
    ASSUME NEW b, NEW g, NEW i \in 1..g, NEW left, NEW index,
           (IF i = 1 THEN b ELSE b % GRANULARITY_OPTS[g - i + 1]) = left,
           left \div GRANULARITY_OPTS[g - i] = index, index < CHARS
    PROVE  bucket_to_str(b, g)[i] = index
BY Zenon DEF bucket_to_str

\* A bucket's word is of that bucket.
LEMMA BucketWord ==
    ASSUME NEW g \in 1..MAX_GRANULARITY, NEW b \in 0..GRANULARITY_OPTS[g]-1
    PROVE  bucket_to_str(b, g) \in Words(g) /\ str_to_bucket(bucket_to_str(b, g)) = b
<1>0. MAX_GRANULARITY \in Nat /\ CHARS \in Nat \ {0} /\ g \in Nat /\ g \in 0..MAX_GRANULARITY
  BY ShardConstants
<1>1. PICK G \in Nat \ {0} : G = GRANULARITY_OPTS[g] /\ b \in 0..G-1
  BY <1>0, Powers
<1>2. b \in Nat /\ b % G = b
  <2>1. b = G * 0 + b
    BY <1>1
  <2> QED BY <1>1, <2>1, Division
<1>3. ASSUME NEW i \in 1..g
      PROVE  \E p, c, r : /\ p \in Nat \ {0} /\ c \in Chars /\ r \in Nat
                          /\ p = GRANULARITY_OPTS[g - i] /\ r = c * p
                          /\ bucket_to_str(b, g)[i] = c
                          /\ b % GRANULARITY_OPTS[g - (i - 1)] = r + (b % p) /\ b % p \in Nat
  <2>1. g - i \in 0..MAX_GRANULARITY /\ g - (i - 1) \in 1..MAX_GRANULARITY
        /\ (g - (i - 1)) - 1 = g - i /\ g - i + 1 = g - (i - 1)
    BY <1>0
  <2>2. PICK p \in Nat \ {0} : p = GRANULARITY_OPTS[g - i]
    BY <2>1, Powers
  <2>3. PICK m \in Nat \ {0} : m = CHARS * p /\ m = GRANULARITY_OPTS[g - (i - 1)]
    <3>1. CHARS * p \in Nat \ {0}
      BY <1>0
    <3> QED BY <2>1, <2>2, <3>1, Powers
  <2>4. PICK left \in Nat : left = b % m /\ left < m
    <3>1. b % m \in 0..m-1
      BY <1>2, DivMod
    <3> QED BY <3>1
  <2>5. PICK c, e : c \in Nat /\ e \in Nat /\ c = left \div p /\ e = left % p /\ left = p * c + e
    <3>1. left \div p \in Nat /\ left % p \in 0..p-1 /\ left = p * (left \div p) + (left % p)
      BY DivMod
    <3>2. left % p \in Nat
      BY <3>1
    <3> QED BY <3>1, <3>2, Zenon
  <2>6. e = b % p
    <3>1. (b % (CHARS * p)) % p = b % p
      BY <1>0, <1>2, ModMod
    <3> QED BY <2>3, <2>4, <2>5, <3>1
  <2>7. c < CHARS
    <3> SUFFICES ASSUME CHARS <= c PROVE FALSE
      BY <1>0, <2>5
    <3>1. CHARS * p <= c * p /\ c * p = p * c
      BY <1>0, <2>5, TimesMonotone
    <3>2. p * c \in Nat
      BY <2>5
    <3> QED BY <2>3, <2>4, <2>5, <3>1, <3>2
  <2>8. bucket_to_str(b, g)[i] = c
    <3>1. (IF i = 1 THEN b ELSE b % GRANULARITY_OPTS[g - i + 1]) = left
      <4>1. CASE i = 1
        <5>1. g - (i - 1) = g
          BY <1>0, <4>1
        <5> QED BY <1>1, <1>2, <2>3, <2>4, <4>1, <5>1, Zenon
      <4>2. CASE i # 1
        BY <2>1, <2>3, <2>4, <4>2, Zenon
      <4> QED BY <4>1, <4>2
    <3>2. left \div GRANULARITY_OPTS[g - i] = c
      BY <2>2, <2>5, Zenon
    <3> QED BY <2>7, <3>1, <3>2, Character, Zenon
  <2>9. c \in Chars /\ c * p \in Nat /\ p * c = c * p
    BY <1>0, <2>5, <2>7 DEF Chars
  <2> QED BY <2>2, <2>3, <2>4, <2>5, <2>6, <2>8, <2>9
<1>4. PICK w \in Words(g) : w = bucket_to_str(b, g)
  <2>1. \A i \in 1..g : bucket_to_str(b, g)[i] \in Chars
    BY <1>3
  <2>2. bucket_to_str(b, g) = [i \in 1..g |-> bucket_to_str(b, g)[i]]
    BY DEF bucket_to_str
  <2> QED BY <2>1, <2>2 DEF Words
<1>5. PICK sum : Sums(w, g, sum) /\ str_to_bucket(w) = sum[g]
  BY <1>0, BucketSums
<1> DEFINE T == {k \in 0..g : sum[k] + (b % GRANULARITY_OPTS[g - k]) = b}
<1>6. 0 \in T
  <2>1. sum[0] = 0 /\ g - 0 = g /\ 0 \in 0..g
    BY <1>0, <1>5 DEF Sums
  <2> QED BY <1>1, <1>2, <2>1
<1>7. ASSUME NEW k \in 0..g-1, k \in T PROVE k + 1 \in T
  <2>1. PICK i \in 1..g : i = k + 1 /\ i - 1 = k
    BY <1>0
  <2>2. PICK p, c, r : /\ p \in Nat \ {0} /\ c \in Chars /\ r \in Nat
                       /\ p = GRANULARITY_OPTS[g - i] /\ r = c * p
                       /\ bucket_to_str(b, g)[i] = c
                       /\ b % GRANULARITY_OPTS[g - (i - 1)] = r + (b % p) /\ b % p \in Nat
    BY <1>3
  <2>3. sum[k] \in Nat /\ sum[i] = sum[k] + r /\ i \in 0..g
    BY <1>0, <1>4, <1>5, <2>1, <2>2 DEF Sums
  <2>4. sum[k] + (r + (b % p)) = b
    BY <1>7, <2>1, <2>2
  <2>5. sum[i] + (b % p) = b
    BY <2>2, <2>3, <2>4
  <2> QED BY <2>1, <2>2, <2>3, <2>5
<1> HIDE DEF T
<1>8. \A i \in 0..g-1 : i \in T => i + 1 \in T
  BY <1>7
<1>9. \A i \in 0..g : i \in T
  BY <1>0, <1>6, <1>8, UpTo
<1>10. sum[g] + (b % GRANULARITY_OPTS[0]) = b /\ sum[g] \in Nat
  <2>1. g \in T /\ g - g = 0 /\ g \in 0..g
    BY <1>0, <1>9
  <2> QED BY <1>5, <2>1 DEF T, Sums
<1>11. b % 1 = 0
  <2>1. b = 1 * b + 0 /\ 0 \in 0..1-1 /\ 1 \in Nat \ {0}
    BY <1>2
  <2> QED BY <1>2, <2>1, Division
<1> QED BY <1>4, <1>5, <1>10, <1>11, Powers

-----------------------------------------------------------------------------
(* A division of the buckets: intervals that follow one another.           *)

Bounds(g) == [lower : Words(g), upper : Words(g)]

Lo(sh) == str_to_bucket(sh.lower)
Hi(sh) == str_to_bucket(sh.upper)

Divided(s, g, n) ==
    /\ g \in 1..MAX_GRANULARITY /\ n \in Nat \ {0} /\ s \in [1..n -> Bounds(g)]
    /\ \A i \in 1..n : Lo(s[i]) <= Hi(s[i])
    /\ \A i, j \in 1..n : i < j => Hi(s[i]) < Lo(s[j])
    /\ \A v \in 0..GRANULARITY_OPTS[g]-1 : \E i \in 1..n : Lo(s[i]) <= v /\ v <= Hi(s[i])

\* The boundaries of split_into.
Boundary(n, G, i) == (i - 1) * (G \div n) + (IF i - 1 < G % n THEN i - 1 ELSE G % n)

Boundaries(L, n, G) ==
    /\ L \in [1..n+1 -> Nat] /\ L[1] = 0 /\ L[n + 1] = G
    /\ \A i, j \in 1..n+1 : i < j => L[i] < L[j]

LEMMA BoundariesExist ==
    ASSUME NEW G \in Nat \ {0}, NEW n \in 1..G, NEW L,
           L = [i \in 1..n+1 |-> Boundary(n, G, i)]
    PROVE  Boundaries(L, n, G)
<1>1. n \in Nat \ {0} /\ G \in Nat
  OBVIOUS
<1>2. PICK size, rest : /\ size \in Nat /\ rest \in 0..n-1 /\ G = n * size + rest
                        /\ size = G \div n /\ rest = G % n
  <2>1. G \div n \in Nat /\ G % n \in 0..n-1 /\ G = n * (G \div n) + (G % n)
    BY <1>1, DivMod
  <2> QED BY <2>1, Zenon
<1>3. size # 0
  <2> SUFFICES ASSUME size = 0 PROVE FALSE
    OBVIOUS
  <2>1. n * size = 0
    BY <1>1
  <2> QED BY <1>1, <1>2, <2>1
<1> size \in Nat /\ rest \in Nat /\ rest <= n
  BY <1>1, <1>2
<1>4. \A i \in 1..n+1 : L[i] = (i - 1) * size + (IF i - 1 < rest THEN i - 1 ELSE rest)
  <2>1. \A i \in 1..n+1 : Boundary(n, G, i) = (i - 1) * size + (IF i - 1 < rest THEN i - 1 ELSE rest)
    BY <1>2, Zenon DEF Boundary
  <2> QED BY <2>1
<1>5. ASSUME NEW i \in 1..n+1 PROVE (i - 1) * size \in Nat /\ L[i] \in Nat
  <2>1. PICK k \in Nat : k = i - 1
    BY <1>1
  <2>2. k * size \in Nat
    BY <1>2
  <2>3. PICK z \in Nat : z = IF i - 1 < rest THEN i - 1 ELSE rest
    BY <2>1
  <2>4. PICK y \in Nat : y = (i - 1) * size
    BY <2>1, <2>2
  <2>5. L[i] = y + z
    BY <1>4, <2>3, <2>4
  <2> QED BY <2>3, <2>4, <2>5
<1>6. ASSUME NEW i \in 1..n+1, NEW j \in 1..n+1, i < j PROVE L[i] < L[j]
  <2>1. PICK k \in Nat : k = i - 1
    BY <1>1
  <2>2. PICK m \in Nat : m = j - 1 /\ k + 1 <= m
    BY <1>1, <1>6, <2>1
  <2>3. PICK y, x : y \in Nat /\ x \in Nat /\ y = k * size /\ x = m * size
    <3>1. k * size \in Nat /\ m * size \in Nat
      OBVIOUS
    <3> QED BY <3>1
  <2>4. y + size <= x
    <3>1. (k + 1) * size <= m * size
      BY <2>2, TimesMonotone
    <3>2. (k + 1) * size = k * size + size
      OBVIOUS
    <3> QED BY <2>3, <3>1, <3>2
  <2>5. PICK z, u : /\ z \in Nat /\ u \in Nat /\ z <= u
                    /\ z = (IF k < rest THEN k ELSE rest) /\ u = (IF m < rest THEN m ELSE rest)
    <3>1. (IF k < rest THEN k ELSE rest) \in Nat /\ (IF m < rest THEN m ELSE rest) \in Nat
          /\ (IF k < rest THEN k ELSE rest) <= (IF m < rest THEN m ELSE rest)
      BY <2>2
    <3> QED BY <3>1
  <2>6. L[i] = y + z /\ L[j] = x + u
    BY <1>4, <2>1, <2>2, <2>3, <2>5
  <2> QED BY <1>3, <2>3, <2>4, <2>5, <2>6
<1>7. L[1] = 0
  <2>1. (1 - 1) * size = 0 /\ (IF 1 - 1 < rest THEN 1 - 1 ELSE rest) = 0 /\ 1 \in 1..n+1
    BY <1>1, <1>2
  <2> QED BY <1>4, <2>1
<1>8. L[n + 1] = G
  <2>1. PICK m \in 1..n+1 : m = n + 1 /\ m - 1 = n /\ ~(m - 1 < rest)
    BY <1>1, <1>2
  <2>2. L[m] = n * size + rest
    BY <1>4, <2>1
  <2> QED BY <1>2, <2>1, <2>2
<1>9. L \in [1..n+1 -> Nat]
  <2>1. L = [i \in 1..n+1 |-> L[i]]
    OBVIOUS
  <2> QED BY <1>5, <2>1
<1> QED BY <1>6, <1>7, <1>8, <1>9 DEF Boundaries

\* The intervals between such boundaries divide the buckets.
LEMMA BoundariesDivide ==
    ASSUME NEW g \in 1..MAX_GRANULARITY, NEW n \in Nat \ {0}, NEW L, NEW s,
           Boundaries(L, n, GRANULARITY_OPTS[g]),
           s = [i \in 1..n |-> Shard(bucket_to_str(L[i], g), bucket_to_str(L[i + 1] - 1, g))]
    PROVE  Divided(s, g, n)
<1>0. MAX_GRANULARITY \in Nat /\ g \in 0..MAX_GRANULARITY
  BY ShardConstants
<1>1. PICK G \in Nat \ {0} : G = GRANULARITY_OPTS[g]
  BY <1>0, Powers
<1>2. /\ L \in [1..n+1 -> Nat] /\ L[1] = 0 /\ L[n + 1] = G
      /\ \A i, j \in 1..n+1 : i < j => L[i] < L[j]
  BY <1>1 DEF Boundaries
<1>3. ASSUME NEW i \in 1..n
      PROVE  /\ L[i] \in 0..G-1 /\ L[i + 1] - 1 \in 0..G-1 /\ L[i] <= L[i + 1] - 1
             /\ s[i] \in Bounds(g) /\ Lo(s[i]) = L[i] /\ Hi(s[i]) = L[i + 1] - 1
  <2>1. i \in 1..n+1 /\ i + 1 \in 1..n+1 /\ n + 1 \in 1..n+1 /\ i < i + 1 /\ i < n + 1
    OBVIOUS
  <2>2. L[i] \in Nat /\ L[i + 1] \in Nat /\ L[i] < L[i + 1] /\ L[i] < G
    BY <1>2, <2>1
  <2>3. L[i + 1] <= G
    <3>1. CASE i = n
      BY <1>1, <1>2, <3>1
    <3>2. CASE i # n
      <4>1. i + 1 < n + 1
        BY <3>2
      <4> QED BY <1>1, <1>2, <2>1, <4>1
    <3> QED BY <3>1, <3>2
  <2>4. L[i] \in 0..G-1 /\ L[i + 1] - 1 \in 0..G-1 /\ L[i] <= L[i + 1] - 1
    <3>1. PICK a \in Nat, b \in Nat : a = L[i] /\ b = L[i + 1]
      BY <2>2
    <3>2. a < b /\ a < G /\ b <= G
      BY <2>2, <2>3, <3>1, Zenon
    <3>3. a \in 0..G-1 /\ b - 1 \in 0..G-1 /\ a <= b - 1
      BY <3>2
    <3> QED BY <3>1, <3>3, Zenon
  <2>5. /\ bucket_to_str(L[i], g) \in Words(g) /\ str_to_bucket(bucket_to_str(L[i], g)) = L[i]
        /\ bucket_to_str(L[i + 1] - 1, g) \in Words(g)
        /\ str_to_bucket(bucket_to_str(L[i + 1] - 1, g)) = L[i + 1] - 1
    BY <1>1, <2>4, BucketWord
  <2>6. s[i] = [lower |-> bucket_to_str(L[i], g), upper |-> bucket_to_str(L[i + 1] - 1, g)]
    BY DEF Shard
  <2>7. s[i] \in Bounds(g) /\ Lo(s[i]) = L[i] /\ Hi(s[i]) = L[i + 1] - 1
    BY <2>5, <2>6 DEF Bounds, Lo, Hi
  <2> QED BY <2>4, <2>7
<1>4. s \in [1..n -> Bounds(g)]
  <2>1. s = [i \in 1..n |-> s[i]]
    OBVIOUS
  <2> QED BY <1>3, <2>1
<1>5. ASSUME NEW i \in 1..n, NEW j \in 1..n, i < j PROVE Hi(s[i]) < Lo(s[j])
  <2>1. i + 1 \in 1..n+1 /\ j \in 1..n+1 /\ (i + 1 = j \/ i + 1 < j)
    BY <1>5
  <2>2. L[i + 1] \in Nat /\ L[j] \in Nat
    BY <1>2, <2>1
  <2>4. i + 1 < j => L[i + 1] < L[j]
    BY <1>2, <2>1
  <2>5. L[i + 1] <= L[j]
    BY <2>1, <2>2, <2>4
  <2>3. Hi(s[i]) = L[i + 1] - 1 /\ Lo(s[j]) = L[j]
    BY <1>3
  <2> QED BY <2>2, <2>3, <2>5
<1>6. ASSUME NEW v \in 0..G-1 PROVE \E i \in 1..n : Lo(s[i]) <= v /\ v <= Hi(s[i])
  <2>1. PICK B : B = {i \in 1..n : v < L[i + 1]}
    OBVIOUS
  <2>2. n \in B /\ B \in SUBSET Nat
    BY <1>1, <1>2, <2>1
  <2>3. PICK i \in B : \A k \in B : ~(k < i)
    <3>1. B # {}
      BY <2>2
    <3> QED BY <2>2, <3>1, Smallest
  <2>4. i \in 1..n /\ v < L[i + 1] /\ i \in 1..n+1 /\ i + 1 \in 1..n+1
    BY <2>1
  <2>5. L[i] <= v
    <3>1. CASE i = 1
      BY <1>2, <3>1
    <3>2. CASE i # 1
      <4>1. PICK k \in 1..n : k = i - 1 /\ k + 1 = i /\ k < i
        BY <2>4, <3>2
      <4>2. ~(v < L[k + 1])
        BY <2>1, <2>3, <4>1
      <4>3. L[i] \in Nat
        BY <1>2, <2>4
      <4> QED BY <1>1, <4>1, <4>2, <4>3
    <3> QED BY <3>1, <3>2
  <2>6. L[i + 1] \in Nat /\ v <= L[i + 1] - 1
    BY <1>1, <1>2, <2>4
  <2>7. Lo(s[i]) <= v /\ v <= Hi(s[i])
    BY <1>3, <2>4, <2>5, <2>6
  <2> QED BY <2>4, <2>7
<1>7. \A i \in 1..n : Lo(s[i]) <= Hi(s[i])
  BY <1>3
<1> QED BY <1>1, <1>4, <1>5, <1>6, <1>7 DEF Divided

LEMMA SplitInto ==
    ASSUME NEW n \in 1..GRANULARITY_OPTS[MAX_GRANULARITY]
    PROVE  \E g : Divided(split_into(n), g, n)
<1>0. MAX_GRANULARITY \in Nat \ {0} /\ MAX_GRANULARITY \in 0..MAX_GRANULARITY
      /\ MAX_GRANULARITY \in 1..MAX_GRANULARITY
  BY ShardConstants
<1>1. n \in Nat \ {0}
  BY <1>0, Powers
<1> DEFINE Fits(i) == n <= GRANULARITY_OPTS[i] /\ \A j \in 1..i-1 : n > GRANULARITY_OPTS[j]
<1>2. \E i \in 1..MAX_GRANULARITY : Fits(i)
  <2>1. PICK B : B = {i \in 1..MAX_GRANULARITY : n <= GRANULARITY_OPTS[i]}
    OBVIOUS
  <2>2. MAX_GRANULARITY \in B /\ B \in SUBSET Nat
    BY <1>0, <2>1, Powers
  <2>3. PICK i \in B : \A k \in B : ~(k < i)
    <3>1. B # {}
      BY <2>2
    <3> QED BY <2>2, <3>1, Smallest
  <2>4. i \in 1..MAX_GRANULARITY /\ n <= GRANULARITY_OPTS[i]
    BY <2>1
  <2>5. ASSUME NEW j \in 1..i-1 PROVE n > GRANULARITY_OPTS[j]
    <3>1. j \in 1..MAX_GRANULARITY /\ j \in 0..MAX_GRANULARITY /\ j < i
      BY <1>0, <2>4
    <3>2. ~(n <= GRANULARITY_OPTS[j]) /\ GRANULARITY_OPTS[j] \in Nat
      BY <2>1, <2>3, <3>1, Powers
    <3> QED BY <1>1, <3>2
  <2> QED BY <2>4, <2>5
<1>3. PICK g : g = CHOOSE i \in 1..MAX_GRANULARITY : Fits(i)
  OBVIOUS
<1>4. g \in 1..MAX_GRANULARITY /\ n <= GRANULARITY_OPTS[g]
  BY <1>2, <1>3
<1>5. PICK G \in Nat \ {0} : G = GRANULARITY_OPTS[g]
  BY <1>0, <1>4, Powers
<1>6. PICK L : L = [i \in 1..n+1 |-> Boundary(n, G, i)]
  OBVIOUS
<1>7. Boundaries(L, n, G)
  <2>1. n \in 1..G
    BY <1>1, <1>4, <1>5
  <2> QED BY <1>6, <2>1, BoundariesExist
<1>8. split_into(n) = [i \in 1..n |-> Shard(bucket_to_str(L[i], g), bucket_to_str(L[i + 1] - 1, g))]
  <2>1. \A i \in 1..n : L[i] = Boundary(n, G, i) /\ L[i + 1] = Boundary(n, G, i + 1)
    <3>1. \A i \in 1..n : i \in 1..n+1 /\ i + 1 \in 1..n+1
      BY <1>1
    <3> QED BY <1>6, <3>1
  <2>2. split_into(n) = [i \in 1..n |-> Shard(bucket_to_str(Boundary(n, G, i), g),
                                             bucket_to_str(Boundary(n, G, i + 1) - 1, g))]
    BY <1>3, <1>5 DEF split_into, Boundary
  <2>3. \A i \in 1..n : Shard(bucket_to_str(L[i], g), bucket_to_str(L[i + 1] - 1, g))
                        = Shard(bucket_to_str(Boundary(n, G, i), g),
                                bucket_to_str(Boundary(n, G, i + 1) - 1, g))
    BY <2>1, Zenon
  <2> QED BY <2>2, <2>3, Zenon
<1> QED BY <1>1, <1>4, <1>5, <1>7, <1>8, BoundariesDivide

\* pos[x] is the place at which shard x belongs, and p[k] the shard at place k.
InPlace(t, N, p, pos) ==
    /\ N \in Nat /\ DOMAIN t = 1..N /\ p \in [1..N -> 1..N] /\ pos \in [1..N -> 1..N]
    /\ \A k \in 1..N : pos[p[k]] = k
    /\ \A x \in 1..N : p[pos[x]] = x
    /\ \A j, x \in 1..N : Less(t[j].lower, t[x].lower) <=> pos[j] < pos[x]

LEMMA Predecessor ==
    ASSUME NEW N \in Nat, NEW z \in 1..N
    PROVE  z - 1 \in Nat /\ (z - 1) + 1 = z /\ z - 1 < N
OBVIOUS

LEMMA Sorted ==
    ASSUME NEW t, NEW N, NEW p, NEW pos, InPlace(t, N, p, pos)
    PROVE  sort_shards(t) = [k \in 1..N |-> t[p[k]]]
<1> /\ N \in Nat /\ DOMAIN t = 1..N /\ p \in [1..N -> 1..N] /\ pos \in [1..N -> 1..N]
    /\ \A k \in 1..N : pos[p[k]] = k
    /\ \A x \in 1..N : p[pos[x]] = x
    /\ \A j, x \in 1..N : Less(t[j].lower, t[x].lower) <=> pos[j] < pos[x]
  BY DEF InPlace
<1> DEFINE B(x) == {j \in 1..N : Less(t[j].lower, t[x].lower)}
<1>1. ASSUME NEW x \in 1..N PROVE Cardinality(B(x)) = pos[x] - 1
  <2>1. B(x) = {j \in 1..N : pos[j] < pos[x]}
    OBVIOUS
  <2>2. PICK m \in Nat : m = pos[x] - 1 /\ m + 1 = pos[x] /\ m < N
    <3>1. PICK z \in 1..N : z = pos[x]
      OBVIOUS
    <3>2. z - 1 \in Nat /\ (z - 1) + 1 = z /\ z - 1 < N
      BY Predecessor, Zenon
    <3> QED BY <3>1, <3>2, Zenon
  <2>3. PICK S : S = B(x)
    OBVIOUS
  <2>4. PICK f : f = [k \in 1..m |-> p[k]]
    OBVIOUS
  <2>5. \A k \in 1..m : k \in 1..N /\ p[k] \in 1..N /\ pos[p[k]] = k /\ k < pos[x]
    BY <2>2
  <2>6. \A k \in 1..m : p[k] \in S
    BY <2>1, <2>3, <2>5
  <2>7. f \in [1..m -> S]
    BY <2>4, <2>6
  <2>8. \A k, l \in 1..m : f[k] = f[l] => k = l
    <3>1. \A k \in 1..m : pos[f[k]] = k
      BY <2>4, <2>5
    <3> QED BY <3>1
  <2>9. \A j \in S : \E k \in 1..m : f[k] = j
    <3> SUFFICES ASSUME NEW j \in S PROVE \E k \in 1..m : f[k] = j
      OBVIOUS
    <3>1. j \in 1..N /\ pos[j] < pos[x] /\ pos[j] \in 1..N
      BY <2>1, <2>3
    <3>2. pos[j] \in 1..m /\ p[pos[j]] = j
      BY <2>2, <3>1
    <3> QED BY <2>4, <3>2
  <2>10. f \in Bijection(1..m, S)
    BY <2>7, <2>8, <2>9, Fun_IsBij
  <2>11. ExistsBijection(1..m, S)
    BY <2>10, Fun_ExistsBij
  <2>12. Cardinality(S) = m
    BY <2>11, FS_CountingElements
  <2> HIDE DEF B
  <2> QED BY <2>2, <2>3, <2>12
<1>2. ASSUME NEW k \in 1..N
      PROVE  (CHOOSE i \in 1..N : Cardinality(B(i)) = k - 1) = p[k]
  <2> HIDE DEF B
  <2>1. ASSUME NEW x \in 1..N PROVE Cardinality(B(x)) = k - 1 <=> pos[x] = k
    <3>1. PICK c : c = Cardinality(B(x))
      OBVIOUS
    <3>2. c = pos[x] - 1 /\ pos[x] \in Int
      BY <1>1, <3>1
    <3>3. PICK y \in Int : y = pos[x]
      BY <3>2
    <3>4. k \in Int
      OBVIOUS
    <3>5. y - 1 = k - 1 <=> y = k
      BY <3>4
    <3> QED BY <3>1, <3>2, <3>3, <3>5
  <2>2. \A x \in 1..N : pos[x] = k <=> x = p[k]
    OBVIOUS
  <2>3. p[k] \in 1..N
    OBVIOUS
  <2> QED BY <2>1, <2>2, <2>3
<1>3. sort_shards(t) = [k \in 1..N |-> t[CHOOSE i \in 1..N : Cardinality(B(i)) = k - 1]]
  BY DEF sort_shards
<1> HIDE DEF B
<1> QED BY <1>2, <1>3

LEMMA DividedBounds ==
    ASSUME NEW g \in 1..MAX_GRANULARITY, NEW sh \in Bounds(g)
    PROVE  /\ sh.lower \in Words(g) /\ sh.upper \in Words(g)
           /\ Lo(sh) \in Nat /\ Hi(sh) \in Nat
           /\ Lo(sh) \in 0..GRANULARITY_OPTS[g]-1 /\ Hi(sh) \in 0..GRANULARITY_OPTS[g]-1
<1>1. g \in 0..MAX_GRANULARITY /\ sh.lower \in Words(g) /\ sh.upper \in Words(g)
  BY ShardConstants DEF Bounds
<1>2. GRANULARITY_OPTS[g] \in Nat
  BY <1>1, Powers
<1>3. Lo(sh) \in 0..GRANULARITY_OPTS[g]-1 /\ Hi(sh) \in 0..GRANULARITY_OPTS[g]-1
  BY <1>1, BucketRange DEF Lo, Hi
<1> QED BY <1>1, <1>2, <1>3

\* Two halves of a shard in its place: a division again.
LEMMA HalvesDivide ==
    ASSUME NEW g, NEW n, NEW s, Divided(s, g, n), NEW i \in 1..n,
           NEW a \in Bounds(g), NEW b \in Bounds(g),
           Lo(a) = Lo(s[i]), Lo(a) <= Hi(a), Lo(b) = Hi(a) + 1, Lo(b) <= Hi(b), Hi(b) = Hi(s[i])
    PROVE  Divided(sort_shards([s EXCEPT ![i] = a] \o <<b>>), g, n + 1)
<1>1. /\ g \in 1..MAX_GRANULARITY /\ n \in Nat \ {0} /\ s \in [1..n -> Bounds(g)]
      /\ \A k \in 1..n : Lo(s[k]) <= Hi(s[k])
      /\ \A k, m \in 1..n : k < m => Hi(s[k]) < Lo(s[m])
      /\ \A v \in 0..GRANULARITY_OPTS[g]-1 : \E k \in 1..n : Lo(s[k]) <= v /\ v <= Hi(s[k])
  BY DEF Divided
<1>2. PICK t : t = [s EXCEPT ![i] = a] \o <<b>>
  OBVIOUS
<1>3. /\ DOMAIN t = 1..n+1 /\ t[n + 1] = b
      /\ \A k \in 1..n : t[k] = IF k = i THEN a ELSE s[k]
  <2>1. PICK u : u = [s EXCEPT ![i] = a]
    OBVIOUS
  <2>2. u \in [1..n -> Bounds(g)] /\ \A k \in 1..n : u[k] = IF k = i THEN a ELSE s[k]
    BY <1>1, <2>1
  <2>3. u \in Seq(Bounds(g)) /\ Len(u) = n /\ <<b>> \in Seq(Bounds(g)) /\ Len(<<b>>) = 1
    BY <1>1, <2>2
  <2>4. t = u \o <<b>>
    BY <1>2, <2>1
  <2>5. t \in Seq(Bounds(g)) /\ Len(t) = n + 1 /\ t[n + 1] = b /\ \A k \in 1..n : t[k] = u[k]
    BY <1>1, <2>3, <2>4
  <2> QED BY <1>1, <2>2, <2>5
<1>4. PICK N \in Nat \ {0} : N = n + 1 /\ i < N
  BY <1>1
<1>5. PICK p : p = [k \in 1..N |-> IF k <= i THEN k ELSE IF k = i + 1 THEN N ELSE k - 1]
  OBVIOUS
<1>6. PICK pos : pos = [x \in 1..N |-> IF x <= i THEN x ELSE IF x = N THEN i + 1 ELSE x + 1]
  OBVIOUS
<1>7. /\ p \in [1..N -> 1..N] /\ pos \in [1..N -> 1..N]
      /\ \A k \in 1..N : pos[p[k]] = k /\ p[pos[k]] = k
  <2>1. p \in [1..N -> 1..N] /\ pos \in [1..N -> 1..N]
    BY <1>1, <1>4, <1>5, <1>6
  <2>2. ASSUME NEW k \in 1..N PROVE pos[p[k]] = k /\ p[pos[k]] = k
    <3>1. p[k] = (IF k <= i THEN k ELSE IF k = i + 1 THEN N ELSE k - 1) /\ p[k] \in 1..N
      BY <1>5, <2>1
    <3>2. pos[k] = (IF k <= i THEN k ELSE IF k = N THEN i + 1 ELSE k + 1) /\ pos[k] \in 1..N
      BY <1>6, <2>1
    <3>3. pos[p[k]] = (IF p[k] <= i THEN p[k] ELSE IF p[k] = N THEN i + 1 ELSE p[k] + 1)
      BY <1>6, <3>1
    <3>4. p[pos[k]] = (IF pos[k] <= i THEN pos[k] ELSE IF pos[k] = i + 1 THEN N ELSE pos[k] - 1)
      BY <1>5, <3>2
    <3>5. pos[p[k]] = k
      BY <1>1, <1>4, <3>1, <3>3
    <3>6. p[pos[k]] = k
      BY <1>1, <1>4, <3>2, <3>4
    <3> QED BY <3>5, <3>6
  <2> QED BY <2>1, <2>2
<1>8. PICK r : r = [k \in 1..N |-> t[p[k]]]
  OBVIOUS
\* Where the shard at a place comes from.
<1> DEFINE From(k) == IF k <= i THEN k ELSE k - 1
<1>9. ASSUME NEW k \in 1..N
      PROVE  /\ From(k) \in 1..n /\ r[k] \in Bounds(g)
             /\ Lo(r[k]) \in Nat /\ Hi(r[k]) \in Nat
             /\ Lo(s[From(k)]) \in Nat /\ Hi(s[From(k)]) \in Nat
             /\ Lo(s[From(k)]) <= Lo(r[k]) /\ Lo(r[k]) <= Hi(r[k]) /\ Hi(r[k]) <= Hi(s[From(k)])
             /\ k = i => r[k] = a
             /\ k = i + 1 => r[k] = b
             /\ k # i /\ k # i + 1 => r[k] = s[From(k)]
  <2>1. From(k) \in 1..n
    BY <1>1, <1>4
  <2>2. s[From(k)] \in Bounds(g) /\ Lo(s[From(k)]) <= Hi(s[From(k)])
    BY <1>1, <2>1
  <2>3. r[k] = t[p[k]] /\ p[k] = (IF k <= i THEN k ELSE IF k = i + 1 THEN N ELSE k - 1)
    BY <1>5, <1>8
  <2>4. Lo(a) \in Nat /\ Hi(a) \in Nat /\ Lo(b) \in Nat /\ Hi(b) \in Nat
        /\ Lo(s[From(k)]) \in Nat /\ Hi(s[From(k)]) \in Nat
    BY <1>1, <2>2, DividedBounds
  <2>5. CASE k = i
    <3>1. r[k] = a /\ From(k) = i
      BY <1>3, <1>4, <2>3, <2>5
    <3> QED BY <2>1, <2>4, <2>5, <3>1
  <2>6. CASE k = i + 1
    <3>1. r[k] = b /\ From(k) = i /\ k # i
      BY <1>3, <1>4, <2>3, <2>6
    <3> QED BY <2>1, <2>4, <2>6, <3>1
  <2>7. CASE k # i /\ k # i + 1
    <3>1. p[k] = From(k) /\ From(k) # i
      BY <2>3, <2>7
    <3>2. r[k] = s[From(k)]
      BY <1>3, <2>1, <2>3, <3>1
    <3> QED BY <2>1, <2>2, <2>4, <2>7, <3>2
  <2> QED BY <2>5, <2>6, <2>7
<1>10. ASSUME NEW k \in 1..N, NEW m \in 1..N, k < m PROVE Hi(r[k]) < Lo(r[m])
  <2>1. CASE k = i /\ m = i + 1
    <3>1. Lo(b) \in Nat /\ Hi(a) \in Nat
      BY <1>1, DividedBounds
    <3> QED BY <1>9, <2>1, <3>1
  <2>2. CASE ~(k = i /\ m = i + 1)
    <3>1. From(k) < From(m)
      BY <1>4, <1>10, <2>2
    <3> HIDE DEF From
    <3>2. From(k) \in 1..n /\ From(m) \in 1..n
      BY <1>9
    <3>3. Hi(s[From(k)]) < Lo(s[From(m)])
      BY <1>1, <3>1, <3>2
    <3> QED BY <1>9, <3>3
  <2> QED BY <2>1, <2>2
<1>11. \A k \in 1..N : /\ r[k] \in Bounds(g) /\ Lo(r[k]) \in Nat /\ Hi(r[k]) \in Nat
                       /\ Lo(r[k]) <= Hi(r[k]) /\ r[k].lower \in Words(g)
  BY <1>1, <1>9, DividedBounds
<1>12. ASSUME NEW j \in 1..N, NEW x \in 1..N
       PROVE  Less(t[j].lower, t[x].lower) <=> pos[j] < pos[x]
  <2>1. /\ pos[j] \in 1..N /\ pos[x] \in 1..N /\ p[pos[j]] = j /\ p[pos[x]] = x
    BY <1>7
  <2>2. t[j] = r[pos[j]] /\ t[x] = r[pos[x]]
    BY <1>8, <2>1
  <2>3. g \in 0..MAX_GRANULARITY /\ t[j].lower \in Words(g) /\ t[x].lower \in Words(g)
    <3>1. t[j].lower \in Words(g) /\ t[x].lower \in Words(g)
      BY <1>11, <2>1, <2>2
    <3> QED BY <1>1, <3>1, ShardConstants
  <2>4. Less(t[j].lower, t[x].lower) <=> Lo(t[j]) < Lo(t[x])
    BY <2>3, BucketOrder DEF Lo
  <2>5. pos[j] < pos[x] => Lo(t[j]) < Lo(t[x])
    <3> HAVE pos[j] < pos[x]
    <3>1. Hi(r[pos[j]]) < Lo(r[pos[x]])
      BY <1>10, <2>1
    <3> QED BY <1>11, <2>1, <2>2, <3>1
  <2>6. pos[x] < pos[j] => Lo(t[x]) < Lo(t[j])
    <3> HAVE pos[x] < pos[j]
    <3>1. Hi(r[pos[x]]) < Lo(r[pos[j]])
      BY <1>10, <2>1
    <3> QED BY <1>11, <2>1, <2>2, <3>1
  <2>7. Lo(t[j]) \in Nat /\ Lo(t[x]) \in Nat
    BY <1>11, <2>1, <2>2
  <2> QED BY <1>4, <2>1, <2>2, <2>4, <2>5, <2>6, <2>7
<1>13. sort_shards(t) = r
  <2>1. DOMAIN t = 1..N
    BY <1>3, <1>4
  <2>2. (\A k \in 1..N : pos[p[k]] = k) /\ (\A x \in 1..N : p[pos[x]] = x)
        /\ p \in [1..N -> 1..N] /\ pos \in [1..N -> 1..N] /\ N \in Nat
    BY <1>7
  <2>3. \A j, x \in 1..N : Less(t[j].lower, t[x].lower) <=> pos[j] < pos[x]
    BY <1>12
  <2>4. sort_shards(t) = [k \in 1..N |-> t[p[k]]]
    <3>1. InPlace(t, N, p, pos)
      BY <2>1, <2>2, <2>3 DEF InPlace
    <3> QED BY <3>1, Sorted
  <2> QED BY <1>8, <2>4
<1>14. r \in [1..N -> Bounds(g)]
  <2>1. r = [k \in 1..N |-> r[k]]
    BY <1>8
  <2> QED BY <1>11, <2>1
<1>15. ASSUME NEW v \in 0..GRANULARITY_OPTS[g]-1
       PROVE  \E k \in 1..N : Lo(r[k]) <= v /\ v <= Hi(r[k])
  <2>1. PICK m \in 1..n : Lo(s[m]) <= v /\ v <= Hi(s[m])
    BY <1>1
  <2>2. v \in Int /\ Lo(b) \in Nat /\ Hi(a) \in Nat
    <3>1. GRANULARITY_OPTS[g] \in Nat
      BY <1>1, ShardConstants, Powers
    <3> QED BY <1>1, <3>1, DividedBounds
  <2>3. CASE m = i
    <3>1. i \in 1..N /\ i + 1 \in 1..N
      BY <1>4
    <3>2. r[i] = a /\ r[i + 1] = b
      BY <1>9, <3>1
    <3>3. v <= Hi(a) \/ Lo(b) <= v
      BY <2>2
    <3> QED BY <2>1, <2>3, <3>1, <3>2, <3>3
  <2>4. CASE m # i
    <3>1. PICK k \in 1..N : From(k) = m /\ k # i /\ k # i + 1
      <4>1. CASE m < i
        BY <1>4, <4>1
      <4>2. CASE i < m
        <5>1. m + 1 \in 1..N /\ From(m + 1) = m /\ m + 1 # i /\ m + 1 # i + 1
          BY <1>1, <1>4, <4>2
        <5> QED BY <5>1
      <4> QED BY <2>4, <4>1, <4>2
    <3>2. r[k] = s[m]
      BY <1>9, <3>1
    <3> QED BY <2>1, <3>2
  <2> QED BY <2>3, <2>4
<1>16. Divided(r, g, N)
  BY <1>1, <1>10, <1>11, <1>14, <1>15 DEF Divided
<1> QED BY <1>2, <1>4, <1>13, <1>16

LEMMA HalvesOf ==
    ASSUME NEW g, NEW n, NEW s, Divided(s, g, n), NEW i \in 1..n,
           NEW mid \in Int, Lo(s[i]) <= mid, mid < Hi(s[i]),
           NEW h, h = Halves(s[i], mid, mid + 1)
    PROVE  Divided(sort_shards([s EXCEPT ![i] = h[1]] \o <<h[2]>>), g, n + 1)
<1>1. g \in 1..MAX_GRANULARITY /\ g \in Nat /\ s[i] \in Bounds(g)
  BY ShardConstants DEF Divided
<1>2. /\ s[i].lower \in Words(g) /\ s[i].upper \in Words(g)
      /\ Lo(s[i]) \in Nat /\ Hi(s[i]) \in Nat
      /\ Lo(s[i]) \in 0..GRANULARITY_OPTS[g]-1 /\ Hi(s[i]) \in 0..GRANULARITY_OPTS[g]-1
  BY <1>1, DividedBounds
<1>3. granularity(s[i]) = g
  BY <1>1, <1>2, WordTyped DEF granularity
<1>4. PICK G \in Nat : G = GRANULARITY_OPTS[g]
  BY <1>1, ShardConstants, Powers
<1>5. mid \in 0..G-1 /\ mid + 1 \in 0..G-1
  BY <1>2, <1>4
<1>6. PICK x, y : x = bucket_to_str(mid, g) /\ y = bucket_to_str(mid + 1, g)
  OBVIOUS
<1>7. x \in Words(g) /\ y \in Words(g) /\ str_to_bucket(x) = mid /\ str_to_bucket(y) = mid + 1
  BY <1>1, <1>4, <1>5, <1>6, BucketWord
<1>8. PICK a, b : a = [lower |-> s[i].lower, upper |-> x] /\ b = [lower |-> y, upper |-> s[i].upper]
  OBVIOUS
<1>9. h[1] = a /\ h[2] = b
  BY <1>3, <1>6, <1>8 DEF Halves, Shard
<1>10. a \in Bounds(g) /\ b \in Bounds(g)
  BY <1>2, <1>7, <1>8 DEF Bounds
<1>11. Lo(a) = Lo(s[i]) /\ Hi(a) = mid /\ Lo(b) = mid + 1 /\ Hi(b) = Hi(s[i])
  BY <1>7, <1>8 DEF Lo, Hi
<1>12. Lo(a) <= Hi(a) /\ Lo(b) = Hi(a) + 1 /\ Lo(b) <= Hi(b)
  BY <1>2, <1>11
<1>13. Divided(sort_shards([s EXCEPT ![i] = a] \o <<b>>), g, n + 1)
  BY <1>10, <1>11, <1>12, HalvesDivide
<1> QED BY <1>9, <1>13

-----------------------------------------------------------------------------
(* The invariant: the shards divide the buckets of their granularity.      *)

Moved(sh) == \E h \in Nat : sh.lower \in Words(h) /\ sh.upper \in Words(h)

DividedInv == \E g, n : Divided(shards, g, n)
MovedInv   == \A i \in DOMAIN request : Moved(request[i])
IInv       == DividedInv /\ MovedInv

LEMMA InitInv == ShardsInit => IInv
<1> SUFFICES ASSUME ShardsInit PROVE IInv
  OBVIOUS
<1>1. PICK n \in 1..MaxServers : shards = split_into(n)
  BY DEF ShardsInit
<1>2. n \in 1..GRANULARITY_OPTS[MAX_GRANULARITY]
  <2>1. MAX_GRANULARITY \in 0..MAX_GRANULARITY
    BY ShardConstants
  <2>2. PICK G \in Nat : G = GRANULARITY_OPTS[MAX_GRANULARITY]
    BY <2>1, Powers
  <2> QED BY <2>2, ShardConstants
<1>3. DividedInv
  BY <1>1, <1>2, SplitInto DEF DividedInv
<1>4. MovedInv
  BY DEF ShardsInit, MovedInv
<1> QED BY <1>3, <1>4 DEF IInv

\* The buckets of a shard's bounds, in a state of the machine.
LEMMA ShardFacts ==
    ASSUME NEW g, NEW n, NEW s, Divided(s, g, n), NEW i \in DOMAIN s
    PROVE  /\ i \in 1..n /\ n \in Nat \ {0} /\ g \in 1..MAX_GRANULARITY /\ g \in 0..MAX_GRANULARITY
           /\ g \in Nat /\ DOMAIN s = 1..n
           /\ granularity(s[i]) = g
           /\ s[i].lower \in Words(g) /\ s[i].upper \in Words(g)
           /\ Lo(s[i]) \in Nat /\ Hi(s[i]) \in Nat /\ Lo(s[i]) <= Hi(s[i])
           /\ Lo(s[i]) = str_to_bucket(s[i].lower) /\ Hi(s[i]) = str_to_bucket(s[i].upper)
           /\ Lo(s[i]) \in 0..GRANULARITY_OPTS[g]-1 /\ Hi(s[i]) \in 0..GRANULARITY_OPTS[g]-1
<1>1. /\ g \in 1..MAX_GRANULARITY /\ n \in Nat \ {0} /\ DOMAIN s = 1..n /\ i \in 1..n
      /\ s[i] \in Bounds(g) /\ Lo(s[i]) <= Hi(s[i])
  BY DEF Divided
<1>2. /\ s[i].lower \in Words(g) /\ s[i].upper \in Words(g)
      /\ Lo(s[i]) \in Nat /\ Hi(s[i]) \in Nat
      /\ Lo(s[i]) \in 0..GRANULARITY_OPTS[g]-1 /\ Hi(s[i]) \in 0..GRANULARITY_OPTS[g]-1
  BY <1>1, DividedBounds
<1>3. g \in Nat /\ g \in 0..MAX_GRANULARITY
  BY <1>1, ShardConstants
<1>4. granularity(s[i]) = g
  BY <1>2, <1>3, WordTyped DEF granularity
<1> QED BY <1>1, <1>2, <1>3, <1>4 DEF Lo, Hi

\* Shard i is split behind bucket mid.
SplitBehind(i, mid, halves) ==
    /\ i \in DOMAIN shards /\ mid \in Int /\ Lo(shards[i]) <= mid /\ mid < Hi(shards[i])
    /\ halves = Halves(shards[i], mid, mid + 1) /\ Replace(i, halves)

LEMMA SplitKeeps ==
    ASSUME IInv, NEW i, NEW mid, NEW halves, SplitBehind(i, mid, halves)
    PROVE  IInv'
<1>1. PICK g, n : Divided(shards, g, n)
  BY DEF IInv, DividedInv
<1>2. i \in 1..n
  BY <1>1, ShardFacts DEF SplitBehind
<1>3. Divided(sort_shards([shards EXCEPT ![i] = halves[1]] \o <<halves[2]>>), g, n + 1)
  BY <1>1, <1>2, HalvesOf DEF SplitBehind
<1>4. Divided(shards', g, n + 1)
  BY <1>3 DEF SplitBehind, Replace
<1>5. DividedInv'
  BY <1>4 DEF DividedInv
<1>6. MovedInv'
  BY DEF IInv, MovedInv, Moved, SplitBehind, Replace
<1> QED BY <1>5, <1>6 DEF IInv

LEMMA MiddleSplits ==
    ASSUME IInv, SplitMiddle
    PROVE  \E i, mid, halves : SplitBehind(i, mid, halves)
<1>1. PICK g, n : Divided(shards, g, n)
  BY DEF IInv, DividedInv
<1>2. PICK i \in DOMAIN shards : shards[i].lower # shards[i].upper /\ Replace(i, split_shard(shards[i]))
  BY DEF SplitMiddle
<1>3. PICK lo, hi : /\ lo \in Nat /\ hi \in Nat /\ lo < hi
                    /\ lo = Lo(shards[i]) /\ hi = Hi(shards[i])
                    /\ lo = str_to_bucket(shards[i].lower) /\ hi = str_to_bucket(shards[i].upper)
  <2>1. /\ Lo(shards[i]) \in Nat /\ Hi(shards[i]) \in Nat /\ Lo(shards[i]) <= Hi(shards[i])
        /\ Lo(shards[i]) = str_to_bucket(shards[i].lower) /\ Hi(shards[i]) = str_to_bucket(shards[i].upper)
        /\ g \in 0..MAX_GRANULARITY /\ shards[i].lower \in Words(g) /\ shards[i].upper \in Words(g)
    BY <1>1, ShardFacts
  <2>2. Lo(shards[i]) # Hi(shards[i])
    BY <1>2, <2>1, BucketOrder
  <2> QED BY <2>1, <2>2
<1>4. PICK half \in Nat : half = (hi - lo) \div 2 /\ half < hi - lo
  <2>1. PICK d \in Nat : d = hi - lo /\ d # 0
    BY <1>3
  <2>2. d \div 2 \in Nat /\ d \div 2 < d
    BY <2>1
  <2> QED BY <2>1, <2>2
<1>5. PICK mid \in Int : mid = lo + half
  BY <1>3
<1>6. split_shard(shards[i]) = Halves(shards[i], mid, mid + 1)
  BY <1>3, <1>4, <1>5 DEF split_shard
<1>7. Lo(shards[i]) <= mid /\ mid < Hi(shards[i])
  BY <1>3, <1>4, <1>5
<1>8. SplitBehind(i, mid, split_shard(shards[i]))
  BY <1>2, <1>6, <1>7 DEF SplitBehind
<1> QED BY <1>8

LEMMA BucketSplits ==
    ASSUME IInv, SplitAtBucket
    PROVE  \E i, mid, halves : SplitBehind(i, mid, halves)
<1>1. PICK g, n : Divided(shards, g, n)
  BY DEF IInv, DividedInv
<1>2. PICK i \in DOMAIN shards :
        \E at \in str_to_bucket(shards[i].lower)..str_to_bucket(shards[i].upper)-1 :
            Replace(i, split_shard_at_bucket(shards[i], at))
  BY DEF SplitAtBucket
<1>3. PICK at \in str_to_bucket(shards[i].lower)..str_to_bucket(shards[i].upper)-1 :
            Replace(i, split_shard_at_bucket(shards[i], at))
  BY <1>2
<1>4. /\ Lo(shards[i]) \in Nat /\ Hi(shards[i]) \in Nat
      /\ Lo(shards[i]) = str_to_bucket(shards[i].lower) /\ Hi(shards[i]) = str_to_bucket(shards[i].upper)
  BY <1>1, ShardFacts
<1>5. at \in Int /\ Lo(shards[i]) <= at /\ at < Hi(shards[i])
  BY <1>4
<1>6. SplitBehind(i, at, split_shard_at_bucket(shards[i], at))
  BY <1>3, <1>5 DEF SplitBehind, split_shard_at_bucket
<1> QED BY <1>6

LEMMA KeySplits ==
    ASSUME IInv, SplitAtKey
    PROVE  \E i, mid, halves : SplitBehind(i, mid, halves)
<1>1. PICK g, n : Divided(shards, g, n)
  BY DEF IInv, DividedInv
<1>2. PICK i, first, b :
        /\ i \in DOMAIN shards /\ first \in BOOLEAN
        /\ b \in str_to_bucket(shards[i].lower)..str_to_bucket(shards[i].upper)
        /\ bucket_to_str(b, granularity(shards[i])) # (IF first THEN shards[i].upper ELSE shards[i].lower)
        /\ Replace(i, split_shard_at_key(shards[i], bucket_to_str(b, granularity(shards[i])), first))
  BY DEF SplitAtKey
<1>3. /\ Lo(shards[i]) \in Nat /\ Hi(shards[i]) \in Nat
      /\ Lo(shards[i]) = str_to_bucket(shards[i].lower) /\ Hi(shards[i]) = str_to_bucket(shards[i].upper)
      /\ Lo(shards[i]) \in 0..GRANULARITY_OPTS[g]-1 /\ Hi(shards[i]) \in 0..GRANULARITY_OPTS[g]-1
      /\ g \in 0..MAX_GRANULARITY /\ g \in 1..MAX_GRANULARITY /\ granularity(shards[i]) = g
      /\ shards[i].lower \in Words(g) /\ shards[i].upper \in Words(g)
  BY <1>1, <1>2, ShardFacts
<1>4. b \in Int /\ Lo(shards[i]) <= b /\ b <= Hi(shards[i])
  BY <1>2, <1>3
<1>5. b \in 0..GRANULARITY_OPTS[g]-1
  <2>1. GRANULARITY_OPTS[g] \in Nat
    BY <1>3, Powers
  <2> QED BY <1>3, <1>4, <2>1
<1>6. PICK at \in Words(g) : at = bucket_to_str(b, g) /\ str_to_bucket(at) = b
  BY <1>3, <1>5, BucketWord
<1>7. CASE first
  <2>1. at # shards[i].upper
    BY <1>2, <1>3, <1>6, <1>7
  <2>2. b # Hi(shards[i])
    BY <1>3, <1>6, <2>1, BucketOrder
  <2>3. split_shard_at_key(shards[i], at, first) = Halves(shards[i], b, b + 1)
    BY <1>4, <1>6, <1>7 DEF split_shard_at_key
  <2>4. SplitBehind(i, b, split_shard_at_key(shards[i], at, first))
    BY <1>2, <1>3, <1>4, <1>6, <2>2, <2>3 DEF SplitBehind
  <2> QED BY <2>4
<1>8. CASE ~first
  <2>1. at # shards[i].lower
    BY <1>2, <1>3, <1>6, <1>8
  <2>2. b # Lo(shards[i])
    BY <1>3, <1>6, <2>1, BucketOrder
  <2>3. PICK mid \in Int : mid = b - 1 /\ mid + 1 = b
    BY <1>4
  <2>4. split_shard_at_key(shards[i], at, first) = Halves(shards[i], mid, mid + 1)
    BY <1>4, <1>6, <1>8, <2>3 DEF split_shard_at_key
  <2>5. SplitBehind(i, mid, split_shard_at_key(shards[i], at, first))
    BY <1>2, <1>3, <1>4, <1>6, <2>2, <2>3, <2>4 DEF SplitBehind
  <2> QED BY <2>5
<1> QED BY <1>7, <1>8

\* A valid token in upper case is a word.
LEMMA UpperWord ==
    ASSUME NEW s \in Seq(Int), is_valid(s)
    PROVE  to_upper(s) \in Words(Len(s))
<1>1. DOMAIN s = 1..Len(s)
  OBVIOUS
<1>2. \A i \in 1..Len(s) : toupper(s[i]) \in Chars
  BY <1>1 DEF is_valid, Chars
<1> QED BY <1>1, <1>2 DEF to_upper, Words

LEMMA MoveKeeps ==
    ASSUME IInv, MoveCommand
    PROVE  IInv'
<1>1. PICK tokens \in MoveTokens :
        /\ Len(tokens) >= 2 /\ Len(tokens) % 2 = 0
        /\ \A i \in DOMAIN tokens : is_valid(tokens[i])
        /\ \A i \in 1..Len(tokens) \div 2 : Len(tokens[2 * i - 1]) = Len(tokens[2 * i])
        /\ request' = [i \in 1..Len(tokens) \div 2 |->
                          Shard(to_upper(tokens[2 * i - 1]), to_upper(tokens[2 * i]))]
        /\ UNCHANGED shards
  BY DEF MoveCommand
<1>2. tokens \in Seq(Seq(Int))
  BY ShardConstants
<1>3. PICK len, pairs : /\ len \in Nat /\ pairs \in Nat /\ len = Len(tokens) /\ pairs = Len(tokens) \div 2
                        /\ 2 * pairs <= len
  <2>1. Len(tokens) \in Nat
    BY <1>2
  <2>2. Len(tokens) \div 2 \in Nat /\ 2 * (Len(tokens) \div 2) <= Len(tokens)
    BY <2>1
  <2> QED BY <2>1, <2>2
<1>4. ASSUME NEW i \in 1..pairs PROVE Moved(request'[i])
  <2>1. PICK k, m : k \in 1..len /\ m \in 1..len /\ k = 2 * i - 1 /\ m = 2 * i
    BY <1>3
  <2>2. PICK s, t : s \in Seq(Int) /\ t \in Seq(Int) /\ s = tokens[k] /\ t = tokens[m]
    BY <1>2, <1>3, <2>1
  <2>3. is_valid(s) /\ is_valid(t)
    <3>1. DOMAIN tokens = 1..len
      BY <1>2, <1>3
    <3>2. is_valid(tokens[k]) /\ is_valid(tokens[m])
      BY <1>1, <2>1, <3>1
    <3> QED BY <2>2, <3>2, Zenon
  <2>4. Len(s) = Len(t) /\ Len(s) \in Nat
    BY <1>1, <1>3, <2>1, <2>2
  <2>5. to_upper(s) \in Words(Len(s)) /\ to_upper(t) \in Words(Len(s))
    BY <2>2, <2>3, <2>4, UpperWord
  <2>6. request'[i] = [lower |-> to_upper(s), upper |-> to_upper(t)]
    BY <1>1, <1>3, <2>1, <2>2 DEF Shard
  <2> QED BY <2>4, <2>5, <2>6 DEF Moved
<1>5. DOMAIN request' = 1..pairs
  BY <1>1, <1>3
<1>6. MovedInv'
  BY <1>4, <1>5 DEF MovedInv
<1>7. DividedInv'
  BY <1>1 DEF IInv, DividedInv
<1> QED BY <1>6, <1>7 DEF IInv

LEMMA NextInv == IInv /\ [ShardsNext]_shardsVars => IInv'
<1> SUFFICES ASSUME IInv, [ShardsNext]_shardsVars PROVE IInv'
  OBVIOUS
<1>1. CASE SplitMiddle
  BY <1>1, MiddleSplits, SplitKeeps
<1>2. CASE SplitAtBucket
  BY <1>2, BucketSplits, SplitKeeps
<1>3. CASE SplitAtKey
  BY <1>3, KeySplits, SplitKeeps
<1>4. CASE MoveCommand
  BY <1>4, MoveKeeps
<1>5. CASE UNCHANGED shardsVars
  BY <1>5 DEF IInv, DividedInv, MovedInv, Moved, shardsVars
<1> QED BY <1>1, <1>2, <1>3, <1>4, <1>5 DEF ShardsNext

\* However the key space is divided and split, the shards divide the buckets
\* of one granularity into intervals.
THEOREM InvariantHolds == ShardsSpec => []IInv
<1>1. ShardsInit => IInv
  BY InitInv
<1>2. IInv /\ [ShardsNext]_shardsVars => IInv'
  BY NextInv
<1> QED BY <1>1, <1>2, PTL DEF ShardsSpec

-----------------------------------------------------------------------------
(* What the invariant says of strings.                                     *)

LEMMA WordValid ==
    ASSUME NEW g \in Nat, NEW w \in Words(g)
    PROVE  is_valid(w) /\ to_upper(w) = w
<1>1. CHARS \in Nat /\ DOMAIN w = 1..g /\ \A i \in 1..g : w[i] \in Chars
  BY ShardConstants DEF Words
<1>2. \A i \in 1..g : toupper(w[i]) = w[i]
  BY <1>1 DEF toupper, Chars
<1>3. w = [i \in 1..g |-> w[i]]
  BY DEF Words
<1> QED BY <1>1, <1>2, <1>3 DEF is_valid, to_upper, Chars

LEMMA Typed == IInv => ShardsTypeOK
<1> SUFFICES ASSUME IInv PROVE ShardsTypeOK
  OBVIOUS
<1>1. PICK g, n : Divided(shards, g, n)
  BY DEF IInv, DividedInv
<1>2. \A i \in DOMAIN shards : /\ DOMAIN shards = 1..n /\ n \in Nat \ {0} /\ granularity(shards[i]) = g
                               /\ shards[i].lower \in Words(g) /\ shards[i].upper \in Words(g)
  BY <1>1, ShardFacts
<1>3. 1 \in DOMAIN shards
  BY <1>1 DEF Divided
<1>4. \A i \in DOMAIN shards : /\ shards[i].lower \in [1..granularity(shards[1]) -> 0..CHARS-1]
                               /\ shards[i].upper \in [1..granularity(shards[1]) -> 0..CHARS-1]
  BY <1>2, <1>3 DEF Words, Chars
<1>5. \A i \in DOMAIN request : is_valid(request[i].lower) /\ is_valid(request[i].upper)
  BY WordValid DEF IInv, MovedInv, Moved
<1> QED BY <1>4, <1>5 DEF ShardsTypeOK

\* The first characters of a key, in upper case.
LEMMA KeyPrefix ==
    ASSUME NEW key \in Keys, NEW g \in Nat
    PROVE  /\ Prefix(to_upper(key), g) \in Texts
           /\ Len(key) \in Nat
           /\ Len(key) >= g => Prefix(to_upper(key), g) \in Words(g)
<1>0. CHARS \in Nat \ {0} /\ MAX_GRANULARITY \in Nat
  BY ShardConstants
<1>1. PICK m \in 0..MAX_GRANULARITY + 1 : key \in [1..m -> 0..2 * CHARS - 1]
  BY DEF Keys, Strings
<1>2. m \in Nat /\ DOMAIN key = 1..m /\ Len(key) = m
  <2>1. m \in Nat
    BY <1>0
  <2>2. key \in [1..m -> Int]
    BY <1>0, <1>1
  <2> QED BY <2>1, <2>2
<1>3. PICK s : s = to_upper(key)
  OBVIOUS
<1>4. s \in Words(m)
  <2>1. \A i \in 1..m : toupper(key[i]) \in Chars
    BY <1>0, <1>1 DEF toupper, Chars
  <2>2. s = [i \in 1..m |-> toupper(key[i])]
    BY <1>2, <1>3 DEF to_upper
  <2> QED BY <2>1, <2>2 DEF Words
<1>5. s \in Seq(Chars) /\ Len(s) = m
  BY <1>2, <1>4 DEF Words
<1>6. PICK k \in 0..m : k = (IF g < m THEN g ELSE m) /\ k \in Nat
  BY <1>2
<1>7. PICK u : u = SubSeq(s, 1, k)
  OBVIOUS
<1>8. u \in [1..k -> Chars]
  <2>1. u = [i \in 1..k |-> s[i]]
    BY <1>2, <1>5, <1>6, <1>7
  <2>2. \A i \in 1..k : i \in 1..m
    BY <1>2, <1>6
  <2> QED BY <1>4, <2>1, <2>2 DEF Words
<1>9. Prefix(to_upper(key), g) = u
  BY <1>3, <1>5, <1>6, <1>7 DEF Prefix
<1>10. u \in Words(k) /\ u \in Texts
  BY <1>6, <1>8, WordTyped DEF Words
<1> QED BY <1>2, <1>6, <1>9, <1>10

LEMMA OneHolder == IInv => OneShardPerKey
<1> SUFFICES ASSUME IInv, NEW key \in Keys
             PROVE  /\ Cardinality(Holders(key)) <= 1
                    /\ Len(key) >= granularity(shards[1]) => Holders(key) # {}
  BY DEF OneShardPerKey
<1>1. PICK g, n : Divided(shards, g, n)
  BY DEF IInv, DividedInv
<1>2. \A i \in DOMAIN shards :
           /\ i \in 1..n /\ n \in Nat \ {0} /\ g \in 0..MAX_GRANULARITY /\ g \in Nat
           /\ granularity(shards[i]) = g
           /\ shards[i].lower \in Words(g) /\ shards[i].upper \in Words(g)
           /\ Lo(shards[i]) = str_to_bucket(shards[i].lower)
           /\ Hi(shards[i]) = str_to_bucket(shards[i].upper)
  BY <1>1, ShardFacts
<1>3. /\ DOMAIN shards = 1..n /\ 1 \in DOMAIN shards /\ n \in Nat
      /\ \A i, j \in 1..n : i < j => Hi(shards[i]) < Lo(shards[j])
      /\ \A v \in 0..GRANULARITY_OPTS[g]-1 : \E i \in 1..n : Lo(shards[i]) <= v /\ v <= Hi(shards[i])
  BY <1>1 DEF Divided
<1>4. g \in Nat /\ g \in 0..MAX_GRANULARITY /\ granularity(shards[1]) = g
  BY <1>2, <1>3
<1>5. PICK u : u = Prefix(to_upper(key), g) /\ u \in Texts
  BY <1>4, KeyPrefix
<1>6. PICK H : H = Holders(key)
  OBVIOUS
<1>7. \A i : i \in H <=> i \in 1..n /\ Leq(shards[i].lower, u) /\ Leq(u, shards[i].upper)
  BY <1>2, <1>3, <1>5, <1>6 DEF Holders, contains
<1>8. ASSUME NEW i \in H, NEW j \in H, i < j PROVE FALSE
  <2>1. i \in 1..n /\ j \in 1..n /\ Leq(u, shards[i].upper) /\ Leq(shards[j].lower, u)
    BY <1>7
  <2>2. shards[i].upper \in Words(g) /\ shards[j].lower \in Words(g)
    BY <1>2, <1>3, <2>1
  <2>3. shards[i].upper \in Texts /\ shards[j].lower \in Texts
    BY <1>4, <2>2, WordTyped
  <2>4. Hi(shards[i]) < Lo(shards[j])
    BY <1>3, <1>8, <2>1
  <2>5. Less(shards[i].upper, shards[j].lower)
    BY <1>2, <1>3, <1>4, <2>1, <2>2, <2>4, BucketOrder
  <2>6. Leq(shards[j].lower, shards[i].upper)
    BY <1>5, <2>1, <2>3, LeqTransitive
  <2> QED BY <2>3, <2>5, <2>6, LeqTransitive
<1>9. Cardinality(H) <= 1
  <2>1. CASE H = {}
    BY <2>1, FS_EmptySet
  <2>2. CASE H # {}
    <3>1. PICK i : i \in H
      BY <2>2
    <3>2. \A j \in H : j = i
      <4>1. \A j \in H : j \in Int
        BY <1>3, <1>7
      <4>2. \A j \in H : ~(i < j) /\ ~(j < i)
        BY <1>8, <3>1
      <4> QED BY <3>1, <4>1, <4>2
    <3>3. H = {i}
      BY <3>1, <3>2
    <3>4. Cardinality({i}) = 1
      BY FS_Singleton, Zenon
    <3>5. Cardinality(H) = 1
      BY <3>3, <3>4, Zenon
    <3> QED BY <3>5
  <2> QED BY <2>1, <2>2
<1>10. ASSUME Len(key) >= g PROVE H # {}
  <2>1. u \in Words(g)
    BY <1>4, <1>5, <1>10, KeyPrefix
  <2>2. PICK v : v = str_to_bucket(u) /\ v \in 0..GRANULARITY_OPTS[g]-1
    BY <1>4, <2>1, BucketRange
  <2>3. PICK i \in 1..n : Lo(shards[i]) <= v /\ v <= Hi(shards[i])
    BY <1>3, <2>2
  <2>4. Leq(shards[i].lower, u) /\ Leq(u, shards[i].upper)
    <3>1. /\ shards[i].lower \in Words(g) /\ shards[i].upper \in Words(g)
          /\ Lo(shards[i]) = str_to_bucket(shards[i].lower) /\ Hi(shards[i]) = str_to_bucket(shards[i].upper)
      BY <1>2, <1>3
    <3> QED BY <1>4, <2>1, <2>2, <2>3, <3>1, BucketOrder
  <2> QED BY <1>7, <2>4
<1> QED BY <1>4, <1>6, <1>9, <1>10

-----------------------------------------------------------------------------
(* Overlap: what the bounds say, and what the keys say.                    *)

Ranged(x, g) == x.lower \in Words(g) /\ x.upper \in Words(g) /\ Leq(x.lower, x.upper)

\* A bound is a key, and its own prefix.
LEMMA WordIsKey ==
    ASSUME NEW g \in 1..MAX_GRANULARITY, NEW w \in Words(g)
    PROVE  w \in Keys /\ Prefix(to_upper(w), g) = w
<1>0. MAX_GRANULARITY \in Nat /\ CHARS \in Nat \ {0} /\ g \in Nat
  BY ShardConstants
<1>1. w \in [1..g -> 0..2 * CHARS - 1]
  <2>1. \A i \in 1..g : w[i] \in 0..2 * CHARS - 1
    BY <1>0 DEF Words, Chars
  <2> QED BY <2>1 DEF Words
<1>2. w \in Keys
  <2>1. g \in 0..MAX_GRANULARITY + 1
    BY <1>0
  <2> QED BY <1>1, <2>1 DEF Keys, Strings
<1>3. to_upper(w) = w /\ Len(w) = g
  BY <1>0, WordValid, WordTyped
<1>4. SubSeq(w, 1, g) = w
  <2>1. w \in Seq(Chars) /\ Len(w) = g
    BY <1>0, <1>3 DEF Words
  <2> QED BY <1>0, <2>1
<1> QED BY <1>0, <1>2, <1>3, <1>4 DEF Prefix

\* Membership, when the string order is carried over to the prefix.
LEMMA Member ==
    ASSUME NEW g \in 1..MAX_GRANULARITY, NEW x, Ranged(x, g), NEW key
    PROVE  key \in KeysIn(x) <=> /\ key \in Keys
                                 /\ Leq(x.lower, Prefix(to_upper(key), g))
                                 /\ Leq(Prefix(to_upper(key), g), x.upper)
<1>1. g \in Nat
  BY ShardConstants
<1>2. granularity(x) = g
  BY <1>1, WordTyped DEF granularity, Ranged
<1> QED BY <1>2 DEF KeysIn, contains

LEMMA KeySets ==
    ASSUME NEW g \in 1..MAX_GRANULARITY, NEW a, NEW b, Ranged(a, g), Ranged(b, g)
    PROVE  /\ KeysIn(a) \cap KeysIn(b) = {} <=> Less(a.upper, b.lower) \/ Less(b.upper, a.lower)
           /\ KeysIn(a) \subseteq KeysIn(b) <=> Leq(b.lower, a.lower) /\ Leq(a.upper, b.upper)
<1>0. g \in 0..MAX_GRANULARITY /\ g \in Nat
  BY ShardConstants
<1>1. /\ a.lower \in Words(g) /\ a.upper \in Words(g) /\ Leq(a.lower, a.upper)
      /\ b.lower \in Words(g) /\ b.upper \in Words(g) /\ Leq(b.lower, b.upper)
  BY DEF Ranged
<1>2. a.lower \in Texts /\ a.upper \in Texts /\ b.lower \in Texts /\ b.upper \in Texts
  BY <1>0, <1>1, WordTyped
<1>3. \A s, t \in Words(g) : /\ str_to_bucket(s) \in Nat
                             /\ Less(s, t) <=> str_to_bucket(s) < str_to_bucket(t)
                             /\ Leq(s, t) <=> str_to_bucket(s) <= str_to_bucket(t)
  <2>1. GRANULARITY_OPTS[g] \in Nat
    BY <1>0, Powers
  <2>2. \A s \in Words(g) : str_to_bucket(s) \in Nat
    BY <1>0, <2>1, BucketRange
  <2> QED BY <1>0, <2>2, BucketOrder
<1>4. PICK la, ua, lb, ub : /\ la \in Nat /\ ua \in Nat /\ lb \in Nat /\ ub \in Nat
                            /\ la = str_to_bucket(a.lower) /\ ua = str_to_bucket(a.upper)
                            /\ lb = str_to_bucket(b.lower) /\ ub = str_to_bucket(b.upper)
  BY <1>1, <1>3
<1>5. /\ Less(a.upper, b.lower) <=> ua < lb
      /\ Less(b.upper, a.lower) <=> ub < la
      /\ Leq(b.lower, a.lower) <=> lb <= la
      /\ Leq(a.lower, b.lower) <=> la <= lb
      /\ Leq(a.upper, b.upper) <=> ua <= ub
      /\ Leq(a.lower, b.upper) <=> la <= ub
      /\ Leq(b.lower, a.upper) <=> lb <= ua
      /\ la <= ua /\ lb <= ub
  BY <1>1, <1>3, <1>4
<1>6. \A w \in Words(g) : /\ w \in KeysIn(a) <=> Leq(a.lower, w) /\ Leq(w, a.upper)
                          /\ w \in KeysIn(b) <=> Leq(b.lower, w) /\ Leq(w, b.upper)
  BY WordIsKey, Member
<1>7. Less(a.upper, b.lower) \/ Less(b.upper, a.lower) => KeysIn(a) \cap KeysIn(b) = {}
  <2> SUFFICES ASSUME NEW key, key \in KeysIn(a), key \in KeysIn(b)
               PROVE  ~Less(a.upper, b.lower) /\ ~Less(b.upper, a.lower)
    OBVIOUS
  <2>1. PICK u \in Texts : u = Prefix(to_upper(key), g)
    <3>1. key \in Keys
      BY DEF KeysIn
    <3> QED BY <1>0, <3>1, KeyPrefix
  <2>2. /\ Leq(a.lower, u) /\ Leq(u, a.upper) /\ Leq(b.lower, u) /\ Leq(u, b.upper)
    BY <2>1, Member
  <2>3. Leq(b.lower, a.upper) /\ Leq(a.lower, b.upper)
    BY <1>2, <2>2, LeqTransitive
  <2> QED BY <1>2, <2>3, LeqTransitive
<1>8. ~(Less(a.upper, b.lower) \/ Less(b.upper, a.lower)) => KeysIn(a) \cap KeysIn(b) # {}
  <2> SUFFICES ASSUME ~(ua < lb), ~(ub < la) PROVE KeysIn(a) \cap KeysIn(b) # {}
    BY <1>5
  <2>1. CASE la <= lb
    <3>1. Leq(a.lower, b.lower) /\ Leq(b.lower, a.upper) /\ Leq(b.lower, b.lower) /\ Leq(b.lower, b.upper)
      BY <1>1, <1>4, <1>5, <2>1 DEF Leq
    <3>2. b.lower \in KeysIn(a) /\ b.lower \in KeysIn(b)
      BY <1>1, <1>6, <3>1
    <3> QED BY <3>2
  <2>2. CASE lb <= la
    <3>1. Leq(b.lower, a.lower) /\ Leq(a.lower, b.upper) /\ Leq(a.lower, a.lower) /\ Leq(a.lower, a.upper)
      BY <1>1, <1>4, <1>5, <2>2 DEF Leq
    <3>2. a.lower \in KeysIn(a) /\ a.lower \in KeysIn(b)
      BY <1>1, <1>6, <3>1
    <3> QED BY <3>2
  <2> QED BY <1>4, <2>1, <2>2
<1>9. Leq(b.lower, a.lower) /\ Leq(a.upper, b.upper) => KeysIn(a) \subseteq KeysIn(b)
  <2> SUFFICES ASSUME Leq(b.lower, a.lower), Leq(a.upper, b.upper), NEW key \in KeysIn(a)
               PROVE  key \in KeysIn(b)
    OBVIOUS
  <2>1. key \in Keys
    BY DEF KeysIn
  <2>2. PICK u \in Texts : u = Prefix(to_upper(key), g)
    BY <1>0, <2>1, KeyPrefix
  <2>3. Leq(a.lower, u) /\ Leq(u, a.upper)
    BY <2>2, Member
  <2>4. Leq(b.lower, u) /\ Leq(u, b.upper)
    BY <1>2, <2>3, LeqTransitive
  <2> QED BY <2>1, <2>2, <2>4, Member
<1>10. KeysIn(a) \subseteq KeysIn(b) => Leq(b.lower, a.lower) /\ Leq(a.upper, b.upper)
  <2>1. Leq(a.lower, a.lower) /\ Leq(a.upper, a.upper)
    BY DEF Leq
  <2>2. a.lower \in KeysIn(a) /\ a.upper \in KeysIn(a)
    BY <1>1, <1>6, <2>1
  <2> QED BY <1>1, <1>6, <2>2
<1> QED BY <1>7, <1>8, <1>9, <1>10

LEMMA OverlapTrue ==
    ASSUME NEW g \in 1..MAX_GRANULARITY, NEW a, NEW b, Ranged(a, g), Ranged(b, g)
    PROVE  get_overlap(a, b) = OverlapOfSets(a, b)
<1>0. g \in 0..MAX_GRANULARITY
  BY ShardConstants
<1>1. /\ a.lower \in Words(g) /\ a.upper \in Words(g)
      /\ b.lower \in Words(g) /\ b.upper \in Words(g)
  BY DEF Ranged
<1>2. \A s, t \in Words(g) : /\ Leq(s, t) \/ Less(t, s)
                             /\ ~(Leq(s, t) /\ Less(t, s))
                             /\ Less(s, t) <=> Leq(s, t) /\ s # t
  <2> SUFFICES ASSUME NEW s \in Words(g), NEW t \in Words(g)
               PROVE  /\ Leq(s, t) \/ Less(t, s)
                      /\ ~(Leq(s, t) /\ Less(t, s))
                      /\ Less(s, t) <=> Leq(s, t) /\ s # t
    OBVIOUS
  <2>1. GRANULARITY_OPTS[g] \in Nat
    BY <1>0, Powers
  <2>2. str_to_bucket(s) \in Int /\ str_to_bucket(t) \in Int
    BY <1>0, <2>1, BucketRange
  <2>3. /\ Less(s, t) <=> str_to_bucket(s) < str_to_bucket(t)
        /\ Less(t, s) <=> str_to_bucket(t) < str_to_bucket(s)
        /\ Leq(s, t) <=> str_to_bucket(s) <= str_to_bucket(t)
        /\ s = t <=> str_to_bucket(s) = str_to_bucket(t)
    BY <1>0, BucketOrder
  <2> QED BY <2>2, <2>3
<1>3. /\ KeysIn(a) \cap KeysIn(b) = {} <=> Less(a.upper, b.lower) \/ Less(b.upper, a.lower)
      /\ KeysIn(a) \subseteq KeysIn(b) <=> Leq(b.lower, a.lower) /\ Leq(a.upper, b.upper)
      /\ KeysIn(b) \subseteq KeysIn(a) <=> Leq(a.lower, b.lower) /\ Leq(b.upper, a.upper)
  BY KeySets
<1>4. /\ Less(a.lower, b.lower) <=> ~Leq(b.lower, a.lower)
      /\ Less(b.upper, a.upper) <=> ~Leq(a.upper, b.upper)
      /\ Less(a.lower, b.lower) <=> Leq(a.lower, b.lower) /\ a.lower # b.lower
      /\ Less(b.upper, a.upper) <=> Leq(b.upper, a.upper) /\ a.upper # b.upper
  BY <1>1, <1>2
<1> QED BY <1>3, <1>4 DEF get_overlap, OverlapOfSets

LEMMA OverlapHolds == IInv => OverlapAgrees
<1> SUFFICES ASSUME IInv, NEW i \in DOMAIN request, NEW j \in DOMAIN shards,
                    granularity(request[i]) = granularity(shards[j]),
                    Leq(request[i].lower, request[i].upper)
             PROVE  /\ get_overlap(request[i], shards[j]) = OverlapOfSets(request[i], shards[j])
                    /\ get_overlap(shards[j], request[i]) = OverlapOfSets(shards[j], request[i])
  BY DEF OverlapAgrees
<1>1. PICK g, n : Divided(shards, g, n)
  BY DEF IInv, DividedInv
<1>2. /\ g \in 1..MAX_GRANULARITY /\ g \in 0..MAX_GRANULARITY /\ granularity(shards[j]) = g
      /\ shards[j].lower \in Words(g) /\ shards[j].upper \in Words(g)
      /\ Lo(shards[j]) <= Hi(shards[j])
      /\ Lo(shards[j]) = str_to_bucket(shards[j].lower) /\ Hi(shards[j]) = str_to_bucket(shards[j].upper)
  BY <1>1, ShardFacts
<1>3. Ranged(shards[j], g)
  BY <1>2, BucketOrder DEF Ranged
<1>4. PICK h \in Nat : request[i].lower \in Words(h) /\ request[i].upper \in Words(h)
  BY DEF IInv, MovedInv, Moved
<1>5. h = g
  BY <1>2, <1>4, WordTyped DEF granularity
<1>6. Ranged(request[i], g)
  BY <1>4, <1>5 DEF Ranged
<1> QED BY <1>2, <1>3, <1>6, OverlapTrue

-----------------------------------------------------------------------------
(* The theorems about shards.                                              *)

\* The bounds of the shards are words of one granularity, whatever split made
\* them, and those a moved range is sent with are valid.
THEOREM ShardsTypeCorrect == ShardsSpec => []ShardsTypeOK
  BY InvariantHolds, Typed, PTL

\* A key is in at most one shard, and in one if it is as long as the bounds:
\* split_into, the three splits and the sort leave no gap and no overlap.
THEOREM ShardPerKey == ShardsSpec => []OneShardPerKey
  BY InvariantHolds, OneHolder, PTL

\* Of a moved range and a shard of its granularity get_overlap says what their
\* sets of keys say.
THEOREM OverlapRight == ShardsSpec => []OverlapAgrees
  BY InvariantHolds, OverlapHolds, PTL

-----------------------------------------------------------------------------
(* The threads of the shardmaster: a handler always finds its connection   *)
(* in current_conns, and no thread outlives stop().                        *)

Stopping == {"close_conns", "check", "asleep", "relock", "stopped"}
Ended == {"none", "exited"}

\* conns_mtx is held across steps by the listener, between spawning a handler
\* and recording its connection, and by the main thread in front of its check;
\* there is no listener before start().
MutexOwned ==
    /\ conns_mtx = "listener" <=> lpc \in {"spawn", "add"}
    /\ conns_mtx = "main" <=> mpc = "check"
    /\ mpc = "init" => lpc = "none"

\* The connection the listener is about to pass on is its own.
ListenerHolds ==
    /\ lpc \in {"lock", "spawn", "add"} => lcur \in Clients
    /\ lpc \in {"lock", "spawn"} => hpc[lcur] = "none" /\ sock[lcur] # "none"
    /\ lpc = "add" => hpc[lcur] \notin Ended
    /\ \A c \in Clients :
          hpc[c] = "none" => sock[c] = "none" \/ (lcur = c /\ lpc \in {"lock", "spawn"})
    /\ \A c \in Clients : sock[c] = "none" => hpc[c] = "none"

\* current_conns holds the connections whose handlers have not ended, but for
\* the one whose handler the listener has just spawned.
ConnsTracked ==
    \A c \in Clients :
        c \in current_conns <=> hpc[c] \notin Ended /\ ~(lpc = "add" /\ lcur = c)

\* is_connected is the state of the socket, and a handler shuts its down.
SocketsMatch ==
    \A c \in Clients :
        /\ sock[c] = "open" <=> is_connected[c]
        /\ hpc[c] \in {"remove", "exited"} => ~is_connected[c]

\* Once stop() has joined the listener, the listener has ended, and stop()
\* returns only when current_conns is empty; it stays so.
ListenerJoined ==
    /\ mpc \in Stopping => lpc = "exited"
    /\ mpc = "stopped" => current_conns = {}

\* No request is received that was not sent.
RequestsCounted == \A c \in Clients : pending[c] <= sent[c]

MasterInv ==
    /\ TypeOK
    /\ RequestsCounted
    /\ MutexOwned
    /\ ListenerHolds
    /\ ConnsTracked
    /\ SocketsMatch
    /\ ListenerJoined

-----------------------------------------------------------------------------
\* The invariant holds before start().
LEMMA MasterInit == Init => MasterInv
<1> SUFFICES ASSUME Init PROVE MasterInv
  OBVIOUS
<1>1. pending = [c \in Clients |-> 0] /\ sent = [c \in Clients |-> 0]
  BY Zenon DEF Init
<1>2. /\ pending \in [Clients -> 0..MaxRequests]
      /\ sent \in [Clients -> 0..MaxRequests]
      /\ RequestsCounted
  BY <1>1, MaxRequestsAssumption DEF RequestsCounted
<1>3. is_stopped \in BOOLEAN /\ is_connected \in [Clients -> BOOLEAN]
  BY Zenon DEF Init
<1>4. TypeOK
  BY <1>2, <1>3, Zenon DEF Init, TypeOK
<1>5. MutexOwned /\ ListenerHolds
  BY DEF Init, MutexOwned, ListenerHolds
<1>6. ConnsTracked /\ SocketsMatch /\ ListenerJoined
  BY DEF Init, ConnsTracked, SocketsMatch, ListenerJoined, Stopping, Ended
<1> QED BY <1>2, <1>4, <1>5, <1>6 DEF MasterInv

\* Every step keeps the types.
LEMMA MasterTypeStep == MasterInv /\ [Next]_vars => TypeOK'
<1> SUFFICES ASSUME MasterInv, [Next]_vars PROVE TypeOK'
  OBVIOUS
<1> USE NoneAssumption, MaxRequestsAssumption
    DEF MasterInv, TypeOK, ListenerHolds, RequestsCounted, main,
        listener, conns,
        clients
<1>1. ASSUME StartFails PROVE TypeOK'
  BY <1>1 DEF StartFails
<1>2. ASSUME Start PROVE TypeOK'
  BY <1>2 DEF Start
<1>3. ASSUME StopFlag PROVE TypeOK'
  BY <1>3 DEF StopFlag
<1>4. ASSUME StopListener PROVE TypeOK'
  BY <1>4 DEF StopListener
<1>5. ASSUME JoinListener PROVE TypeOK'
  BY <1>5 DEF JoinListener
<1>6. ASSUME CloseConns PROVE TypeOK'
  BY <1>6 DEF CloseConns, Shutdown
<1>7. ASSUME WaitCheck PROVE TypeOK'
  BY <1>7 DEF WaitCheck
<1>8. ASSUME WaitRelock PROVE TypeOK'
  BY <1>8 DEF WaitRelock
<1>9. ASSUME SpuriousWake PROVE TypeOK'
  BY <1>9 DEF SpuriousWake
<1>10. ASSUME ListenerLoop PROVE TypeOK'
  BY <1>10 DEF ListenerLoop
<1>11. ASSUME NEW c \in Clients, Accept(c) PROVE TypeOK'
  BY <1>11 DEF Accept
<1>12. ASSUME AcceptFails PROVE TypeOK'
  BY <1>12 DEF AcceptFails
<1>13. ASSUME ListenerLock PROVE TypeOK'
  BY <1>13 DEF ListenerLock
<1>14. ASSUME ListenerSpawn PROVE TypeOK'
  BY <1>14 DEF ListenerSpawn
<1>15. ASSUME ListenerAdd PROVE TypeOK'
  BY <1>15 DEF ListenerAdd
<1>16. ASSUME NEW c \in Clients, HandlerLoop(c) PROVE TypeOK'
  BY <1>16 DEF HandlerLoop, HandlerGoto
<1>17. ASSUME NEW c \in Clients, HandlerRecv(c) PROVE TypeOK'
  BY <1>17 DEF HandlerRecv, HandlerGoto
<1>18. ASSUME NEW c \in Clients, HandlerRecvFails(c) PROVE TypeOK'
  BY <1>18 DEF HandlerRecvFails, HandlerGoto
<1>19. ASSUME NEW c \in Clients, HandlerSend(c) PROVE TypeOK'
  BY <1>19 DEF HandlerSend, HandlerGoto
<1>20. ASSUME NEW c \in Clients, HandlerShutdown(c) PROVE TypeOK'
  <2>1. /\ is_connected' \in [Clients -> BOOLEAN]
        /\ sock' \in [Clients -> {"none", "open", "shut", "closed"}]
    BY <1>20 DEF HandlerShutdown, Shutdown
  <2>2. hpc' \in [Clients -> {"none", "loop", "recv", "send", "shutdown", "remove", "exited"}]
    BY <1>20 DEF HandlerShutdown, HandlerGoto
  <2> QED BY <1>20, <2>1, <2>2 DEF HandlerShutdown
<1>21. ASSUME NEW c \in Clients, HandlerRemove(c) PROVE TypeOK'
  BY <1>21 DEF HandlerRemove, HandlerGoto, Destroy
<1>22. ASSUME NEW c \in Clients, Connect(c) PROVE TypeOK'
  BY <1>22 DEF Connect
<1>23. ASSUME NEW c \in Clients, Send(c) PROVE TypeOK'
  BY <1>23 DEF Send
<1>24. ASSUME NEW c \in Clients, Hangup(c) PROVE TypeOK'
  BY <1>24 DEF Hangup
<1>25. CASE UNCHANGED vars
  BY <1>25 DEF vars
<1> QED BY <1>1, <1>2, <1>3, <1>4, <1>5, <1>6, <1>7, <1>8, <1>9, <1>10, <1>11,
        <1>12, <1>13, <1>14, <1>15, <1>16, <1>17, <1>18, <1>19, <1>20, <1>21,
        <1>22, <1>23, <1>24, <1>25
    DEF Next, StopStep, ListenerStep, HandlerStep,
        ClientStep

\* A request is received once.
LEMMA CountedStep == MasterInv /\ [Next]_vars => RequestsCounted'
<1> SUFFICES ASSUME MasterInv, [Next]_vars PROVE RequestsCounted'
  OBVIOUS
<1> USE MaxRequestsAssumption
    DEF MasterInv, TypeOK, RequestsCounted, main,
        listener, conns, clients
<1>1. ASSUME StartFails PROVE RequestsCounted'
  BY <1>1 DEF StartFails
<1>2. ASSUME Start PROVE RequestsCounted'
  BY <1>2 DEF Start
<1>3. ASSUME StopFlag PROVE RequestsCounted'
  BY <1>3 DEF StopFlag
<1>4. ASSUME StopListener PROVE RequestsCounted'
  BY <1>4 DEF StopListener
<1>5. ASSUME JoinListener PROVE RequestsCounted'
  BY <1>5 DEF JoinListener
<1>6. ASSUME CloseConns PROVE RequestsCounted'
  BY <1>6 DEF CloseConns, Shutdown
<1>7. ASSUME WaitCheck PROVE RequestsCounted'
  BY <1>7 DEF WaitCheck
<1>8. ASSUME WaitRelock PROVE RequestsCounted'
  BY <1>8 DEF WaitRelock
<1>9. ASSUME SpuriousWake PROVE RequestsCounted'
  BY <1>9 DEF SpuriousWake
<1>10. ASSUME ListenerLoop PROVE RequestsCounted'
  BY <1>10 DEF ListenerLoop
<1>11. ASSUME NEW c \in Clients, Accept(c) PROVE RequestsCounted'
  BY <1>11 DEF Accept
<1>12. ASSUME AcceptFails PROVE RequestsCounted'
  BY <1>12 DEF AcceptFails
<1>13. ASSUME ListenerLock PROVE RequestsCounted'
  BY <1>13 DEF ListenerLock
<1>14. ASSUME ListenerSpawn PROVE RequestsCounted'
  BY <1>14 DEF ListenerSpawn
<1>15. ASSUME ListenerAdd PROVE RequestsCounted'
  BY <1>15 DEF ListenerAdd
<1>16. ASSUME NEW c \in Clients, HandlerLoop(c) PROVE RequestsCounted'
  BY <1>16 DEF HandlerLoop, HandlerGoto
<1>17. ASSUME NEW c \in Clients, HandlerRecv(c) PROVE RequestsCounted'
  BY <1>17 DEF HandlerRecv, HandlerGoto
<1>18. ASSUME NEW c \in Clients, HandlerRecvFails(c) PROVE RequestsCounted'
  BY <1>18 DEF HandlerRecvFails, HandlerGoto
<1>19. ASSUME NEW c \in Clients, HandlerSend(c) PROVE RequestsCounted'
  BY <1>19 DEF HandlerSend, HandlerGoto
<1>20. ASSUME NEW c \in Clients, HandlerShutdown(c) PROVE RequestsCounted'
  BY <1>20 DEF HandlerShutdown, HandlerGoto, Shutdown
<1>21. ASSUME NEW c \in Clients, HandlerRemove(c) PROVE RequestsCounted'
  BY <1>21 DEF HandlerRemove, HandlerGoto, Destroy
<1>22. ASSUME NEW c \in Clients, Connect(c) PROVE RequestsCounted'
  BY <1>22 DEF Connect
<1>23. ASSUME NEW c \in Clients, Send(c) PROVE RequestsCounted'
  BY <1>23 DEF Send
<1>24. ASSUME NEW c \in Clients, Hangup(c) PROVE RequestsCounted'
  BY <1>24 DEF Hangup
<1>25. CASE UNCHANGED vars
  BY <1>25 DEF vars
<1> QED BY <1>1, <1>2, <1>3, <1>4, <1>5, <1>6, <1>7, <1>8, <1>9, <1>10, <1>11,
        <1>12, <1>13, <1>14, <1>15, <1>16, <1>17, <1>18, <1>19, <1>20, <1>21,
        <1>22, <1>23, <1>24, <1>25
    DEF Next, StopStep, ListenerStep, HandlerStep,
        ClientStep

\* conns_mtx is released where it must be and taken only when it is free.
LEMMA MutexStep == MasterInv /\ [Next]_vars => MutexOwned'
<1> SUFFICES ASSUME MasterInv, [Next]_vars PROVE MutexOwned'
  OBVIOUS
<1> USE NoneAssumption
    DEF MasterInv, TypeOK, MutexOwned, main, listener,
        conns, clients
<1>1. ASSUME StartFails PROVE MutexOwned'
  BY <1>1 DEF StartFails
<1>2. ASSUME Start PROVE MutexOwned'
  BY <1>2 DEF Start
<1>3. ASSUME StopFlag PROVE MutexOwned'
  BY <1>3 DEF StopFlag
<1>4. ASSUME StopListener PROVE MutexOwned'
  BY <1>4 DEF StopListener
<1>5. ASSUME JoinListener PROVE MutexOwned'
  BY <1>5 DEF JoinListener
<1>6. ASSUME CloseConns PROVE MutexOwned'
  BY <1>6 DEF CloseConns, Shutdown
<1>7. ASSUME WaitCheck PROVE MutexOwned'
  BY <1>7 DEF WaitCheck
<1>8. ASSUME WaitRelock PROVE MutexOwned'
  BY <1>8 DEF WaitRelock
<1>9. ASSUME SpuriousWake PROVE MutexOwned'
  BY <1>9 DEF SpuriousWake
<1>10. ASSUME ListenerLoop PROVE MutexOwned'
  BY <1>10 DEF ListenerLoop
<1>11. ASSUME NEW c \in Clients, Accept(c) PROVE MutexOwned'
  BY <1>11 DEF Accept
<1>12. ASSUME AcceptFails PROVE MutexOwned'
  BY <1>12 DEF AcceptFails
<1>13. ASSUME ListenerLock PROVE MutexOwned'
  BY <1>13 DEF ListenerLock
<1>14. ASSUME ListenerSpawn PROVE MutexOwned'
  BY <1>14 DEF ListenerSpawn
<1>15. ASSUME ListenerAdd PROVE MutexOwned'
  BY <1>15 DEF ListenerAdd
<1>16. ASSUME NEW c \in Clients, HandlerLoop(c) PROVE MutexOwned'
  BY <1>16 DEF HandlerLoop, HandlerGoto
<1>17. ASSUME NEW c \in Clients, HandlerRecv(c) PROVE MutexOwned'
  BY <1>17 DEF HandlerRecv, HandlerGoto
<1>18. ASSUME NEW c \in Clients, HandlerRecvFails(c) PROVE MutexOwned'
  BY <1>18 DEF HandlerRecvFails, HandlerGoto
<1>19. ASSUME NEW c \in Clients, HandlerSend(c) PROVE MutexOwned'
  BY <1>19 DEF HandlerSend, HandlerGoto
<1>20. ASSUME NEW c \in Clients, HandlerShutdown(c) PROVE MutexOwned'
  BY <1>20 DEF HandlerShutdown, HandlerGoto, Shutdown
<1>21. ASSUME NEW c \in Clients, HandlerRemove(c) PROVE MutexOwned'
  BY <1>21 DEF HandlerRemove, HandlerGoto, Destroy
<1>22. ASSUME NEW c \in Clients, Connect(c) PROVE MutexOwned'
  BY <1>22 DEF Connect
<1>23. ASSUME NEW c \in Clients, Send(c) PROVE MutexOwned'
  BY <1>23 DEF Send
<1>24. ASSUME NEW c \in Clients, Hangup(c) PROVE MutexOwned'
  BY <1>24 DEF Hangup
<1>25. CASE UNCHANGED vars
  BY <1>25 DEF vars
<1> QED BY <1>1, <1>2, <1>3, <1>4, <1>5, <1>6, <1>7, <1>8, <1>9, <1>10, <1>11,
        <1>12, <1>13, <1>14, <1>15, <1>16, <1>17, <1>18, <1>19, <1>20, <1>21,
        <1>22, <1>23, <1>24, <1>25
    DEF Next, StopStep, ListenerStep, HandlerStep,
        ClientStep

\* A connection goes from the listener to its handler.
LEMMA HoldsStep == MasterInv /\ [Next]_vars => ListenerHolds'
<1> SUFFICES ASSUME MasterInv, [Next]_vars PROVE ListenerHolds'
  OBVIOUS
<1> USE NoneAssumption
    DEF MasterInv, TypeOK, MutexOwned, ListenerHolds, SocketsMatch,
        Ended, main,
        listener, conns, clients
<1>1. ASSUME StartFails PROVE ListenerHolds'
  BY <1>1 DEF StartFails
<1>2. ASSUME Start PROVE ListenerHolds'
  BY <1>2 DEF Start
<1>3. ASSUME StopFlag PROVE ListenerHolds'
  BY <1>3 DEF StopFlag
<1>4. ASSUME StopListener PROVE ListenerHolds'
  BY <1>4 DEF StopListener
<1>5. ASSUME JoinListener PROVE ListenerHolds'
  BY <1>5 DEF JoinListener
<1>6. ASSUME CloseConns PROVE ListenerHolds'
  BY <1>6 DEF CloseConns, Shutdown
<1>7. ASSUME WaitCheck PROVE ListenerHolds'
  BY <1>7 DEF WaitCheck
<1>8. ASSUME WaitRelock PROVE ListenerHolds'
  BY <1>8 DEF WaitRelock
<1>9. ASSUME SpuriousWake PROVE ListenerHolds'
  BY <1>9 DEF SpuriousWake
<1>10. ASSUME ListenerLoop PROVE ListenerHolds'
  BY <1>10 DEF ListenerLoop
<1>11. ASSUME NEW c \in Clients, Accept(c) PROVE ListenerHolds'
  BY <1>11 DEF Accept
<1>12. ASSUME AcceptFails PROVE ListenerHolds'
  BY <1>12 DEF AcceptFails
<1>13. ASSUME ListenerLock PROVE ListenerHolds'
  BY <1>13 DEF ListenerLock
<1>14. ASSUME ListenerSpawn PROVE ListenerHolds'
  BY <1>14 DEF ListenerSpawn
<1>15. ASSUME ListenerAdd PROVE ListenerHolds'
  BY <1>15 DEF ListenerAdd
<1>16. ASSUME NEW c \in Clients, HandlerLoop(c) PROVE ListenerHolds'
  BY <1>16 DEF HandlerLoop, HandlerGoto
<1>17. ASSUME NEW c \in Clients, HandlerRecv(c) PROVE ListenerHolds'
  BY <1>17 DEF HandlerRecv, HandlerGoto
<1>18. ASSUME NEW c \in Clients, HandlerRecvFails(c) PROVE ListenerHolds'
  BY <1>18 DEF HandlerRecvFails, HandlerGoto
<1>19. ASSUME NEW c \in Clients, HandlerSend(c) PROVE ListenerHolds'
  BY <1>19 DEF HandlerSend, HandlerGoto
<1>20. ASSUME NEW c \in Clients, HandlerShutdown(c) PROVE ListenerHolds'
  BY <1>20 DEF HandlerShutdown, HandlerGoto, Shutdown
<1>21. ASSUME NEW c \in Clients, HandlerRemove(c) PROVE ListenerHolds'
  BY <1>21 DEF HandlerRemove, HandlerGoto, Destroy
<1>22. ASSUME NEW c \in Clients, Connect(c) PROVE ListenerHolds'
  BY <1>22 DEF Connect
<1>23. ASSUME NEW c \in Clients, Send(c) PROVE ListenerHolds'
  BY <1>23 DEF Send
<1>24. ASSUME NEW c \in Clients, Hangup(c) PROVE ListenerHolds'
  BY <1>24 DEF Hangup
<1>25. CASE UNCHANGED vars
  BY <1>25 DEF vars
<1> QED BY <1>1, <1>2, <1>3, <1>4, <1>5, <1>6, <1>7, <1>8, <1>9, <1>10, <1>11,
        <1>12, <1>13, <1>14, <1>15, <1>16, <1>17, <1>18, <1>19, <1>20, <1>21,
        <1>22, <1>23, <1>24, <1>25
    DEF Next, StopStep, ListenerStep, HandlerStep,
        ClientStep

\* current_conns follows the handlers.
LEMMA TrackedStep == MasterInv /\ [Next]_vars => ConnsTracked'
<1> SUFFICES ASSUME MasterInv, [Next]_vars PROVE ConnsTracked'
  OBVIOUS
<1> USE NoneAssumption
    DEF MasterInv, TypeOK, MutexOwned, ListenerHolds, ConnsTracked,
        Ended, main,
        listener, conns, clients
<1>1. ASSUME StartFails PROVE ConnsTracked'
  BY <1>1 DEF StartFails
<1>2. ASSUME Start PROVE ConnsTracked'
  BY <1>2 DEF Start
<1>3. ASSUME StopFlag PROVE ConnsTracked'
  BY <1>3 DEF StopFlag
<1>4. ASSUME StopListener PROVE ConnsTracked'
  BY <1>4 DEF StopListener
<1>5. ASSUME JoinListener PROVE ConnsTracked'
  BY <1>5 DEF JoinListener
<1>6. ASSUME CloseConns PROVE ConnsTracked'
  BY <1>6 DEF CloseConns, Shutdown
<1>7. ASSUME WaitCheck PROVE ConnsTracked'
  BY <1>7 DEF WaitCheck
<1>8. ASSUME WaitRelock PROVE ConnsTracked'
  BY <1>8 DEF WaitRelock
<1>9. ASSUME SpuriousWake PROVE ConnsTracked'
  BY <1>9 DEF SpuriousWake
<1>10. ASSUME ListenerLoop PROVE ConnsTracked'
  BY <1>10 DEF ListenerLoop
<1>11. ASSUME NEW c \in Clients, Accept(c) PROVE ConnsTracked'
  BY <1>11 DEF Accept
<1>12. ASSUME AcceptFails PROVE ConnsTracked'
  BY <1>12 DEF AcceptFails
<1>13. ASSUME ListenerLock PROVE ConnsTracked'
  BY <1>13 DEF ListenerLock
<1>14. ASSUME ListenerSpawn PROVE ConnsTracked'
  BY <1>14 DEF ListenerSpawn
<1>15. ASSUME ListenerAdd PROVE ConnsTracked'
  BY <1>15 DEF ListenerAdd
<1>16. ASSUME NEW c \in Clients, HandlerLoop(c) PROVE ConnsTracked'
  BY <1>16 DEF HandlerLoop, HandlerGoto
<1>17. ASSUME NEW c \in Clients, HandlerRecv(c) PROVE ConnsTracked'
  BY <1>17 DEF HandlerRecv, HandlerGoto
<1>18. ASSUME NEW c \in Clients, HandlerRecvFails(c) PROVE ConnsTracked'
  BY <1>18 DEF HandlerRecvFails, HandlerGoto
<1>19. ASSUME NEW c \in Clients, HandlerSend(c) PROVE ConnsTracked'
  BY <1>19 DEF HandlerSend, HandlerGoto
<1>20. ASSUME NEW c \in Clients, HandlerShutdown(c) PROVE ConnsTracked'
  BY <1>20 DEF HandlerShutdown, HandlerGoto, Shutdown
<1>21. ASSUME NEW c \in Clients, HandlerRemove(c) PROVE ConnsTracked'
  BY <1>21 DEF HandlerRemove, HandlerGoto, Destroy
<1>22. ASSUME NEW c \in Clients, Connect(c) PROVE ConnsTracked'
  BY <1>22 DEF Connect
<1>23. ASSUME NEW c \in Clients, Send(c) PROVE ConnsTracked'
  BY <1>23 DEF Send
<1>24. ASSUME NEW c \in Clients, Hangup(c) PROVE ConnsTracked'
  BY <1>24 DEF Hangup
<1>25. CASE UNCHANGED vars
  BY <1>25 DEF vars
<1> QED BY <1>1, <1>2, <1>3, <1>4, <1>5, <1>6, <1>7, <1>8, <1>9, <1>10, <1>11,
        <1>12, <1>13, <1>14, <1>15, <1>16, <1>17, <1>18, <1>19, <1>20, <1>21,
        <1>22, <1>23, <1>24, <1>25
    DEF Next, StopStep, ListenerStep, HandlerStep,
        ClientStep

\* Sockets are opened and shut down with the flags, and handlers leave none open.
LEMMA SocketsStep == MasterInv /\ [Next]_vars => SocketsMatch'
<1> SUFFICES ASSUME MasterInv, [Next]_vars PROVE SocketsMatch'
  OBVIOUS
<1> USE NoneAssumption
    DEF MasterInv, TypeOK, ListenerHolds, SocketsMatch, main,
        listener, conns, clients
<1>1. ASSUME StartFails PROVE SocketsMatch'
  BY <1>1 DEF StartFails
<1>2. ASSUME Start PROVE SocketsMatch'
  BY <1>2 DEF Start
<1>3. ASSUME StopFlag PROVE SocketsMatch'
  BY <1>3 DEF StopFlag
<1>4. ASSUME StopListener PROVE SocketsMatch'
  BY <1>4 DEF StopListener
<1>5. ASSUME JoinListener PROVE SocketsMatch'
  BY <1>5 DEF JoinListener
<1>6. ASSUME CloseConns PROVE SocketsMatch'
  BY <1>6 DEF CloseConns, Shutdown
<1>7. ASSUME WaitCheck PROVE SocketsMatch'
  BY <1>7 DEF WaitCheck
<1>8. ASSUME WaitRelock PROVE SocketsMatch'
  BY <1>8 DEF WaitRelock
<1>9. ASSUME SpuriousWake PROVE SocketsMatch'
  BY <1>9 DEF SpuriousWake
<1>10. ASSUME ListenerLoop PROVE SocketsMatch'
  BY <1>10 DEF ListenerLoop
<1>11. ASSUME NEW c \in Clients, Accept(c) PROVE SocketsMatch'
  BY <1>11 DEF Accept
<1>12. ASSUME AcceptFails PROVE SocketsMatch'
  BY <1>12 DEF AcceptFails
<1>13. ASSUME ListenerLock PROVE SocketsMatch'
  BY <1>13 DEF ListenerLock
<1>14. ASSUME ListenerSpawn PROVE SocketsMatch'
  BY <1>14 DEF ListenerSpawn
<1>15. ASSUME ListenerAdd PROVE SocketsMatch'
  BY <1>15 DEF ListenerAdd
<1>16. ASSUME NEW c \in Clients, HandlerLoop(c) PROVE SocketsMatch'
  BY <1>16 DEF HandlerLoop, HandlerGoto
<1>17. ASSUME NEW c \in Clients, HandlerRecv(c) PROVE SocketsMatch'
  BY <1>17 DEF HandlerRecv, HandlerGoto
<1>18. ASSUME NEW c \in Clients, HandlerRecvFails(c) PROVE SocketsMatch'
  BY <1>18 DEF HandlerRecvFails, HandlerGoto
<1>19. ASSUME NEW c \in Clients, HandlerSend(c) PROVE SocketsMatch'
  BY <1>19 DEF HandlerSend, HandlerGoto
<1>20. ASSUME NEW c \in Clients, HandlerShutdown(c) PROVE SocketsMatch'
  BY <1>20 DEF HandlerShutdown, HandlerGoto, Shutdown
<1>21. ASSUME NEW c \in Clients, HandlerRemove(c) PROVE SocketsMatch'
  BY <1>21 DEF HandlerRemove, HandlerGoto, Destroy
<1>22. ASSUME NEW c \in Clients, Connect(c) PROVE SocketsMatch'
  BY <1>22 DEF Connect
<1>23. ASSUME NEW c \in Clients, Send(c) PROVE SocketsMatch'
  BY <1>23 DEF Send
<1>24. ASSUME NEW c \in Clients, Hangup(c) PROVE SocketsMatch'
  BY <1>24 DEF Hangup
<1>25. CASE UNCHANGED vars
  BY <1>25 DEF vars
<1> QED BY <1>1, <1>2, <1>3, <1>4, <1>5, <1>6, <1>7, <1>8, <1>9, <1>10, <1>11,
        <1>12, <1>13, <1>14, <1>15, <1>16, <1>17, <1>18, <1>19, <1>20, <1>21,
        <1>22, <1>23, <1>24, <1>25
    DEF Next, StopStep, ListenerStep, HandlerStep,
        ClientStep

\* The listener has ended once it is joined, and nothing is added after that.
LEMMA JoinedStep == MasterInv /\ [Next]_vars => ListenerJoined'
<1> SUFFICES ASSUME MasterInv, [Next]_vars PROVE ListenerJoined'
  OBVIOUS
<1> USE NoneAssumption
    DEF MasterInv, TypeOK, MutexOwned, ListenerJoined, ListenerHolds,
        ConnsTracked,
        Ended, Stopping, main, listener, conns, clients
<1>1. ASSUME StartFails PROVE ListenerJoined'
  BY <1>1 DEF StartFails
<1>2. ASSUME Start PROVE ListenerJoined'
  BY <1>2 DEF Start
<1>3. ASSUME StopFlag PROVE ListenerJoined'
  BY <1>3 DEF StopFlag
<1>4. ASSUME StopListener PROVE ListenerJoined'
  BY <1>4 DEF StopListener
<1>5. ASSUME JoinListener PROVE ListenerJoined'
  BY <1>5 DEF JoinListener
<1>6. ASSUME CloseConns PROVE ListenerJoined'
  BY <1>6 DEF CloseConns, Shutdown
<1>7. ASSUME WaitCheck PROVE ListenerJoined'
  BY <1>7 DEF WaitCheck
<1>8. ASSUME WaitRelock PROVE ListenerJoined'
  BY <1>8 DEF WaitRelock
<1>9. ASSUME SpuriousWake PROVE ListenerJoined'
  BY <1>9 DEF SpuriousWake
<1>10. ASSUME ListenerLoop PROVE ListenerJoined'
  BY <1>10 DEF ListenerLoop
<1>11. ASSUME NEW c \in Clients, Accept(c) PROVE ListenerJoined'
  BY <1>11 DEF Accept
<1>12. ASSUME AcceptFails PROVE ListenerJoined'
  BY <1>12 DEF AcceptFails
<1>13. ASSUME ListenerLock PROVE ListenerJoined'
  BY <1>13 DEF ListenerLock
<1>14. ASSUME ListenerSpawn PROVE ListenerJoined'
  BY <1>14 DEF ListenerSpawn
<1>15. ASSUME ListenerAdd PROVE ListenerJoined'
  BY <1>15 DEF ListenerAdd
<1>16. ASSUME NEW c \in Clients, HandlerLoop(c) PROVE ListenerJoined'
  BY <1>16 DEF HandlerLoop, HandlerGoto
<1>17. ASSUME NEW c \in Clients, HandlerRecv(c) PROVE ListenerJoined'
  BY <1>17 DEF HandlerRecv, HandlerGoto
<1>18. ASSUME NEW c \in Clients, HandlerRecvFails(c) PROVE ListenerJoined'
  BY <1>18 DEF HandlerRecvFails, HandlerGoto
<1>19. ASSUME NEW c \in Clients, HandlerSend(c) PROVE ListenerJoined'
  BY <1>19 DEF HandlerSend, HandlerGoto
<1>20. ASSUME NEW c \in Clients, HandlerShutdown(c) PROVE ListenerJoined'
  BY <1>20 DEF HandlerShutdown, HandlerGoto, Shutdown
<1>21. ASSUME NEW c \in Clients, HandlerRemove(c) PROVE ListenerJoined'
  BY <1>21 DEF HandlerRemove, HandlerGoto, Destroy
<1>22. ASSUME NEW c \in Clients, Connect(c) PROVE ListenerJoined'
  BY <1>22 DEF Connect
<1>23. ASSUME NEW c \in Clients, Send(c) PROVE ListenerJoined'
  BY <1>23 DEF Send
<1>24. ASSUME NEW c \in Clients, Hangup(c) PROVE ListenerJoined'
  BY <1>24 DEF Hangup
<1>25. CASE UNCHANGED vars
  BY <1>25 DEF vars
<1> QED BY <1>1, <1>2, <1>3, <1>4, <1>5, <1>6, <1>7, <1>8, <1>9, <1>10, <1>11,
        <1>12, <1>13, <1>14, <1>15, <1>16, <1>17, <1>18, <1>19, <1>20, <1>21,
        <1>22, <1>23, <1>24, <1>25
    DEF Next, StopStep, ListenerStep, HandlerStep,
        ClientStep

\* The conjunction is inductive.
LEMMA MasterInvariance == Spec => []MasterInv
<1>1. MasterInv /\ [Next]_vars => MasterInv'
  BY MasterTypeStep, CountedStep, MutexStep, HoldsStep, TrackedStep, SocketsStep,
     JoinedStep DEF MasterInv
<1> QED BY MasterInit, <1>1, PTL DEF Spec

\* The variables of the shardmaster keep their types.
THEOREM TypeCorrect == Spec => []TypeOK
BY MasterInvariance, PTL DEF MasterInv

\* The handler's branch "Connection should not already be removed" is dead:
\* outside the listener's critical section every handler that has not ended is
\* in current_conns.
THEOREM RemovalTheorem == Spec => []RemovalFindsConnection
<1>1. MasterInv => RemovalFindsConnection
  BY DEF MasterInv, MutexOwned, ConnsTracked, Ended, RemovalFindsConnection
<1> QED BY <1>1, MasterInvariance, PTL

\* When stop() returns, the listener and all handlers have ended and no
\* connection is open, so the shardmaster can be destroyed.
THEOREM NoThreadOutlivesStopTheorem == Spec => []NoThreadOutlivesStop
<1>1. MasterInv => NoThreadOutlivesStop
  BY DEF MasterInv, TypeOK, ListenerJoined, Stopping, ConnsTracked, Ended,
         ListenerHolds, SocketsMatch, NoThreadOutlivesStop
<1> QED BY <1>1, MasterInvariance, PTL
=============================================================================
