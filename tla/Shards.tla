------------------------------- MODULE Shards -------------------------------
(***************************************************************************)
(* The arithmetic of shards (common/shard.cpp, shard.hpp): ranges of keys  *)
(* with inclusive string bounds, computed through bucket numbers, and the  *)
(* operations a shardmaster divides the key space with.  The sharded       *)
(* shardmaster itself is not in the repository: the machine below makes    *)
(* the calls that shard.hpp offers it, in any order.                       *)
(*                                                                         *)
(* A string is a sequence of characters.  0 .. CHARS-1 are VALID_CHARS in  *)
(* order, c + CHARS is the lower-case form of c, and NUL is the byte that  *)
(* ends the literal.  A string is ordered as std::string orders it.        *)
(***************************************************************************)
EXTENDS Integers, Sequences, FiniteSets

CONSTANTS CHARS,            \* VALID_CHARS.size()
          MAX_GRANULARITY,
          MaxServers,       \* bound on split_into
          MaxShards,        \* bound on the shards splitting makes
          MoveTokens        \* the bounds a user may type after move <address>

\* GRANULARITY_OPTS[g]: the number of strings of g characters.
GRANULARITY_OPTS[g \in 0..MAX_GRANULARITY] ==
    IF g = 0 THEN 1 ELSE CHARS * GRANULARITY_OPTS[g - 1]

ASSUME ShardConstants ==
    /\ CHARS \in Nat \ {0} /\ MAX_GRANULARITY \in Nat \ {0} /\ MaxShards \in Nat
    /\ MaxServers \in 1..GRANULARITY_OPTS[MAX_GRANULARITY]
    /\ MoveTokens \subseteq Seq(Seq(Int))

VARIABLES shards,   \* the shards of the key space, sorted
          request   \* the shards of the last move command

shardsVars == <<shards, request>>

NUL == -1

-----------------------------------------------------------------------------
(* Strings (utils.cpp, std::string).                                       *)

toupper(c)  == IF c >= CHARS THEN c - CHARS ELSE c
to_upper(s) == [i \in DOMAIN s |-> toupper(s[i])]
is_valid(s) == \A i \in DOMAIN s : toupper(s[i]) \in 0..CHARS-1

Less(s, t) ==
    \E i \in 1..Len(t) :
        /\ i <= Len(s) + 1
        /\ \A j \in 1..i-1 : s[j] = t[j]
        /\ i = Len(s) + 1 \/ s[i] < t[i]

Leq(s, t) == s = t \/ Less(s, t)

-----------------------------------------------------------------------------
(* Buckets.                                                                *)

\* The i-th character is the quotient by the i-th power of what the
\* characters before it leave over.
bucket_to_str(bucket, g) ==
    [i \in 1..g |->
        LET left  == IF i = 1 THEN bucket ELSE bucket % GRANULARITY_OPTS[g - i + 1]
            index == left \div GRANULARITY_OPTS[g - i]
        IN IF index < CHARS THEN index ELSE NUL]

str_to_bucket(s) ==
    LET sum[i \in 0..Len(s)] ==
            IF i = 0 THEN 0
            ELSE sum[i - 1] + toupper(s[i]) * GRANULARITY_OPTS[Len(s) - i]
    IN sum[Len(s)]

-----------------------------------------------------------------------------
(* Shards.                                                                 *)

Shard(lower, upper) == [lower |-> lower, upper |-> upper]
granularity(sh) == Len(sh.lower)

Prefix(s, g) == SubSeq(s, 1, IF g < Len(s) THEN g ELSE Len(s))

contains(sh, s) ==
    /\ Leq(sh.lower, Prefix(s, granularity(sh)))
    /\ Leq(Prefix(s, granularity(sh)), sh.upper)

\* Mutant: the remainder is dropped.
MutantSplitInto(n) ==
    LET g == CHOOSE i \in 1..MAX_GRANULARITY :
                n <= GRANULARITY_OPTS[i] /\ \A j \in 1..i-1 : n > GRANULARITY_OPTS[j]
        size == GRANULARITY_OPTS[g] \div n
    IN [i \in 1..n |-> Shard(bucket_to_str((i - 1) * size, g), bucket_to_str(i * size - 1, g))]

\* The lowest granularity with n buckets; the first shards get the remainder.
split_into(n) ==
    LET g == CHOOSE i \in 1..MAX_GRANULARITY :
                n <= GRANULARITY_OPTS[i] /\ \A j \in 1..i-1 : n > GRANULARITY_OPTS[j]
        size == GRANULARITY_OPTS[g] \div n
        rest == GRANULARITY_OPTS[g] % n
        lower(i) == (i - 1) * size + (IF i - 1 < rest THEN i - 1 ELSE rest)
    IN [i \in 1..n |-> Shard(bucket_to_str(lower(i), g), bucket_to_str(lower(i + 1) - 1, g))]

\* The lower bounds differ: the k-th shard is the one with k - 1 in front of it.
sort_shards(s) ==
    [k \in DOMAIN s |->
        LET at == CHOOSE i \in DOMAIN s :
                     Cardinality({j \in DOMAIN s : Less(s[j].lower, s[i].lower)}) = k - 1
        IN s[at]]

Halves(sh, lower_upper, upper_lower) ==
    <<Shard(sh.lower, bucket_to_str(lower_upper, granularity(sh))),
      Shard(bucket_to_str(upper_lower, granularity(sh)), sh.upper)>>

split_shard(sh) ==
    LET lower == str_to_bucket(sh.lower)
        mid   == lower + (str_to_bucket(sh.upper) - lower) \div 2
    IN Halves(sh, mid, mid + 1)

split_shard_at_bucket(sh, at) == Halves(sh, at, at + 1)

split_shard_at_key(sh, at, first) ==
    LET pos == str_to_bucket(at)
    IN Halves(sh, pos - (IF first THEN 0 ELSE 1), pos + (IF first THEN 1 ELSE 0))

\* Mutant: the case of equal upper bounds goes to OVERLAP_START.
MutantOverlap(a, b) ==
    CASE Less(a.upper, b.lower) \/ Less(b.upper, a.lower)    -> "NO_OVERLAP"
      [] Less(b.lower, a.lower) /\ Less(a.upper, b.upper)    -> "COMPLETELY_CONTAINED"
      [] Less(a.lower, b.lower) /\ Less(b.upper, a.upper)    -> "COMPLETELY_CONTAINS"
      [] Leq(b.lower, a.lower) /\ Leq(b.upper, a.upper)      -> "OVERLAP_START"
      [] OTHER                                               -> "OVERLAP_END"

\* The cases of get_overlap exclude one another, in the order of the code.
get_overlap(a, b) ==
    IF Less(a.upper, b.lower) \/ Less(b.upper, a.lower) THEN "NO_OVERLAP"
    ELSE IF Leq(b.lower, a.lower) /\ Leq(a.upper, b.upper) THEN "COMPLETELY_CONTAINED"
    ELSE IF Less(a.lower, b.lower) /\ Less(b.upper, a.upper) THEN "COMPLETELY_CONTAINS"
    ELSE IF Leq(b.lower, a.lower) /\ Less(b.upper, a.upper) THEN "OVERLAP_START"
    ELSE IF Less(a.lower, b.lower) /\ Leq(a.upper, b.upper) THEN "OVERLAP_END"
    ELSE "throw"

-----------------------------------------------------------------------------
(* A shardmaster that divides the key space, and a user who moves shards.  *)

ShardsInit == (\E n \in 1..MaxServers : shards = split_into(n)) /\ request = <<>>

\* Shard i is replaced by two halves.
Replace(i, halves) ==
    /\ Len(shards) < MaxShards
    /\ shards' = sort_shards([shards EXCEPT ![i] = halves[1]] \o <<halves[2]>>)
    /\ UNCHANGED request

SplitMiddle ==
    \E i \in DOMAIN shards :
        /\ shards[i].lower # shards[i].upper
        /\ Replace(i, split_shard(shards[i]))

\* The caller's bucket is in the shard and not its last.
SplitAtBucket ==
    \E i \in DOMAIN shards :
        LET lower == str_to_bucket(shards[i].lower)
            upper == str_to_bucket(shards[i].upper)
        IN /\ lower < upper
           /\ \E at \in lower..upper-1 : Replace(i, split_shard_at_bucket(shards[i], at))

\* The caller's key is in the shard, of its granularity and case, and leaves
\* a bucket to either half: the asserts check the first of these only.
SplitAtKey ==
    \E i \in DOMAIN shards, first \in BOOLEAN :
        \E b \in str_to_bucket(shards[i].lower)..str_to_bucket(shards[i].upper) :
            LET at == bucket_to_str(b, granularity(shards[i]))
            IN /\ shards[i].lower # shards[i].upper
               /\ Leq(shards[i].lower, at) /\ Leq(at, shards[i].upper)
               /\ at # (IF first THEN shards[i].upper ELSE shards[i].lower)
               /\ Replace(i, split_shard_at_key(shards[i], at, first))

\* MoveCommand::handle, of a line with whole pairs of bounds: a line with a
\* bad bound is refused, of the others the upper case is sent.
MoveCommand ==
    \E tokens \in MoveTokens :
        /\ Len(tokens) >= 2 /\ Len(tokens) % 2 = 0
        /\ \A i \in DOMAIN tokens : is_valid(tokens[i])
        /\ \A i \in 1..Len(tokens) \div 2 : Len(tokens[2 * i - 1]) = Len(tokens[2 * i])
        /\ request' = [i \in 1..Len(tokens) \div 2 |->
                          Shard(to_upper(tokens[2 * i - 1]), to_upper(tokens[2 * i]))]
        /\ UNCHANGED shards

ShardsNext == SplitMiddle \/ SplitAtBucket \/ SplitAtKey \/ MoveCommand

ShardsSpec == ShardsInit /\ [][ShardsNext]_shardsVars

-----------------------------------------------------------------------------
(* Properties.                                                             *)

Strings(n) == UNION {[1..m -> 0..2 * CHARS - 1] : m \in 0..n}
Keys == Strings(MAX_GRANULARITY + 1)
Holders(key) == {i \in DOMAIN shards : contains(shards[i], to_upper(key))}

\* The bounds of the shards are valid strings of one granularity.
ShardsTypeOK ==
    /\ \A i \in DOMAIN shards :
          /\ shards[i].lower \in [1..granularity(shards[1]) -> 0..CHARS-1]
          /\ shards[i].upper \in [1..granularity(shards[1]) -> 0..CHARS-1]
    /\ \A i \in DOMAIN request : is_valid(request[i].lower) /\ is_valid(request[i].upper)

\* However the key space has been divided and split again, a key in either
\* case, as long as the granularity or longer, is in exactly one shard; the
\* string order of the bounds and the numeric order of the buckets agree.
\* A shorter key is in at most one: it may sort into the gap before the bound
\* it is a prefix of, and then no server is responsible for it.
OneShardPerKey ==
    \A key \in Keys :
        /\ Cardinality(Holders(key)) <= 1
        /\ Len(key) >= granularity(shards[1]) => Holders(key) # {}

KeysIn(sh) == {key \in Keys : contains(sh, to_upper(key))}

\* The overlap that the sets of keys of two shards show.
OverlapOfSets(a, b) ==
    IF KeysIn(a) \cap KeysIn(b) = {} THEN "NO_OVERLAP"
    ELSE IF KeysIn(a) \subseteq KeysIn(b) THEN "COMPLETELY_CONTAINED"
    ELSE IF KeysIn(b) \subseteq KeysIn(a) /\ a.lower # b.lower /\ a.upper # b.upper
         THEN "COMPLETELY_CONTAINS"
    ELSE IF Leq(b.lower, a.lower) THEN "OVERLAP_START" ELSE "OVERLAP_END"

\* Between a moved shard and a shard of the same granularity get_overlap says
\* what their sets of keys say, and no case is left for its exception.
OverlapAgrees ==
    \A i \in DOMAIN request, j \in DOMAIN shards :
        (/\ granularity(request[i]) = granularity(shards[j])
         /\ Leq(request[i].lower, request[i].upper))
        => /\ get_overlap(request[i], shards[j]) = OverlapOfSets(request[i], shards[j])
           /\ get_overlap(shards[j], request[i]) = OverlapOfSets(shards[j], request[i])
=============================================================================
