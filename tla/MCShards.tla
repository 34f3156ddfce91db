------------------------------ MODULE MCShards ------------------------------
(* Three characters and two levels; shards moved in both cases and lengths.*)
EXTENDS Shards

Bounds(g) == [1..g -> 0..CHARS-1]
MCMoveTokens ==
    {<<a, b>> : a, b \in Bounds(1)} \cup {<<a, b>> : a, b \in Bounds(2)} \cup
    {<<<<3>>, <<4>>>>, <<<<0>>, <<1, 2>>>>, <<<<NUL>>, <<1>>>>,
     <<<<0, 0>>, <<3, 4>>, <<2>>, <<5>>>>}
=============================================================================
