--------------------------- MODULE MCShardKvClient ---------------------------
(* Two servers, three keys; a configuration in which the servers split the *)
(* keys, one in which a shard has moved, and one that lacks a shard.       *)
EXTENDS ShardKvClient

MCShardOf == [k \in Keys |-> IF k = "a" THEN "A" ELSE "B"]
S(s, shards) == [server |-> s, shards |-> shards]
MCConfigs == {<<S(2, {"A"}), S(1, {"B"})>>, <<S(1, {"A"}), S(2, {"A", "B"})>>, <<S(1, {"A"})>>}
MCLines ==
    {<<"append", "a", "a">>, <<"put", "b", "b", "b">>, <<"delete", "a">>, <<"get", "b">>,
     <<"multiget", "b", "a", "b">>, <<"multiput", "a", "a", "b", "b", "c", "c">>,
     <<"multiput", "a", "a", "b">>, <<"get">>, <<"a", "b">>, <<>>}

\* AnswersAligned is about such users.
ASSUME UsersNameKeys == SelfNamed
=============================================================================
