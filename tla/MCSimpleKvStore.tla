-------------------------- MODULE MCSimpleKvStore --------------------------
(* Small instances of SimpleKvStore for TLC.                               *)
EXTENDS SimpleKvStore, TLC

CONSTANTS k1, k2, a, b

R(op, keys, vals) == [op |-> op, keys |-> keys, vals |-> vals]

\* Calls on two keys, in both orders, with a key named twice, with vectors of
\* different lengths and with none at all.
AllRequests ==
    { R("MultiPut", <<k1, k2>>, <<<<a>>, <<a>>>>),
      R("MultiPut", <<k2, k1, k2>>, <<<<b>>, <<b>>, <<a>>>>),
      R("MultiPut", <<k1, k2>>, <<<<a>>>>),
      R("MultiGet", <<k2, k1>>, <<>>),
      R("MultiGet", <<>>, <<>>),
      R("Get", <<k1>>, <<>>),
      R("Put", <<k1>>, <<<<a>>>>),
      R("Append", <<k1>>, <<<<b>>>>),
      R("Delete", <<k2>>, <<>>),
      R("AllKeys", <<>>, <<>>) }
=============================================================================
