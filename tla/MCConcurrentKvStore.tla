------------------------ MODULE MCConcurrentKvStore ------------------------
(* Small instances of ConcurrentKvStore for TLC.                           *)
EXTENDS ConcurrentKvStore, TLC

CONSTANTS k1, k2, k3, a, b

R(op, keys, vals) == [op |-> op, keys |-> keys, vals |-> vals]

\* k1 and k3 share a bucket.
MCBucketOf == (k1 :> 0 @@ k2 :> 1 @@ k3 :> 0)

\* Calls on two buckets, named in both orders, with a bucket and a key named
\* twice and with vectors of different lengths.
MultiRequests ==
    { R("MultiPut", <<k1, k2>>, <<<<a>>, <<a>>>>),
      R("MultiPut", <<k2, k3, k1>>, <<<<b>>, <<b>>, <<b>>>>),
      R("MultiPut", <<k1, k2>>, <<<<a>>>>),
      R("MultiGet", <<k2, k1, k2>>, <<>>) }

SingleRequests ==
    { R("Get", <<k1>>, <<>>),
      R("Put", <<k1>>, <<<<a>>>>),
      R("Append", <<k1>>, <<<<b>>>>),
      R("Delete", <<k2>>, <<>>) }

AllKeysRequest == R("AllKeys", <<>>, <<>>)

AllRequests == MultiRequests \cup SingleRequests \cup {AllKeysRequest}
=============================================================================
