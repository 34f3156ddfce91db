------------------------- MODULE ConcurrentKvStore -------------------------
(***************************************************************************)
(* kvstore/kvstore/concurrent_kvstore.{hpp,cpp}: a hash map whose buckets  *)
(* are each guarded by a std::shared_mutex, shared by any number of        *)
(* threads.                                                                *)
(*                                                                         *)
(* Get, Put, Append and Delete hold the lock of one bucket through a RAII  *)
(* guard. MultiGet and MultiPut lock all the buckets they need, in         *)
(* ascending order and without duplicates, access the keys one by one and  *)
(* unlock the buckets one by one, by hand. AllKeys locks one bucket at a   *)
(* time. Each lock, each access of a key and each unlock is a step.        *)
(*                                                                         *)
(* The list of a bucket is the restriction of store to the keys that hash  *)
(* to it: insertItem keeps its keys distinct and nothing depends on their  *)
(* order. A value is a sequence, see KvStore.                              *)
(***************************************************************************)
EXTENDS Naturals, Sequences

CONSTANTS
    Threads,        \* the threads that call the store
    None,           \* no thread, no request
    Keys,
    Vals,           \* the characters of values
    Absent,         \* the value of a key that is not in the store
    BucketCount,    \* BUCKET_COUNT
    BucketOf,       \* BucketOf[k]: DbMap::bucket(k), the hash modulo BucketCount
    Requests,       \* the calls that may be made
    MaxCalls        \* bound: the number of calls one thread makes

Buckets == 0..(BucketCount - 1)
Values == Seq(Vals)
Ops == {"Get", "Put", "Append", "Delete", "MultiGet", "MultiPut", "AllKeys"}
SingleOps == {"Get", "Put", "Append", "Delete"}

ASSUME NoneAssumption ==
    /\ None \notin Threads /\ None \notin Requests
    /\ None \notin [ok : BOOLEAN, vals : Seq(Values), keys : SUBSET Keys]
ASSUME AbsentAssumption == Absent \notin Values
ASSUME BucketAssumption ==
    BucketCount \in Nat \ {0} /\ BucketOf \in [Keys -> Buckets]
ASSUME MaxCallsAssumption == MaxCalls \in Nat
ASSUME RequestAssumption ==
    \A r \in Requests :
        /\ r \in [op : Ops, keys : Seq(Keys), vals : Seq(Values)]
        /\ r.op \in SingleOps => Len(r.keys) = 1
        /\ r.op \in {"Put", "Append"} => Len(r.vals) = 1

VARIABLES
    store,      \* store[k]: the value of k in its bucket's list
    writer,     \* writer[b]: the thread that holds bucket b's mutex exclusively
    readers,    \* readers[b]: the calls that hold it shared, as pairs <<t, calls[t]>>
    pc,         \* pc[t]: where t is
    req,        \* req[t]: the request of t
    held,       \* held[t]: the buckets this call of t has locked
    idx,        \* idx[t]: the loop counter: next key to access, next bucket to scan
    res,        \* res[t]: the response and return value so far
    calls,      \* calls[t]: the calls t may still make (bound)
    always,     \* always[t]: the keys present ever since t's AllKeys began (history)
    ever        \* ever[t]: the keys present at some time since then (history)

locks == <<writer, readers>>
impl == <<store, writer, readers, pc, req, held, idx, res, calls>>
vars == <<store, writer, readers, pc, req, held, idx, res, calls, always, ever>>

PCs == {"idle", "lock", "access", "unlock", "scan_lock", "scan", "done"}

NoRes == [ok |-> FALSE, vals |-> <<>>, keys |-> {}]
Present == {k \in Keys : store[k] # Absent}
Scanning(t) == req[t] # None /\ req[t].op = "AllKeys"

Init ==
    /\ store = [k \in Keys |-> Absent]
    /\ writer = [b \in Buckets |-> None]
    /\ readers = [b \in Buckets |-> {}]
    /\ pc = [t \in Threads |-> "idle"]
    /\ req = [t \in Threads |-> None]
    /\ held = [t \in Threads |-> {}]
    /\ idx = [t \in Threads |-> 0]
    /\ res = [t \in Threads |-> NoRes]
    /\ calls = [t \in Threads |-> MaxCalls]
    /\ always = [t \in Threads |-> {}]
    /\ ever = [t \in Threads |-> {}]

TypeOK ==
    /\ store \in [Keys -> Values \cup {Absent}]
    /\ writer \in [Buckets -> Threads \cup {None}]
    /\ readers \in [Buckets -> SUBSET (Threads \X (0..MaxCalls))]
    /\ pc \in [Threads -> PCs]
    /\ req \in [Threads -> Requests \cup {None}]
    /\ held \in [Threads -> SUBSET Buckets]
    /\ idx \in [Threads -> Nat]
    /\ res \in [Threads -> [ok : BOOLEAN, vals : Seq(Values), keys : SUBSET Keys]]
    /\ calls \in [Threads -> 0..MaxCalls]
    /\ always \in [Threads -> SUBSET Keys]
    /\ ever \in [Threads -> SUBSET Keys]

-----------------------------------------------------------------------------
(* Locks *)

\* Which calls take unique locks; the others take shared ones.
MutantAppendShares(r) == r.op \in {"Put", "Delete", "MultiPut"}

Exclusive(r) == r.op \in {"Put", "Append", "Delete", "MultiPut"}

\* The buckets of a request's keys.
Needed(r) == {BucketOf[r.keys[i]] : i \in DOMAIN r.keys}

\* Bucket b is the one a call locks next: std::sort and std::unique make the
\* loop visit the distinct buckets in ascending order.
MutantRequestOrder(t, b) ==
    \E i \in DOMAIN req[t].keys :
        /\ b = BucketOf[req[t].keys[i]]
        /\ b \notin held[t]
        /\ \A j \in 1..(i - 1) : BucketOf[req[t].keys[j]] \in held[t]

IsNextBucket(t, b) ==
    /\ b \in Needed(req[t]) \ held[t]
    /\ \A c \in Needed(req[t]) \ held[t] : b <= c

Token(t) == <<t, calls[t]>>

Lock(t, b) ==
    IF Exclusive(req[t])
    THEN /\ writer[b] = None
         /\ readers[b] = {}
         /\ writer' = [writer EXCEPT ![b] = t]
         /\ UNCHANGED readers
    ELSE /\ writer[b] = None
         /\ readers' = [readers EXCEPT ![b] = @ \cup {Token(t)}]
         /\ UNCHANGED writer

\* Release the buckets bs, which t holds in the mode its request asks for.
Unlock(t, bs) ==
    IF Exclusive(req[t])
    THEN /\ writer' = [b \in Buckets |-> IF b \in bs THEN None ELSE writer[b]]
         /\ UNCHANGED readers
    ELSE /\ readers' = [b \in Buckets |-> IF b \in bs THEN readers[b] \ {Token(t)}
                                          ELSE readers[b]]
         /\ UNCHANGED writer

Goto(t, where) == pc' = [pc EXCEPT ![t] = where]

-----------------------------------------------------------------------------
(* The calls *)

Invoke(t, r) ==
    /\ pc[t] = "idle"
    /\ calls[t] > 0
    /\ calls' = [calls EXCEPT ![t] = @ - 1]
    /\ req' = [req EXCEPT ![t] = r]
    /\ IF r.op = "AllKeys"
       THEN Goto(t, "scan_lock") /\ idx' = [idx EXCEPT ![t] = 0]
       ELSE Goto(t, "lock") /\ idx' = [idx EXCEPT ![t] = 1]
    /\ UNCHANGED <<store, locks, held, res>>

\* Before it locks anything, MultiPut rejects vectors of different lengths.
Mismatched(r) == r.op = "MultiPut" /\ Len(r.keys) # Len(r.vals)

MultiPutMismatch(t) ==
    /\ pc[t] = "lock"
    /\ Mismatched(req[t])
    /\ Goto(t, "done")
    /\ UNCHANGED <<store, locks, req, held, idx, res, calls>>

\* The guard of a single-key call, or one iteration of a lock loop.
LockNext(t) ==
    /\ pc[t] = "lock"
    /\ ~Mismatched(req[t])
    /\ \E b \in Buckets :
          /\ IsNextBucket(t, b)
          /\ Lock(t, b)
          /\ held' = [held EXCEPT ![t] = @ \cup {b}]
    /\ UNCHANGED <<store, pc, req, idx, res, calls>>

\* All the locks are held: the call turns to the keys.
MutantStartWithOneLock(t) ==
    /\ pc[t] = "lock"
    /\ ~Mismatched(req[t])
    /\ held[t] # {}
    /\ Goto(t, "access")
    /\ UNCHANGED <<store, locks, req, held, idx, res, calls>>

StartAccess(t) ==
    /\ pc[t] = "lock"
    /\ ~Mismatched(req[t])
    /\ Needed(req[t]) \subseteq held[t]
    /\ Goto(t, "access")
    /\ UNCHANGED <<store, locks, req, held, idx, res, calls>>

\* The end of a single-key call: the guard releases the lock.
FinishSingle(t, ok, values) ==
    /\ res' = [res EXCEPT ![t].ok = ok, ![t].vals = values]
    /\ Unlock(t, held[t])
    /\ held' = [held EXCEPT ![t] = {}]
    /\ Goto(t, "done")
    /\ UNCHANGED <<req, idx, calls>>

Accessing(t, op) == pc[t] = "access" /\ req[t].op = op

Key(t) == req[t].keys[idx[t]]
Val(t) == req[t].vals[idx[t]]

Get(t) ==
    /\ Accessing(t, "Get")
    /\ IF store[Key(t)] # Absent
       THEN FinishSingle(t, TRUE, <<store[Key(t)]>>)
       ELSE FinishSingle(t, FALSE, <<>>)
    /\ UNCHANGED store

Put(t) ==
    /\ Accessing(t, "Put")
    /\ store' = [store EXCEPT ![Key(t)] = Val(t)]
    /\ FinishSingle(t, TRUE, <<>>)

DoAppend(t) ==
    /\ Accessing(t, "Append")
    /\ store' = [store EXCEPT ![Key(t)] = IF @ = Absent THEN Val(t) ELSE @ \o Val(t)]
    /\ FinishSingle(t, TRUE, <<>>)

Delete(t) ==
    /\ Accessing(t, "Delete")
    /\ store' = [store EXCEPT ![Key(t)] = Absent]
    /\ IF store[Key(t)] # Absent
       THEN FinishSingle(t, TRUE, <<store[Key(t)]>>)
       ELSE FinishSingle(t, FALSE, <<>>)

\* One iteration of MultiGet's read loop. On a missing key it returns false
\* where it stands, with every bucket still locked: no action ever removes
\* the call from readers.
MultiGetRead(t) ==
    /\ Accessing(t, "MultiGet")
    /\ idx[t] <= Len(req[t].keys)
    /\ IF store[Key(t)] = Absent
       THEN /\ Goto(t, "done")
            /\ UNCHANGED <<idx, res>>
       ELSE /\ res' = [res EXCEPT ![t].vals = Append(@, store[Key(t)])]
            /\ idx' = [idx EXCEPT ![t] = @ + 1]
            /\ UNCHANGED pc
    /\ UNCHANGED <<store, locks, req, held, calls>>

\* One iteration of MultiPut's insert loop.
MultiPutWrite(t) ==
    /\ Accessing(t, "MultiPut")
    /\ idx[t] <= Len(req[t].keys)
    /\ store' = [store EXCEPT ![Key(t)] = Val(t)]
    /\ idx' = [idx EXCEPT ![t] = @ + 1]
    /\ UNCHANGED <<locks, pc, req, held, res, calls>>

\* The loop over the keys is over; the call will return true.
EndAccess(t) ==
    /\ Accessing(t, "MultiGet") \/ Accessing(t, "MultiPut")
    /\ idx[t] > Len(req[t].keys)
    /\ res' = [res EXCEPT ![t].ok = TRUE]
    /\ Goto(t, "unlock")
    /\ UNCHANGED <<store, locks, req, held, idx, calls>>

\* One iteration of the unlock loop, in ascending order too.
UnlockNext(t) ==
    /\ pc[t] = "unlock"
    /\ \E b \in held[t] :
          /\ \A c \in held[t] : b <= c
          /\ Unlock(t, {b})
          /\ held' = [held EXCEPT ![t] = @ \ {b}]
    /\ UNCHANGED <<store, pc, req, idx, res, calls>>

EndUnlock(t) ==
    /\ pc[t] = "unlock"
    /\ held[t] = {}
    /\ Goto(t, "done")
    /\ UNCHANGED <<store, locks, req, held, idx, res, calls>>

\* AllKeys: lock bucket idx, then collect its keys and unlock it.
ScanLock(t) ==
    /\ pc[t] = "scan_lock"
    /\ idx[t] < BucketCount
    /\ Lock(t, idx[t])
    /\ held' = [held EXCEPT ![t] = {idx[t]}]
    /\ Goto(t, "scan")
    /\ UNCHANGED <<store, req, idx, res, calls>>

ScanBucket(t) ==
    /\ pc[t] = "scan"
    /\ res' = [res EXCEPT ![t].keys =
                   @ \cup {k \in Present : BucketOf[k] = idx[t]}]
    /\ Unlock(t, held[t])
    /\ held' = [held EXCEPT ![t] = {}]
    /\ idx' = [idx EXCEPT ![t] = @ + 1]
    /\ Goto(t, "scan_lock")
    /\ UNCHANGED <<store, req, calls>>

MutantScanEndsEarly(t) ==
    /\ pc[t] = "scan_lock"
    /\ idx[t] = BucketCount - 1
    /\ Goto(t, "done")
    /\ UNCHANGED <<store, locks, req, held, idx, res, calls>>

ScanEnd(t) ==
    /\ pc[t] = "scan_lock"
    /\ idx[t] = BucketCount
    /\ Goto(t, "done")
    /\ UNCHANGED <<store, locks, req, held, idx, res, calls>>

\* The call returns and its local variables, bucket_nums included, are gone.
Return(t) ==
    /\ pc[t] = "done"
    /\ Goto(t, "idle")
    /\ req' = [req EXCEPT ![t] = None]
    /\ held' = [held EXCEPT ![t] = {}]
    /\ idx' = [idx EXCEPT ![t] = 0]
    /\ res' = [res EXCEPT ![t] = NoRes]
    /\ UNCHANGED <<store, locks, calls>>

-----------------------------------------------------------------------------
\* What the history variables of a scan in progress record.
Track ==
    /\ always' = [t \in Threads |->
          IF ~Scanning(t)' THEN {}
          ELSE (IF Scanning(t) THEN always[t] ELSE Present) \cap Present']
    /\ ever' = [t \in Threads |->
          IF ~Scanning(t)' THEN {}
          ELSE (IF Scanning(t) THEN ever[t] ELSE Present) \cup Present']

\* The steps of a call in progress.
Act(t) ==
    \/ MultiPutMismatch(t) \/ LockNext(t) \/ StartAccess(t)
    \/ Get(t) \/ Put(t) \/ DoAppend(t) \/ Delete(t)
    \/ MultiGetRead(t) \/ MultiPutWrite(t) \/ EndAccess(t)
    \/ UnlockNext(t) \/ EndUnlock(t)
    \/ ScanLock(t) \/ ScanBucket(t) \/ ScanEnd(t)
    \/ Return(t)

Step(t) == Act(t) /\ Track

Begin(t) == (\E r \in Requests : Invoke(t, r)) /\ Track

Next == \E t \in Threads : Begin(t) \/ Step(t)

Spec == Init /\ [][Next]_vars

(* The scheduler runs every thread that can run. A thread makes at most    *)
(* MaxCalls calls, so no stream of readers can keep a writer out for good, *)
(* which std::shared_mutex would allow.                                    *)
FairSpec == Spec /\ \A t \in Threads : WF_vars(Step(t))

-----------------------------------------------------------------------------
(* Properties *)

\* The calls that change the list of a bucket, whichever lock they take.
Writes(r) == r.op \in {"Put", "Append", "Delete", "MultiPut"}

\* The buckets whose lists t is reading or writing.
Touches(t) ==
    CASE pc[t] = "access" -> Needed(req[t])
      [] pc[t] = "scan" -> {idx[t]}
      [] OTHER -> {}

\* While a call writes to the list of a bucket, no other call reads or writes
\* it: the locks that the calls take cover every bucket they touch, also in
\* MultiPut, which writes several.
NoDataRace ==
    \A t, u \in Threads :
        (t # u /\ pc[t] = "access" /\ Writes(req[t]))
            => Touches(t) \cap Touches(u) = {}

\* AllKeys is not atomic, but it returns every key that was present all the
\* time it ran, and none that was at no time present.
AllKeysSound ==
    \A t \in Threads :
        (pc[t] = "done" /\ Scanning(t))
            => always[t] \subseteq res[t].keys /\ res[t].keys \subseteq ever[t]

\* Some bucket is held shared by a call that has returned.
Leaked ==
    \E b \in Buckets : \E c \in readers[b] :
        ~(calls[c[1]] = c[2] /\ pc[c[1]] # "idle")

\* What is left of t's request, as a request.
Rest(t) ==
    [op |-> req[t].op,
     keys |-> SubSeq(req[t].keys, idx[t], Len(req[t].keys)),
     vals |-> SubSeq(req[t].vals, idx[t], Len(req[t].vals))]

Semantics == INSTANCE KvStore WITH
    kv <- store, call <- req, reply <- res

\* The store as its callers must see it: a call has its whole effect from the
\* moment it holds all its locks, although it writes the keys one by one.
AbstractStore ==
    [k \in Keys |->
        IF \E t \in Threads : /\ pc[t] = "access"
                              /\ Writes(req[t])
                              /\ BucketOf[k] \in held[t]
        THEN LET t == CHOOSE u \in Threads : /\ pc[u] = "access"
                                             /\ Writes(req[u])
                                             /\ BucketOf[k] \in held[u]
             IN  Semantics!Effect(store, Rest(t))[k]
        ELSE store[k]]

AbstractCall ==
    [t \in Threads |-> IF Scanning(t) THEN None ELSE req[t]]

\* What t's call is bound to return: known once it holds all its locks.
AbstractReply ==
    [t \in Threads |->
        IF Scanning(t) \/ pc[t] \in {"idle", "lock"} THEN None
        ELSE IF pc[t] = "access"
        THEN LET rest == Semantics!Reply(store, Rest(t))
             IN  [ok |-> rest.ok,
                  vals |-> IF rest.ok THEN res[t].vals \o rest.vals ELSE <<>>,
                  keys |-> {}]
        ELSE [ok |-> res[t].ok,
              vals |-> IF res[t].ok THEN res[t].vals ELSE <<>>,
              keys |-> {}]]

Abstract == INSTANCE KvStore WITH
    kv <- AbstractStore, call <- AbstractCall, reply <- AbstractReply

\* Every call but AllKeys is atomic: each takes effect at one instant between
\* its invocation and its return, MultiPut and MultiGet over all their keys at
\* once, and returns what the store held at that instant.
ImplementsKvStore == Abstract!Spec

\* Every call returns, unless some MultiGet has already failed on a missing
\* key: sorting the buckets excludes a cycle of calls that wait for each other.
CallsReturn ==
    \A t \in Threads : (pc[t] # "idle") ~> (pc[t] = "idle" \/ Leaked)
=============================================================================
