--------------------------- MODULE SimpleKvStore ---------------------------
(***************************************************************************)
(* kvstore/kvstore/simple_kvstore.{hpp,cpp}: the store KvServer::start     *)
(* creates, a std::map guarded by one mutex that every operation locks     *)
(* first and unlocks, by hand, on each of its ways out.                    *)
(*                                                                         *)
(* The body of a single-key operation or of AllKeys is one step, with its  *)
(* unlock. MultiGet and MultiPut are one step per key. A value is a        *)
(* sequence, see KvStore.                                                  *)
(***************************************************************************)
EXTENDS Naturals, Sequences

CONSTANTS
    Threads,    \* the threads that call the store
    None,       \* no thread, no request
    Keys,
    Vals,       \* the characters of values
    Absent,     \* the value of a key that is not in the map
    Requests,   \* the calls that may be made
    MaxCalls    \* bound: the number of calls one thread makes

Values == Seq(Vals)
SingleOps == {"Get", "Put", "Append", "Delete"}
Ops == SingleOps \cup {"MultiGet", "MultiPut", "AllKeys"}

ASSUME NoneAssumption ==
    /\ None \notin Threads /\ None \notin Requests
    /\ None \notin [ok : BOOLEAN, vals : Seq(Values), keys : SUBSET Keys]
ASSUME AbsentAssumption == Absent \notin Values
ASSUME MaxCallsAssumption == MaxCalls \in Nat
ASSUME RequestAssumption ==
    \A r \in Requests :
        /\ r \in [op : Ops, keys : Seq(Keys), vals : Seq(Values)]
        /\ r.op \in SingleOps => Len(r.keys) = 1
        /\ r.op \in {"Put", "Append"} => Len(r.vals) = 1

VARIABLES
    KeyValueMap,    \* KeyValueMap[k]: the value of k
    mutex_1,        \* the owner of the mutex
    pc,             \* pc[t]: where t is; "access" is holding the mutex
    req,            \* req[t]: the request of t
    idx,            \* idx[t]: the loop counter of MultiGet and MultiPut
    res,            \* res[t]: the response and return value so far
    calls           \* calls[t]: the calls t may still make (bound)

vars == <<KeyValueMap, mutex_1, pc, req, idx, res, calls>>

NoRes == [ok |-> TRUE, vals |-> <<>>, keys |-> {}]
Present == {k \in Keys : KeyValueMap[k] # Absent}

Init ==
    /\ KeyValueMap = [k \in Keys |-> Absent]
    /\ mutex_1 = None
    /\ pc = [t \in Threads |-> "idle"]
    /\ req = [t \in Threads |-> None]
    /\ idx = [t \in Threads |-> 1]
    /\ res = [t \in Threads |-> NoRes]
    /\ calls = [t \in Threads |-> MaxCalls]

TypeOK ==
    /\ KeyValueMap \in [Keys -> Values \cup {Absent}]
    /\ mutex_1 \in Threads \cup {None}
    /\ pc \in [Threads -> {"idle", "lock", "access", "done"}]
    /\ req \in [Threads -> Requests \cup {None}]
    /\ idx \in [Threads -> Nat \ {0}]
    /\ res \in [Threads -> [ok : BOOLEAN, vals : Seq(Values), keys : SUBSET Keys]]
    /\ calls \in [Threads -> 0..MaxCalls]

-----------------------------------------------------------------------------
Goto(t, where) == pc' = [pc EXCEPT ![t] = where]

Invoke(t, r) ==
    /\ pc[t] = "idle"
    /\ calls[t] > 0
    /\ calls' = [calls EXCEPT ![t] = @ - 1]
    /\ req' = [req EXCEPT ![t] = r]
    /\ Goto(t, "lock")
    /\ UNCHANGED <<KeyValueMap, mutex_1, idx, res>>

\* Every operation begins with mutex_1.lock().
Lock(t) ==
    /\ pc[t] = "lock"
    /\ mutex_1 = None
    /\ mutex_1' = t
    /\ Goto(t, "access")
    /\ UNCHANGED <<KeyValueMap, req, idx, res, calls>>

\* The way out of an operation: mutex_1.unlock() and return.
Finish(t, result) ==
    /\ res' = [res EXCEPT ![t] = result]
    /\ mutex_1' = None
    /\ Goto(t, "done")
    /\ UNCHANGED <<req, idx, calls>>

Accessing(t, op) == pc[t] = "access" /\ req[t].op = op
Key(t) == req[t].keys[idx[t]]
Val(t) == req[t].vals[idx[t]]
Found(t) == KeyValueMap[Key(t)] # Absent

\* What a call that looks up Key(t) returns.
Lookup(t) ==
    [res[t] EXCEPT !.ok = Found(t),
                   !.vals = IF Found(t) THEN <<KeyValueMap[Key(t)]>> ELSE <<>>]

Get(t) ==
    /\ Accessing(t, "Get")
    /\ Finish(t, Lookup(t))
    /\ UNCHANGED KeyValueMap

Put(t) ==
    /\ Accessing(t, "Put")
    /\ KeyValueMap' = [KeyValueMap EXCEPT ![Key(t)] = Val(t)]
    /\ Finish(t, res[t])

DoAppend(t) ==
    /\ Accessing(t, "Append")
    /\ KeyValueMap' = [KeyValueMap EXCEPT ![Key(t)] =
                           IF Found(t) THEN @ \o Val(t) ELSE Val(t)]
    /\ Finish(t, res[t])

Delete(t) ==
    /\ Accessing(t, "Delete")
    /\ KeyValueMap' = [KeyValueMap EXCEPT ![Key(t)] = Absent]
    /\ Finish(t, Lookup(t))

\* One iteration of MultiGet's loop, which goes on past a missing key.
MultiGetRead(t) ==
    /\ Accessing(t, "MultiGet")
    /\ idx[t] <= Len(req[t].keys)
    /\ res' = IF Found(t)
              THEN [res EXCEPT ![t].vals = Append(res[t].vals, KeyValueMap[Key(t)])]
              ELSE [res EXCEPT ![t].ok = FALSE]
    /\ idx' = [idx EXCEPT ![t] = @ + 1]
    /\ UNCHANGED <<KeyValueMap, mutex_1, pc, req, calls>>

\* The loop is over: both branches unlock.
MutantMultiGetKeepsMutex(t) ==
    /\ Accessing(t, "MultiGet")
    /\ idx[t] > Len(req[t].keys)
    /\ mutex_1' = IF res[t].ok THEN None ELSE mutex_1
    /\ Goto(t, "done")
    /\ UNCHANGED <<KeyValueMap, req, idx, res, calls>>

MultiGetEnd(t) ==
    /\ Accessing(t, "MultiGet")
    /\ idx[t] > Len(req[t].keys)
    /\ Finish(t, res[t])
    /\ UNCHANGED KeyValueMap

\* MultiPut rejects vectors of different lengths, with the mutex held.
Mismatched(t) == Len(req[t].keys) # Len(req[t].vals)

MultiPutMismatch(t) ==
    /\ Accessing(t, "MultiPut")
    /\ Mismatched(t)
    /\ Finish(t, [res[t] EXCEPT !.ok = FALSE])
    /\ UNCHANGED KeyValueMap

\* One iteration of MultiPut's loop.
MutantMultiPutYields(t) ==
    /\ Accessing(t, "MultiPut")
    /\ ~Mismatched(t)
    /\ idx[t] <= Len(req[t].keys)
    /\ KeyValueMap' = [KeyValueMap EXCEPT ![Key(t)] = Val(t)]
    /\ idx' = [idx EXCEPT ![t] = @ + 1]
    /\ mutex_1' = None
    /\ Goto(t, "lock")
    /\ UNCHANGED <<req, res, calls>>

MultiPutWrite(t) ==
    /\ Accessing(t, "MultiPut")
    /\ ~Mismatched(t)
    /\ idx[t] <= Len(req[t].keys)
    /\ KeyValueMap' = [KeyValueMap EXCEPT ![Key(t)] = Val(t)]
    /\ idx' = [idx EXCEPT ![t] = @ + 1]
    /\ UNCHANGED <<mutex_1, pc, req, res, calls>>

MultiPutEnd(t) ==
    /\ Accessing(t, "MultiPut")
    /\ ~Mismatched(t)
    /\ idx[t] > Len(req[t].keys)
    /\ Finish(t, res[t])
    /\ UNCHANGED KeyValueMap

AllKeys(t) ==
    /\ Accessing(t, "AllKeys")
    /\ Finish(t, [res[t] EXCEPT !.keys = Present])
    /\ UNCHANGED KeyValueMap

Return(t) ==
    /\ pc[t] = "done"
    /\ Goto(t, "idle")
    /\ req' = [req EXCEPT ![t] = None]
    /\ idx' = [idx EXCEPT ![t] = 1]
    /\ res' = [res EXCEPT ![t] = NoRes]
    /\ UNCHANGED <<KeyValueMap, mutex_1, calls>>

-----------------------------------------------------------------------------
Step(t) ==
    \/ Lock(t)
    \/ Get(t) \/ Put(t) \/ DoAppend(t) \/ Delete(t)
    \/ MultiGetRead(t) \/ MultiGetEnd(t)
    \/ MultiPutMismatch(t) \/ MultiPutWrite(t) \/ MultiPutEnd(t)
    \/ AllKeys(t)
    \/ Return(t)

Next == \E t \in Threads : (\E r \in Requests : Invoke(t, r)) \/ Step(t)

Spec == Init /\ [][Next]_vars

(* The scheduler runs every thread that can run. The calls are bounded, so *)
(* the mutex is in the end free for good unless its owner keeps it, and    *)
(* weak fairness is enough to take it.                                     *)
FairSpec == Spec /\ \A t \in Threads : WF_vars(Step(t))

-----------------------------------------------------------------------------
(* Properties *)

Semantics == INSTANCE KvStore WITH
    kv <- KeyValueMap, call <- req, reply <- res

\* What is left of t's request, as a request.
Rest(t) ==
    [op |-> req[t].op,
     keys |-> SubSeq(req[t].keys, idx[t], Len(req[t].keys)),
     vals |-> SubSeq(req[t].vals, idx[t], Len(req[t].vals))]

\* A call takes effect when it takes the mutex.
AbstractStore ==
    IF mutex_1 \in Threads /\ pc[mutex_1] = "access"
    THEN Semantics!Effect(KeyValueMap, Rest(mutex_1))
    ELSE KeyValueMap

AbstractReply ==
    [t \in Threads |->
        IF pc[t] \in {"idle", "lock"} THEN None
        ELSE LET rest == IF pc[t] = "access"
                         THEN Semantics!Reply(KeyValueMap, Rest(t))
                         ELSE NoRes
                 ok == res[t].ok /\ rest.ok
             IN  [ok |-> ok,
                  vals |-> IF ok THEN res[t].vals \o rest.vals ELSE <<>>,
                  keys |-> res[t].keys \cup rest.keys]]

Abstract == INSTANCE KvStore WITH
    kv <- AbstractStore, call <- req, reply <- AbstractReply

\* Every call, AllKeys included, takes effect at one instant between its
\* invocation and its return: no caller sees half of a MultiPut, and a
\* MultiGet or AllKeys returns what the map held at one moment.
ImplementsKvStore == Abstract!Spec

\* Every call returns: no way out of an operation leaves the mutex locked, also
\* where a key is missing or the vectors of a MultiPut do not match.
CallsReturn == \A t \in Threads : (pc[t] # "idle") ~> (pc[t] = "idle")
=============================================================================
