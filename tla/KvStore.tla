------------------------------ MODULE KvStore ------------------------------
(***************************************************************************)
(* What kvstore/kvstore/kvstore.hpp promises of every store: each call     *)
(* takes effect, as a whole, at one instant between the moment it is made  *)
(* and the moment it returns (linearizability). MultiGet and MultiPut too: *)
(* test_atomic_multiput_multiget.cpp requires it of them.                  *)
(*                                                                         *)
(* A value is a sequence, so that Append can be told from Put; a key that  *)
(* is not in the store has the value Absent. An implementation that does   *)
(* not make AllKeys atomic leaves it out of Requests.                      *)
(***************************************************************************)
EXTENDS Naturals, Sequences

CONSTANTS
    Threads,    \* the callers
    Keys,
    Absent,     \* the value of a key that is not in the store
    None,       \* no call in progress, or no reply yet
    Requests    \* the calls that may be made: records with fields op, keys, vals

VARIABLES
    kv,     \* kv[k]: the value of k
    call,   \* call[t]: the request of t in progress
    reply   \* reply[t]: what that call will return, once it has taken effect

vars == <<kv, call, reply>>

-----------------------------------------------------------------------------
(* The effect and the reply of a request on a store m.                     *)

Present(m) == {k \in Keys : m[k] # Absent}

\* MultiPut's vectors of keys and values must have the same length.
WellFormed(r) == r.op = "MultiPut" => Len(r.keys) = Len(r.vals)

\* The last assignment to a key wins.
Assign(m, keys, vals) ==
    [k \in Keys |->
        IF \E i \in DOMAIN keys : keys[i] = k
        THEN vals[CHOOSE i \in DOMAIN keys :
                     keys[i] = k /\ \A j \in DOMAIN keys : keys[j] = k => j <= i]
        ELSE m[k]]

Effect(m, r) ==
    CASE r.op = "Put" \/ (r.op = "MultiPut" /\ WellFormed(r)) ->
            Assign(m, r.keys, r.vals)
      [] r.op = "Append" ->
            [m EXCEPT ![r.keys[1]] = IF @ = Absent THEN r.vals[1]
                                     ELSE @ \o r.vals[1]]
      [] r.op = "Delete" -> [m EXCEPT ![r.keys[1]] = Absent]
      [] OTHER -> m

Reads(r) == r.op \in {"Get", "Delete", "MultiGet"}

\* A read succeeds if every key it names is present, and returns the values.
Succeeds(m, r) ==
    /\ WellFormed(r)
    /\ Reads(r) => \A i \in DOMAIN r.keys : m[r.keys[i]] # Absent

Reply(m, r) ==
    [ok |-> Succeeds(m, r),
     vals |-> IF Succeeds(m, r) /\ Reads(r)
              THEN [i \in DOMAIN r.keys |-> m[r.keys[i]]]
              ELSE <<>>,
     keys |-> IF r.op = "AllKeys" THEN Present(m) ELSE {}]

-----------------------------------------------------------------------------
Init ==
    /\ kv = [k \in Keys |-> Absent]
    /\ call = [t \in Threads |-> None]
    /\ reply = [t \in Threads |-> None]

Invoke(t, r) ==
    /\ call[t] = None
    /\ call' = [call EXCEPT ![t] = r]
    /\ UNCHANGED <<kv, reply>>

Perform(t) ==
    /\ call[t] # None
    /\ reply[t] = None
    /\ kv' = Effect(kv, call[t])
    /\ reply' = [reply EXCEPT ![t] = Reply(kv, call[t])]
    /\ UNCHANGED call

Return(t) ==
    /\ reply[t] # None
    /\ call' = [call EXCEPT ![t] = None]
    /\ reply' = [reply EXCEPT ![t] = None]
    /\ UNCHANGED kv

Next ==
    \E t \in Threads :
        \/ \E r \in Requests : Invoke(t, r)
        \/ Perform(t)
        \/ Return(t)

Spec == Init /\ [][Next]_vars
=============================================================================
