---------------------- MODULE ConcurrentKvStoreProofs ----------------------
(***************************************************************************)
(* Proofs about the two stores, for any threads, keys, requests and number *)
(* of calls.                                                               *)
(*                                                                         *)
(* ConcurrentKvStore, also for any buckets: no two calls touch a bucket at *)
(* once unless both only read it, the variables keep their types, AllKeys  *)
(* returns every key that was there all the time it ran and none that never*)
(* was, and every other call is atomic.                                    *)
(*                                                                         *)
(* SimpleKvStore, at the end: the variables keep their types and every     *)
(* call is atomic.                                                         *)
(***************************************************************************)
EXTENDS ConcurrentKvStore, SequenceTheorems, WellFoundedInduction, TLAPS

\* Where a call owns the locks in held[t] (a failed MultiGet, "done", has
\* given up track of its own).
Owning == {"lock", "access", "unlock", "scan"}

\* A thread at work has a request, and it is an AllKeys exactly in the scan.
RequestFitsPC ==
    \A t \in Threads :
        /\ pc[t] # "idle" => req[t] \in Requests
        /\ pc[t] \in {"lock", "access", "unlock"} => req[t].op # "AllKeys"
        /\ pc[t] \in {"scan_lock", "scan"} => req[t].op = "AllKeys"
        /\ pc[t] \in {"idle", "scan_lock"} => held[t] = {}

\* Thread t owns the mutex of bucket b in the mode that its request asks for.
Owns(t, b) == IF Exclusive(req[t]) THEN writer[b] = t ELSE Token(t) \in readers[b]

\* Every lock that a call counts as its own is its own.
HeldIsOwned ==
    \A t \in Threads : pc[t] \in Owning => \A b \in held[t] : Owns(t, b)

\* A mutex is held exclusively or shared, never both.
WriterExcludesReaders ==
    \A b \in Buckets : writer[b] # None => readers[b] = {}

\* A call touches only buckets it has locked.
TouchesHeld ==
    \A t \in Threads :
        /\ pc[t] = "access" => Needed(req[t]) \subseteq held[t]
        /\ pc[t] = "scan" => held[t] = {idx[t]}

LockTypes ==
    /\ writer \in [Buckets -> Threads \cup {None}]
    /\ readers \in [Buckets -> SUBSET (Threads \X (0..MaxCalls))]
    /\ pc \in [Threads -> PCs]
    /\ req \in [Threads -> Requests \cup {None}]
    /\ held \in [Threads -> SUBSET Buckets]
    /\ idx \in [Threads -> Nat]
    /\ calls \in [Threads -> 0..MaxCalls]

LockInv ==
    /\ LockTypes
    /\ RequestFitsPC
    /\ HeldIsOwned
    /\ WriterExcludesReaders
    /\ TouchesHeld

-----------------------------------------------------------------------------
\* The locks are free and nobody holds one initially.
LEMMA InitLockInv == Init => LockInv
<1> SUFFICES ASSUME Init PROVE LockInv
  OBVIOUS
<1> USE DEF Init
<1>1. LockTypes
  BY MaxCallsAssumption DEF LockTypes, PCs
<1>2. RequestFitsPC /\ HeldIsOwned
  BY DEF RequestFitsPC, HeldIsOwned, Owning
<1>3. WriterExcludesReaders /\ TouchesHeld
  BY DEF WriterExcludesReaders, TouchesHeld
<1> QED BY <1>1, <1>2, <1>3 DEF LockInv

\* What the four single-key calls do to the locks: the guard releases them.
SingleAccess(t) ==
    /\ pc[t] = "access"
    /\ Unlock(t, held[t])
    /\ held' = [held EXCEPT ![t] = {}]
    /\ Goto(t, "done")
    /\ UNCHANGED <<req, idx, calls>>

\* Get, Put, Append and Delete are such calls.
LEMMA SingleCalls ==
    \A t \in Threads :
        Get(t) \/ Put(t) \/ DoAppend(t) \/ Delete(t) => SingleAccess(t)
BY DEF Get, Put, DoAppend, Delete, Accessing, FinishSingle, SingleAccess

\* Locking keeps the types of the mutexes.
LEMMA LockTyped ==
    ASSUME LockTypes, NEW t \in Threads, NEW b \in Buckets, Lock(t, b)
    PROVE  /\ writer' \in [Buckets -> Threads \cup {None}]
           /\ readers' \in [Buckets -> SUBSET (Threads \X (0..MaxCalls))]
BY DEF LockTypes, Lock, Token

\* So does unlocking.
LEMMA UnlockTyped ==
    ASSUME LockTypes, NEW t \in Threads, NEW bs, Unlock(t, bs)
    PROVE  /\ writer' \in [Buckets -> Threads \cup {None}]
           /\ readers' \in [Buckets -> SUBSET (Threads \X (0..MaxCalls))]
BY DEF LockTypes, Unlock, Token

\* Taking a lock takes it from nobody.
LEMMA LockKeepsOwners ==
    ASSUME LockTypes, NEW t \in Threads, NEW b \in Buckets, Lock(t, b),
           UNCHANGED <<req, calls>>
    PROVE  /\ Owns(t, b)'
           /\ \A u \in Threads, c \in Buckets : Owns(u, c) => Owns(u, c)'
<1>1. None \notin Threads
  BY NoneAssumption
<1> QED BY <1>1 DEF LockTypes, Lock, Token, Owns, Exclusive

\* Releasing locks that t owns releases no lock of another call, and none of
\* the other locks of t.
LEMMA UnlockKeepsOwners ==
    ASSUME LockTypes, WriterExcludesReaders,
           NEW t \in Threads, NEW bs \in SUBSET Buckets, Unlock(t, bs),
           \A b \in bs : Owns(t, b),
           UNCHANGED <<req, calls>>
    PROVE  \A u \in Threads, c \in Buckets :
               Owns(u, c) /\ (u # t \/ c \notin bs) => Owns(u, c)'
BY NoneAssumption DEF LockTypes, WriterExcludesReaders, Unlock, Token, Owns, Exclusive

\* A bucket is locked exclusively only when it has no readers, and shared only
\* when it has no writer.
LEMMA LockExcludes ==
    ASSUME LockTypes, WriterExcludesReaders,
           NEW t \in Threads, NEW b \in Buckets, Lock(t, b)
    PROVE  WriterExcludesReaders'
BY NoneAssumption DEF LockTypes, WriterExcludesReaders, Lock

\* Releasing a bucket lets nobody in.
LEMMA UnlockExcludes ==
    ASSUME LockTypes, WriterExcludesReaders,
           NEW t \in Threads, NEW bs, Unlock(t, bs)
    PROVE  WriterExcludesReaders'
BY NoneAssumption DEF LockTypes, WriterExcludesReaders, Unlock

\* Every step keeps the types of the variables the locking depends on.
LEMMA TypesStep ==
    LockTypes /\ RequestFitsPC /\ [Next]_vars => LockTypes'
<1> SUFFICES ASSUME LockTypes, RequestFitsPC, [Next]_vars PROVE LockTypes'
  OBVIOUS
<1> USE MaxCallsAssumption
       DEF LockTypes, RequestFitsPC, PCs
<1>1. ASSUME NEW t \in Threads, NEW r \in Requests, Invoke(t, r)
      PROVE  LockTypes'
  BY <1>1 DEF Invoke, Goto, locks
<1>2. ASSUME NEW t \in Threads, MultiPutMismatch(t) PROVE LockTypes'
  BY <1>2 DEF MultiPutMismatch, Goto, locks
<1>3. ASSUME NEW t \in Threads, LockNext(t) PROVE LockTypes'
  BY <1>3, LockTyped DEF LockNext, IsNextBucket
<1>4. ASSUME NEW t \in Threads, StartAccess(t) PROVE LockTypes'
  BY <1>4 DEF StartAccess, Goto, locks
<1>5. ASSUME NEW t \in Threads, SingleAccess(t) PROVE LockTypes'
  BY <1>5, UnlockTyped DEF SingleAccess, Goto
<1>6. ASSUME NEW t \in Threads, MultiGetRead(t) PROVE LockTypes'
  <2>1. \/ Goto(t, "done") /\ UNCHANGED idx
        \/ UNCHANGED pc /\ idx' = [idx EXCEPT ![t] = @ + 1]
    BY <1>6, Zenon DEF MultiGetRead
  <2>2. idx' \in [Threads -> Nat] /\ pc' \in [Threads -> PCs]
    BY <2>1 DEF Goto
  <2>3. UNCHANGED <<writer, readers, req, held, calls>>
    BY <1>6 DEF MultiGetRead, locks
  <2> QED BY <2>2, <2>3
<1>7. ASSUME NEW t \in Threads, MultiPutWrite(t) PROVE LockTypes'
  BY <1>7 DEF MultiPutWrite, Accessing, locks
<1>8. ASSUME NEW t \in Threads, EndAccess(t) PROVE LockTypes'
  BY <1>8 DEF EndAccess, Accessing, Goto, locks
<1>9. ASSUME NEW t \in Threads, UnlockNext(t) PROVE LockTypes'
  BY <1>9, UnlockTyped DEF UnlockNext
<1>10. ASSUME NEW t \in Threads, EndUnlock(t) PROVE LockTypes'
  BY <1>10 DEF EndUnlock, Goto, locks
<1>11. ASSUME NEW t \in Threads, ScanLock(t) PROVE LockTypes'
  <2>1. idx[t] \in Buckets
    BY <1>11, BucketAssumption DEF ScanLock, Buckets
  <2> QED BY <1>11, <2>1, LockTyped DEF ScanLock, Goto
<1>12. ASSUME NEW t \in Threads, ScanBucket(t) PROVE LockTypes'
  BY <1>12, UnlockTyped DEF ScanBucket, Goto
<1>13. ASSUME NEW t \in Threads, ScanEnd(t) PROVE LockTypes'
  BY <1>13 DEF ScanEnd, Goto, locks
<1>14. ASSUME NEW t \in Threads, Return(t) PROVE LockTypes'
  BY <1>14 DEF Return, Goto, locks
<1>15. CASE UNCHANGED vars
  BY <1>15 DEF vars
<1> QED BY <1>1, <1>2, <1>3, <1>4, <1>5, <1>6, <1>7, <1>8, <1>9, <1>10, <1>11,
        <1>12, <1>13, <1>14, <1>15, SingleCalls
   DEF Next, Begin, Step, Act

\* A request stays with its call, and a call releases what it must.
LEMMA RequestStep ==
    LockTypes /\ RequestFitsPC /\ [Next]_vars => RequestFitsPC'
<1> SUFFICES ASSUME LockTypes, RequestFitsPC, [Next]_vars PROVE RequestFitsPC'
  OBVIOUS
<1> USE DEF LockTypes, RequestFitsPC, PCs
<1>1. ASSUME NEW t \in Threads, NEW r \in Requests, Invoke(t, r)
      PROVE  RequestFitsPC'
  BY <1>1 DEF Invoke, Goto, locks
<1>2. ASSUME NEW t \in Threads, MultiPutMismatch(t) PROVE RequestFitsPC'
  BY <1>2 DEF MultiPutMismatch, Goto, locks
<1>3. ASSUME NEW t \in Threads, LockNext(t) PROVE RequestFitsPC'
  BY <1>3 DEF LockNext, Lock, IsNextBucket
<1>4. ASSUME NEW t \in Threads, StartAccess(t) PROVE RequestFitsPC'
  BY <1>4 DEF StartAccess, Goto, locks
<1>5. ASSUME NEW t \in Threads, SingleAccess(t) PROVE RequestFitsPC'
  BY <1>5 DEF SingleAccess, Goto
<1>6. ASSUME NEW t \in Threads, MultiGetRead(t) PROVE RequestFitsPC'
  BY <1>6 DEF MultiGetRead, Accessing, Goto, locks
<1>7. ASSUME NEW t \in Threads, MultiPutWrite(t) PROVE RequestFitsPC'
  BY <1>7 DEF MultiPutWrite, Accessing, locks
<1>8. ASSUME NEW t \in Threads, EndAccess(t) PROVE RequestFitsPC'
  BY <1>8 DEF EndAccess, Accessing, Goto, locks
<1>9. ASSUME NEW t \in Threads, UnlockNext(t) PROVE RequestFitsPC'
  BY <1>9 DEF UnlockNext, Unlock
<1>10. ASSUME NEW t \in Threads, EndUnlock(t) PROVE RequestFitsPC'
  BY <1>10 DEF EndUnlock, Goto, locks
<1>11. ASSUME NEW t \in Threads, ScanLock(t) PROVE RequestFitsPC'
  BY <1>11 DEF ScanLock, Lock, Goto
<1>12. ASSUME NEW t \in Threads, ScanBucket(t) PROVE RequestFitsPC'
  BY <1>12 DEF ScanBucket, Unlock, Goto
<1>13. ASSUME NEW t \in Threads, ScanEnd(t) PROVE RequestFitsPC'
  BY <1>13 DEF ScanEnd, Goto, locks
<1>14. ASSUME NEW t \in Threads, Return(t) PROVE RequestFitsPC'
  BY <1>14 DEF Return, Goto, locks
<1>15. CASE UNCHANGED vars
  BY <1>15 DEF vars
<1> QED BY <1>1, <1>2, <1>3, <1>4, <1>5, <1>6, <1>7, <1>8, <1>9, <1>10, <1>11,
        <1>12, <1>13, <1>14, <1>15, SingleCalls
   DEF Next, Begin, Step, Act

\* Nobody takes away a lock that a call holds.
LEMMA OwnedStep ==
    LockInv /\ [Next]_vars => HeldIsOwned'
<1> SUFFICES ASSUME LockInv, [Next]_vars PROVE HeldIsOwned'
  OBVIOUS
<1> USE DEF LockInv, LockTypes, RequestFitsPC, HeldIsOwned, WriterExcludesReaders,
        Owning
<1>1. ASSUME NEW t \in Threads, NEW r \in Requests, Invoke(t, r)
      PROVE  HeldIsOwned'
  BY <1>1 DEF Invoke, Goto, locks, Owns, Token
<1>2. ASSUME NEW t \in Threads, MultiPutMismatch(t) PROVE HeldIsOwned'
  BY <1>2 DEF MultiPutMismatch, Goto, locks, Owns, Token
<1>3. ASSUME NEW t \in Threads, LockNext(t) PROVE HeldIsOwned'
  <2>1. PICK b \in Buckets : Lock(t, b) /\ held' = [held EXCEPT ![t] = @ \cup {b}]
    BY <1>3 DEF LockNext
  <2>2. UNCHANGED <<req, calls, pc>>
    BY <1>3 DEF LockNext
  <2> QED BY <2>1, <2>2, LockKeepsOwners
<1>4. ASSUME NEW t \in Threads, StartAccess(t) PROVE HeldIsOwned'
  BY <1>4 DEF StartAccess, Goto, locks, Owns, Token
<1>5. ASSUME NEW t \in Threads, SingleAccess(t) PROVE HeldIsOwned'
  <2>1. \A b \in held[t] : Owns(t, b)
    BY <1>5 DEF SingleAccess
  <2>2. \A u \in Threads, c \in Buckets :
           Owns(u, c) /\ (u # t \/ c \notin held[t]) => Owns(u, c)'
    BY <1>5, <2>1, UnlockKeepsOwners DEF SingleAccess
  <2> QED BY <1>5, <2>2 DEF SingleAccess, Goto
<1>6. ASSUME NEW t \in Threads, MultiGetRead(t) PROVE HeldIsOwned'
  BY <1>6 DEF MultiGetRead, Accessing, Goto, locks, Owns, Token
<1>7. ASSUME NEW t \in Threads, MultiPutWrite(t) PROVE HeldIsOwned'
  BY <1>7 DEF MultiPutWrite, Accessing, locks, Owns, Token
<1>8. ASSUME NEW t \in Threads, EndAccess(t) PROVE HeldIsOwned'
  BY <1>8 DEF EndAccess, Accessing, Goto, locks, Owns, Token
<1>9. ASSUME NEW t \in Threads, UnlockNext(t) PROVE HeldIsOwned'
  <2>1. PICK b \in held[t] :
          Unlock(t, {b}) /\ held' = [held EXCEPT ![t] = @ \ {b}]
    BY <1>9 DEF UnlockNext
  <2>2. UNCHANGED <<req, calls, pc>> /\ Owns(t, b) /\ {b} \in SUBSET Buckets
    BY <1>9, <2>1 DEF UnlockNext
  <2>3. \A u \in Threads, c \in Buckets :
           Owns(u, c) /\ (u # t \/ c \notin {b}) => Owns(u, c)'
    BY <2>1, <2>2, UnlockKeepsOwners
  <2> QED BY <2>1, <2>2, <2>3
<1>10. ASSUME NEW t \in Threads, EndUnlock(t) PROVE HeldIsOwned'
  BY <1>10 DEF EndUnlock, Goto, locks, Owns, Token
<1>11. ASSUME NEW t \in Threads, ScanLock(t) PROVE HeldIsOwned'
  <2>1. idx[t] \in Buckets
    BY <1>11, BucketAssumption DEF ScanLock, Buckets
  <2>2. Lock(t, idx[t]) /\ UNCHANGED <<req, calls>>
    BY <1>11 DEF ScanLock
  <2> QED BY <1>11, <2>1, <2>2, LockKeepsOwners DEF ScanLock, Goto
<1>12. ASSUME NEW t \in Threads, ScanBucket(t) PROVE HeldIsOwned'
  <2>1. \A b \in held[t] : Owns(t, b)
    BY <1>12 DEF ScanBucket
  <2>2. \A u \in Threads, c \in Buckets :
           Owns(u, c) /\ (u # t \/ c \notin held[t]) => Owns(u, c)'
    BY <1>12, <2>1, UnlockKeepsOwners DEF ScanBucket
  <2> QED BY <1>12, <2>2 DEF ScanBucket, Goto
<1>13. ASSUME NEW t \in Threads, ScanEnd(t) PROVE HeldIsOwned'
  BY <1>13 DEF ScanEnd, Goto, locks, Owns, Token
<1>14. ASSUME NEW t \in Threads, Return(t) PROVE HeldIsOwned'
  BY <1>14 DEF Return, Goto, locks, Owns, Token
<1>15. CASE UNCHANGED vars
  BY <1>15 DEF vars, Owns, Token
<1> QED BY <1>1, <1>2, <1>3, <1>4, <1>5, <1>6, <1>7, <1>8, <1>9, <1>10, <1>11,
        <1>12, <1>13, <1>14, <1>15, SingleCalls
   DEF Next, Begin, Step, Act

\* No step lets readers and a writer share a bucket.
LEMMA ExcludesStep ==
    LockInv /\ [Next]_vars => WriterExcludesReaders'
<1> SUFFICES ASSUME LockInv, [Next]_vars PROVE WriterExcludesReaders'
  OBVIOUS
<1> USE DEF LockInv, WriterExcludesReaders
<1>1. ASSUME NEW t \in Threads, NEW r \in Requests, Invoke(t, r)
      PROVE  WriterExcludesReaders'
  BY <1>1 DEF Invoke, Goto, locks
<1>2. ASSUME NEW t \in Threads, MultiPutMismatch(t)
      PROVE  WriterExcludesReaders'
  BY <1>2 DEF MultiPutMismatch, Goto, locks
<1>3. ASSUME NEW t \in Threads, LockNext(t) PROVE WriterExcludesReaders'
  BY <1>3, LockExcludes DEF LockNext, IsNextBucket
<1>4. ASSUME NEW t \in Threads, StartAccess(t) PROVE WriterExcludesReaders'
  BY <1>4 DEF StartAccess, Goto, locks
<1>5. ASSUME NEW t \in Threads, SingleAccess(t) PROVE WriterExcludesReaders'
  BY <1>5, UnlockExcludes DEF SingleAccess, Goto
<1>6. ASSUME NEW t \in Threads, MultiGetRead(t) PROVE WriterExcludesReaders'
  BY <1>6 DEF MultiGetRead, Accessing, Goto, locks
<1>7. ASSUME NEW t \in Threads, MultiPutWrite(t) PROVE WriterExcludesReaders'
  BY <1>7 DEF MultiPutWrite, Accessing, locks
<1>8. ASSUME NEW t \in Threads, EndAccess(t) PROVE WriterExcludesReaders'
  BY <1>8 DEF EndAccess, Accessing, Goto, locks
<1>9. ASSUME NEW t \in Threads, UnlockNext(t) PROVE WriterExcludesReaders'
  BY <1>9, UnlockExcludes DEF UnlockNext
<1>10. ASSUME NEW t \in Threads, EndUnlock(t) PROVE WriterExcludesReaders'
  BY <1>10 DEF EndUnlock, Goto, locks
<1>11. ASSUME NEW t \in Threads, ScanLock(t) PROVE WriterExcludesReaders'
  <2>1. idx[t] \in Buckets
    BY <1>11, BucketAssumption DEF ScanLock, Buckets, LockTypes
  <2> QED BY <1>11, <2>1, LockExcludes DEF ScanLock
<1>12. ASSUME NEW t \in Threads, ScanBucket(t) PROVE WriterExcludesReaders'
  BY <1>12, UnlockExcludes DEF ScanBucket, Goto
<1>13. ASSUME NEW t \in Threads, ScanEnd(t) PROVE WriterExcludesReaders'
  BY <1>13 DEF ScanEnd, Goto, locks
<1>14. ASSUME NEW t \in Threads, Return(t) PROVE WriterExcludesReaders'
  BY <1>14 DEF Return, Goto, locks
<1>15. CASE UNCHANGED vars
  BY <1>15 DEF vars
<1> QED BY <1>1, <1>2, <1>3, <1>4, <1>5, <1>6, <1>7, <1>8, <1>9, <1>10, <1>11,
        <1>12, <1>13, <1>14, <1>15, SingleCalls
   DEF Next, Begin, Step, Act

\* A call keeps its locks as long as it accesses the buckets.
LEMMA TouchesStep ==
    LockInv /\ [Next]_vars => TouchesHeld'
<1> SUFFICES ASSUME LockInv, [Next]_vars PROVE TouchesHeld'
  OBVIOUS
<1> USE DEF LockInv, LockTypes, RequestFitsPC, TouchesHeld
<1>1. ASSUME NEW t \in Threads, NEW r \in Requests, Invoke(t, r)
      PROVE  TouchesHeld'
  BY <1>1 DEF Invoke, Goto, locks
<1>2. ASSUME NEW t \in Threads, MultiPutMismatch(t) PROVE TouchesHeld'
  BY <1>2 DEF MultiPutMismatch, Goto, locks
<1>3. ASSUME NEW t \in Threads, LockNext(t) PROVE TouchesHeld'
  BY <1>3 DEF LockNext, Lock, IsNextBucket
<1>4. ASSUME NEW t \in Threads, StartAccess(t) PROVE TouchesHeld'
  BY <1>4 DEF StartAccess, Goto, locks
<1>5. ASSUME NEW t \in Threads, SingleAccess(t) PROVE TouchesHeld'
  BY <1>5 DEF SingleAccess, Goto
<1>6. ASSUME NEW t \in Threads, MultiGetRead(t) PROVE TouchesHeld'
  BY <1>6 DEF MultiGetRead, Accessing, Goto, locks
<1>7. ASSUME NEW t \in Threads, MultiPutWrite(t) PROVE TouchesHeld'
  BY <1>7 DEF MultiPutWrite, Accessing, locks
<1>8. ASSUME NEW t \in Threads, EndAccess(t) PROVE TouchesHeld'
  BY <1>8 DEF EndAccess, Accessing, Goto, locks
<1>9. ASSUME NEW t \in Threads, UnlockNext(t) PROVE TouchesHeld'
  BY <1>9 DEF UnlockNext, Unlock
<1>10. ASSUME NEW t \in Threads, EndUnlock(t) PROVE TouchesHeld'
  BY <1>10 DEF EndUnlock, Goto, locks
<1>11. ASSUME NEW t \in Threads, ScanLock(t) PROVE TouchesHeld'
  BY <1>11 DEF ScanLock, Lock, Goto
<1>12. ASSUME NEW t \in Threads, ScanBucket(t) PROVE TouchesHeld'
  BY <1>12 DEF ScanBucket, Unlock, Goto
<1>13. ASSUME NEW t \in Threads, ScanEnd(t) PROVE TouchesHeld'
  BY <1>13 DEF ScanEnd, Goto, locks
<1>14. ASSUME NEW t \in Threads, Return(t) PROVE TouchesHeld'
  BY <1>14 DEF Return, Goto, locks
<1>15. CASE UNCHANGED vars
  BY <1>15 DEF vars
<1> QED BY <1>1, <1>2, <1>3, <1>4, <1>5, <1>6, <1>7, <1>8, <1>9, <1>10, <1>11,
        <1>12, <1>13, <1>14, <1>15, SingleCalls
   DEF Next, Begin, Step, Act


\* The locking discipline holds in every reachable state.
LEMMA LockInvariance == Spec => []LockInv
<1>1. LockInv /\ [Next]_vars => LockInv'
  BY TypesStep, RequestStep, OwnedStep, ExcludesStep, TouchesStep DEF LockInv
<1> QED BY InitLockInv, <1>1, PTL DEF Spec

\* No call reads or writes the list of a bucket while another call writes it,
\* with any number of threads, buckets and keys per call.
THEOREM NoDataRaceTheorem == Spec => []NoDataRace
<1>1. LockInv => NoDataRace
  <2> SUFFICES ASSUME LockInv,
                      NEW t \in Threads, NEW u \in Threads, t # u,
                      pc[t] = "access", Exclusive(req[t]),
                      NEW b \in Touches(t), b \in Touches(u)
               PROVE  FALSE
    BY DEF NoDataRace, Writes, Exclusive
  <2> USE DEF LockInv, LockTypes
  <2>1. b \in Buckets /\ writer[b] = t
    BY DEF Touches, TouchesHeld, HeldIsOwned, Owning, Owns
  <2>2. readers[b] = {}
    BY <2>1, NoneAssumption DEF WriterExcludesReaders
  <2>3. pc[u] \in {"access", "scan"} /\ b \in held[u]
    BY DEF Touches, TouchesHeld
  <2>4. Owns(u, b)
    BY <2>3 DEF HeldIsOwned, Owning
  <2> QED BY <2>1, <2>2, <2>4 DEF Owns
<1> QED BY LockInvariance, <1>1, PTL

-----------------------------------------------------------------------------
(* Data.  AllKeys, which locks one bucket at a time.                       *)

\* Where the loop counter of a call is.
Indices ==
    \A t \in Threads :
        /\ pc[t] = "lock" => idx[t] = 1
        /\ pc[t] = "access" => /\ idx[t] >= 1 /\ ~Mismatched(req[t])
                               /\ req[t].op \in SingleOps => idx[t] = 1

\* A scan has found the keys of the buckets before idx that were there all the
\* time, and no key that was never there.
ScanOK(t) ==
    /\ ~Scanning(t) => res[t].keys = {}
    /\ Scanning(t) =>
          /\ pc[t] \in {"scan_lock", "scan", "done"}
          /\ always[t] \subseteq Present /\ Present \subseteq ever[t]
          /\ res[t].keys \subseteq ever[t]
          /\ \A k \in always[t] : BucketOf[k] < idx[t] => k \in res[t].keys
          /\ idx[t] <= BucketCount
          /\ pc[t] = "scan" => idx[t] < BucketCount
          /\ pc[t] = "done" => idx[t] = BucketCount

DataInv == TypeOK /\ Indices /\ \A t \in Threads : ScanOK(t)

\* Nothing is stored and nobody scans initially.
LEMMA InitData == Init => DataInv
<1> SUFFICES ASSUME Init PROVE DataInv
  OBVIOUS
<1>1. NoRes \in [ok : BOOLEAN, vals : Seq(Values), keys : SUBSET Keys] /\ NoRes.keys = {}
  BY DEF NoRes
<1>2. TypeOK
  BY <1>1, MaxCallsAssumption DEF Init, TypeOK, PCs
<1>3. Indices
  BY DEF Init, Indices
<1>4. ASSUME NEW t \in Threads PROVE ScanOK(t)
  BY <1>1 DEF Init, ScanOK, Scanning
<1> QED BY <1>2, <1>3, <1>4 DEF DataInv

\* A step that is not one of the scan of u leaves it sound, whatever it does to
\* the store: Track follows the store.
LEMMA ScanFrame ==
    ASSUME NEW u \in Threads, ScanOK(u), Track, req'[u] = req[u],
           res'[u].keys = res[u].keys,
           Scanning(u) => pc'[u] = pc[u] /\ idx'[u] = idx[u]
    PROVE  ScanOK(u)'
<1>1. Scanning(u)' <=> Scanning(u)
  BY DEF Scanning
<1>2. CASE ~Scanning(u)
  BY <1>1, <1>2 DEF ScanOK
<1>3. CASE Scanning(u)
  <2>1. always'[u] = always[u] \cap Present' /\ ever'[u] = ever[u] \cup Present'
    BY <1>1, <1>3 DEF Track
  <2> QED BY <1>1, <1>3, <2>1 DEF ScanOK
<1> QED BY <1>2, <1>3

\* Track keeps the types of the history.
LEMMA TrackTyped ==
    ASSUME TypeOK, Track
    PROVE  always' \in [Threads -> SUBSET Keys] /\ ever' \in [Threads -> SUBSET Keys]
<1>1. Present \subseteq Keys /\ Present' \subseteq Keys
  BY DEF Present
<1> QED BY <1>1 DEF Track, TypeOK

\* The key, and the value, that an access is about.
LEMMA AccessKey ==
    ASSUME TypeOK, Indices, RequestFitsPC, NEW t \in Threads, pc[t] = "access",
           idx[t] <= Len(req[t].keys)
    PROVE  /\ Key(t) \in Keys /\ store[Key(t)] \in Values \cup {Absent}
           /\ req[t].op \in {"Put", "Append", "MultiPut"} => Val(t) \in Values
<1>1. PICK r \in Requests : r = req[t]
  BY DEF RequestFitsPC
<1>2. /\ r.keys \in Seq(Keys) /\ r.vals \in Seq(Values)
      /\ r.op \in {"Put", "Append"} => Len(r.vals) = 1 /\ idx[t] = 1
      /\ r.op = "MultiPut" => Len(r.keys) = Len(r.vals)
      /\ idx[t] \in Nat /\ idx[t] >= 1
  BY <1>1, RequestAssumption DEF Indices, Mismatched, SingleOps, TypeOK
<1>3. idx[t] \in 1..Len(r.keys) /\ Len(r.keys) \in Nat
  BY <1>1, <1>2
<1>4. r.keys[idx[t]] \in Keys
  BY <1>2, <1>3
<1>5. r.op \in {"Put", "Append", "MultiPut"} => r.vals[idx[t]] \in Values
  BY <1>2, <1>3
<1> QED BY <1>1, <1>4, <1>5 DEF Key, Val, TypeOK

\* A single-key call has its key.
LEMMA SingleKey ==
    ASSUME TypeOK, Indices, RequestFitsPC, NEW t \in Threads, pc[t] = "access",
           req[t].op \in SingleOps
    PROVE  idx[t] <= Len(req[t].keys)
BY RequestAssumption DEF Indices, RequestFitsPC

\* A step of the call of t, on the store and on what t answers.
Acts(t) ==
    /\ store' \in [Keys -> Values \cup {Absent}]
    /\ res' \in [Threads -> [ok : BOOLEAN, vals : Seq(Values), keys : SUBSET Keys]]
    /\ \A u \in Threads \ {t} :
          pc'[u] = pc[u] /\ req'[u] = req[u] /\ idx'[u] = idx[u] /\ res'[u] = res[u]

\* Such a step keeps the invariant if the call of t itself is sound after it.
LEMMA ActsKeeps ==
    ASSUME DataInv, NEW t \in Threads, Acts(t), Track, LockTypes', ScanOK(t)',
           pc'[t] = "lock" => idx'[t] = 1,
           pc'[t] = "access" => /\ idx'[t] >= 1 /\ ~Mismatched(req'[t])
                                /\ req'[t].op \in SingleOps => idx'[t] = 1
    PROVE  DataInv'
<1>1. TypeOK'
  BY TrackTyped DEF DataInv, TypeOK, LockTypes, Acts
<1>2. Indices'
  BY DEF DataInv, Indices, Acts, Mismatched
<1>3. ASSUME NEW u \in Threads PROVE ScanOK(u)'
  <2>1. CASE u = t
    BY <2>1
  <2>2. CASE u # t
    BY <2>2, ScanFrame DEF DataInv, Acts
  <2> QED BY <2>1, <2>2
<1> QED BY <1>1, <1>2, <1>3 DEF DataInv

\* A step of a call that is no scan and keeps its request.
LEMMA OtherActs ==
    ASSUME DataInv, NEW t \in Threads, Acts(t), Track, LockTypes', ~Scanning(t),
           req'[t] = req[t], res'[t].keys = res[t].keys,
           pc'[t] = "lock" => idx'[t] = 1,
           pc'[t] = "access" => /\ idx'[t] >= 1 /\ ~Mismatched(req'[t])
                                /\ req'[t].op \in SingleOps => idx'[t] = 1
    PROVE  DataInv'
<1>1. ScanOK(t)'
  BY ScanFrame DEF DataInv
<1> QED BY <1>1, ActsKeeps

\* The response record of t, with new ok and values, has its type and its keys.
LEMMA Answered ==
    ASSUME TypeOK, NEW t \in Threads, NEW ok \in BOOLEAN, NEW values \in Seq(Values),
           res' = [res EXCEPT ![t].ok = ok, ![t].vals = values]
    PROVE  /\ res' \in [Threads -> [ok : BOOLEAN, vals : Seq(Values), keys : SUBSET Keys]]
           /\ res'[t].keys = res[t].keys
           /\ \A u \in Threads \ {t} : res'[u] = res[u]
BY ZenonT(30) DEF TypeOK

\* A call that is locking, accessing or unlocking is no scan.
LEMMA NoScan ==
    ASSUME RequestFitsPC, NEW t \in Threads, pc[t] \in {"lock", "access", "unlock"}
    PROVE  ~Scanning(t)
BY DEF RequestFitsPC, Scanning

\* A single-key call answers, whatever it did to its key.
LEMMA SingleData ==
    ASSUME DataInv, LockInv, LockTypes', Track, NEW t \in Threads, pc[t] = "access",
           NEW ok \in BOOLEAN, NEW values \in Seq(Values), FinishSingle(t, ok, values),
           store' \in [Keys -> Values \cup {Absent}]
    PROVE  DataInv'
<1>1. /\ res' = [res EXCEPT ![t].ok = ok, ![t].vals = values]
      /\ pc' = [pc EXCEPT ![t] = "done"] /\ req' = req /\ idx' = idx
  BY DEF FinishSingle, Goto
<1>2. TypeOK /\ RequestFitsPC
  BY DEF DataInv, LockInv
<1>3. /\ res' \in [Threads -> [ok : BOOLEAN, vals : Seq(Values), keys : SUBSET Keys]]
      /\ res'[t].keys = res[t].keys
      /\ \A u \in Threads \ {t} : res'[u] = res[u]
  BY <1>1, <1>2, Answered
<1>4. Acts(t)
  BY <1>1, <1>2, <1>3 DEF Acts, TypeOK
<1>5. pc'[t] = "done"
  BY <1>1, <1>2 DEF TypeOK
<1>6. ~Scanning(t)
  BY <1>2, NoScan
<1> QED BY <1>1, <1>3, <1>4, <1>5, <1>6, OtherActs

\* Get, Put, Append and Delete.
LEMMA SinglesData ==
    ASSUME DataInv, LockInv, LockTypes', Track, NEW t \in Threads,
           Get(t) \/ Put(t) \/ DoAppend(t) \/ Delete(t)
    PROVE  DataInv'
<1>0. TypeOK /\ Indices /\ RequestFitsPC
  BY DEF DataInv, LockInv
<1>1. pc[t] = "access" /\ req[t].op \in SingleOps
  BY DEF Get, Put, DoAppend, Delete, Accessing, SingleOps
<1>2. /\ Key(t) \in Keys /\ store[Key(t)] \in Values \cup {Absent}
      /\ req[t].op \in {"Put", "Append", "MultiPut"} => Val(t) \in Values
  BY <1>0, <1>1, SingleKey, AccessKey
<1>3. /\ <<>> \in Seq(Values)
      /\ store[Key(t)] # Absent => <<store[Key(t)]>> \in Seq(Values)
  BY <1>2
<1>4. store \in [Keys -> Values \cup {Absent}]
  BY <1>0 DEF TypeOK
<1>5. CASE Get(t)
  <2>1. PICK ok \in BOOLEAN, values \in Seq(Values) : FinishSingle(t, ok, values)
    BY <1>3, <1>5 DEF Get
  <2> QED BY <1>1, <1>4, <1>5, <2>1, SingleData DEF Get
<1>6. CASE Put(t)
  <2>1. store' \in [Keys -> Values \cup {Absent}]
    BY <1>2, <1>4, <1>6 DEF Put, Accessing
  <2>2. FinishSingle(t, TRUE, <<>>)
    BY <1>6 DEF Put
  <2> QED BY <1>1, <1>3, <2>1, <2>2, SingleData
<1>7. CASE DoAppend(t)
  <2>1. Val(t) \in Values
    BY <1>2, <1>7 DEF DoAppend, Accessing
  <2>2. store[Key(t)] # Absent => store[Key(t)] \o Val(t) \in Values
    BY <1>2, <2>1 DEF Values
  <2>3. PICK v \in Values : store' = [store EXCEPT ![Key(t)] = v]
    BY <1>2, <1>4, <1>7, <2>1, <2>2 DEF DoAppend
  <2>4. store' \in [Keys -> Values \cup {Absent}]
    BY <1>4, <2>3
  <2>5. FinishSingle(t, TRUE, <<>>)
    BY <1>7 DEF DoAppend
  <2> QED BY <1>1, <1>3, <2>4, <2>5, SingleData
<1>8. CASE Delete(t)
  <2>1. store' \in [Keys -> Values \cup {Absent}]
    BY <1>4, <1>8 DEF Delete
  <2>2. PICK ok \in BOOLEAN, values \in Seq(Values) : FinishSingle(t, ok, values)
    BY <1>3, <1>8 DEF Delete
  <2> QED BY <1>1, <2>1, <2>2, SingleData
<1> QED BY <1>5, <1>6, <1>7, <1>8

\* The loops over buckets and keys of every call but AllKeys.
LEMMA LoopsData ==
    ASSUME DataInv, LockInv, LockTypes', Track, NEW t \in Threads,
           \/ MultiPutMismatch(t) \/ LockNext(t) \/ StartAccess(t)
           \/ MultiGetRead(t) \/ MultiPutWrite(t) \/ EndAccess(t)
           \/ UnlockNext(t) \/ EndUnlock(t)
    PROVE  DataInv'
<1>0. TypeOK /\ Indices /\ RequestFitsPC
  BY DEF DataInv, LockInv
<1>1. /\ pc \in [Threads -> PCs] /\ idx \in [Threads -> Nat]
      /\ store \in [Keys -> Values \cup {Absent}]
      /\ res \in [Threads -> [ok : BOOLEAN, vals : Seq(Values), keys : SUBSET Keys]]
  BY <1>0 DEF TypeOK
<1>2. pc[t] \in {"lock", "access", "unlock"}
  BY DEF MultiPutMismatch, LockNext, StartAccess, MultiGetRead, MultiPutWrite,
         EndAccess, UnlockNext, EndUnlock, Accessing
<1>3. ~Scanning(t) /\ req'[t] = req[t]
  BY <1>0, <1>2, NoScan
     DEF MultiPutMismatch, LockNext, StartAccess, MultiGetRead, MultiPutWrite,
         EndAccess, UnlockNext, EndUnlock
<1>4. pc[t] = "lock" => idx[t] = 1
  BY <1>0 DEF Indices
<1>5. pc[t] = "access" => /\ idx[t] >= 1 /\ ~Mismatched(req[t])
                          /\ req[t].op \in SingleOps => idx[t] = 1
  BY <1>0 DEF Indices
<1>6. CASE MultiPutMismatch(t) \/ EndUnlock(t)
  <2>1. /\ pc' = [pc EXCEPT ![t] = "done"]
        /\ UNCHANGED <<store, req, idx, res>>
    BY <1>6 DEF MultiPutMismatch, EndUnlock, Goto
  <2>2. Acts(t) /\ pc'[t] = "done" /\ res'[t].keys = res[t].keys
    BY <1>1, <2>1 DEF Acts
  <2> QED BY <1>3, <2>2, OtherActs
<1>7. CASE LockNext(t) \/ UnlockNext(t)
  <2>1. UNCHANGED <<store, pc, req, idx, res>>
    BY <1>7 DEF LockNext, UnlockNext
  <2>2. Acts(t) /\ res'[t].keys = res[t].keys
    BY <1>1, <2>1 DEF Acts
  <2>3. pc'[t] = pc[t] /\ idx'[t] = idx[t]
    BY <2>1
  <2> QED BY <1>3, <1>4, <1>5, <2>2, <2>3, OtherActs
<1>8. CASE StartAccess(t)
  <2>1. /\ pc' = [pc EXCEPT ![t] = "access"] /\ pc[t] = "lock" /\ ~Mismatched(req[t])
        /\ UNCHANGED <<store, req, idx, res>>
    BY <1>8 DEF StartAccess, Goto
  <2>2. Acts(t) /\ pc'[t] = "access" /\ res'[t].keys = res[t].keys
    BY <1>1, <2>1 DEF Acts
  <2>3. idx'[t] = 1 /\ ~Mismatched(req'[t])
    BY <1>3, <1>4, <2>1
  <2> QED BY <1>3, <2>2, <2>3, OtherActs
<1>9. CASE MultiGetRead(t) /\ store[Key(t)] = Absent
  <2>1. /\ pc' = [pc EXCEPT ![t] = "done"]
        /\ UNCHANGED <<store, req, idx, res>>
    BY <1>9 DEF MultiGetRead, Goto
  <2>2. Acts(t) /\ pc'[t] = "done" /\ res'[t].keys = res[t].keys
    BY <1>1, <2>1 DEF Acts
  <2> QED BY <1>3, <2>2, OtherActs
<1>10. CASE MultiGetRead(t) /\ store[Key(t)] # Absent
  <2>1. /\ res' = [res EXCEPT ![t].vals = Append(res[t].vals, store[Key(t)])]
        /\ idx' = [idx EXCEPT ![t] = idx[t] + 1]
        /\ UNCHANGED <<store, req, pc>>
        /\ pc[t] = "access" /\ req[t].op = "MultiGet" /\ idx[t] <= Len(req[t].keys)
    BY <1>1, <1>10 DEF MultiGetRead, Accessing
  <2>2. store[Key(t)] \in Values
    BY <1>0, <1>10, <2>1, AccessKey
  <2>3. PICK vs \in Seq(Values) : res' = [res EXCEPT ![t].vals = vs]
    <3>1. Append(res[t].vals, store[Key(t)]) \in Seq(Values)
      BY <1>1, <2>2
    <3> QED BY <2>1, <3>1
  <2>4. /\ res' \in [Threads -> [ok : BOOLEAN, vals : Seq(Values), keys : SUBSET Keys]]
        /\ res'[t].keys = res[t].keys
        /\ \A u \in Threads \ {t} : res'[u] = res[u]
    BY <1>1, <2>3
  <2>5. Acts(t)
    BY <1>1, <2>1, <2>4 DEF Acts
  <2>6. idx'[t] >= 1 /\ pc'[t] = "access" /\ req'[t].op \notin SingleOps
    BY <1>1, <1>3, <1>5, <2>1 DEF SingleOps
  <2> QED BY <1>3, <1>5, <2>1, <2>4, <2>5, <2>6, OtherActs
<1>11. CASE MultiPutWrite(t)
  <2>1. /\ store' = [store EXCEPT ![Key(t)] = Val(t)]
        /\ idx' = [idx EXCEPT ![t] = idx[t] + 1]
        /\ UNCHANGED <<req, pc, res>>
        /\ pc[t] = "access" /\ req[t].op = "MultiPut" /\ idx[t] <= Len(req[t].keys)
    BY <1>1, <1>11 DEF MultiPutWrite, Accessing
  <2>2. Val(t) \in Values
    BY <1>0, <2>1, AccessKey
  <2>3. Acts(t) /\ res'[t].keys = res[t].keys
    BY <1>1, <2>1, <2>2 DEF Acts
  <2>4. idx'[t] >= 1 /\ pc'[t] = "access" /\ req'[t].op \notin SingleOps
    BY <1>1, <1>3, <1>5, <2>1 DEF SingleOps
  <2> QED BY <1>3, <1>5, <2>1, <2>3, <2>4, OtherActs
<1>12. CASE EndAccess(t)
  <2>1. /\ res' = [res EXCEPT ![t].ok = TRUE]
        /\ pc' = [pc EXCEPT ![t] = "unlock"]
        /\ UNCHANGED <<store, req, idx>>
    BY <1>12 DEF EndAccess, Goto
  <2>2. /\ res' \in [Threads -> [ok : BOOLEAN, vals : Seq(Values), keys : SUBSET Keys]]
        /\ res'[t].keys = res[t].keys
        /\ \A u \in Threads \ {t} : res'[u] = res[u]
    BY <1>1, <2>1
  <2>3. Acts(t) /\ pc'[t] = "unlock"
    BY <1>1, <2>1, <2>2 DEF Acts
  <2> QED BY <1>3, <2>2, <2>3, OtherActs
<1> QED BY <1>6, <1>7, <1>8, <1>9, <1>10, <1>11, <1>12

\* A call begins: a scan with the keys that are there now.
LEMMA InvokeData ==
    ASSUME DataInv, LockTypes', Track, NEW t \in Threads, NEW r \in Requests, Invoke(t, r)
    PROVE  DataInv'
<1>1. /\ pc \in [Threads -> PCs] /\ idx \in [Threads -> Nat]
      /\ req \in [Threads -> Requests \cup {None}]
      /\ store \in [Keys -> Values \cup {Absent}]
      /\ res \in [Threads -> [ok : BOOLEAN, vals : Seq(Values), keys : SUBSET Keys]]
  BY DEF DataInv, TypeOK
<1>2. /\ pc[t] = "idle" /\ req' = [req EXCEPT ![t] = r] /\ UNCHANGED <<store, res>>
      /\ \/ /\ r.op = "AllKeys" /\ pc' = [pc EXCEPT ![t] = "scan_lock"]
            /\ idx' = [idx EXCEPT ![t] = 0]
         \/ /\ r.op # "AllKeys" /\ pc' = [pc EXCEPT ![t] = "lock"]
            /\ idx' = [idx EXCEPT ![t] = 1]
  BY DEF Invoke, Goto
<1>3. ~Scanning(t) /\ res'[t].keys = {} /\ req'[t] = r /\ r # None
  BY <1>1, <1>2, NoneAssumption DEF DataInv, ScanOK
<1>4. Scanning(t)' <=> r.op = "AllKeys"
  BY <1>3 DEF Scanning
<1>5. Acts(t)
  BY <1>1, <1>2 DEF Acts
<1>6. CASE r.op = "AllKeys"
  <2>1. pc'[t] = "scan_lock" /\ idx'[t] = 0
    BY <1>1, <1>2, <1>6
  <2>2. always'[t] = Present \cap Present' /\ ever'[t] = Present \cup Present'
    BY <1>3, <1>4, <1>6 DEF Track
  <2>3. \A k \in Keys : BucketOf[k] \in Nat /\ ~(BucketOf[k] < 0)
    BY BucketAssumption DEF Buckets
  <2>4. always'[t] \subseteq Keys
    BY <2>2 DEF Present
  <2>5. BucketCount \in Nat /\ 0 <= BucketCount
    BY BucketAssumption
  <2>6. \A k \in always'[t] : ~(BucketOf[k] < idx'[t])
    BY <2>1, <2>3, <2>4
  <2>7. ScanOK(t)'
    BY <1>3, <1>4, <1>6, <2>1, <2>2, <2>5, <2>6 DEF ScanOK
  <2> QED BY <1>5, <2>1, <2>7, ActsKeeps
<1>7. CASE r.op # "AllKeys"
  <2>1. pc'[t] = "lock" /\ idx'[t] = 1
    BY <1>1, <1>2, <1>7
  <2>2. ScanOK(t)'
    BY <1>3, <1>4, <1>7 DEF ScanOK
  <2> QED BY <1>5, <2>1, <2>2, ActsKeeps
<1> QED BY <1>6, <1>7

\* The scan itself: it reads a bucket under its lock, so what it collects is
\* what is there, and its own step changes no key.
LEMMA ScansData ==
    ASSUME DataInv, LockInv, LockTypes', Track, NEW t \in Threads,
           ScanLock(t) \/ ScanBucket(t) \/ ScanEnd(t)
    PROVE  DataInv'
<1>1. /\ pc \in [Threads -> PCs] /\ idx \in [Threads -> Nat]
      /\ store \in [Keys -> Values \cup {Absent}]
      /\ res \in [Threads -> [ok : BOOLEAN, vals : Seq(Values), keys : SUBSET Keys]]
      /\ always \in [Threads -> SUBSET Keys]
  BY DEF DataInv, TypeOK
<1>2. /\ pc[t] \in {"scan_lock", "scan"} /\ UNCHANGED <<store, req>>
  BY DEF ScanLock, ScanBucket, ScanEnd
<1>3. Scanning(t) /\ Scanning(t)'
  BY <1>2, NoneAssumption DEF LockInv, RequestFitsPC, Scanning
<1>4. /\ always[t] \subseteq Present /\ Present \subseteq ever[t]
      /\ res[t].keys \subseteq ever[t]
      /\ \A k \in always[t] : BucketOf[k] < idx[t] => k \in res[t].keys
      /\ idx[t] <= BucketCount
      /\ pc[t] = "scan" => idx[t] < BucketCount
  BY <1>3 DEF DataInv, ScanOK
<1>5. Present' = Present
  BY <1>2 DEF Present
<1>6. always'[t] = always[t] /\ ever'[t] = ever[t]
  BY <1>3, <1>4, <1>5 DEF Track
<1>7. CASE ScanLock(t)
  <2>1. /\ pc' = [pc EXCEPT ![t] = "scan"] /\ UNCHANGED <<idx, res>>
        /\ idx[t] < BucketCount
    BY <1>7 DEF ScanLock, Goto
  <2>2. Acts(t) /\ pc'[t] = "scan"
    BY <1>1, <1>2, <2>1 DEF Acts
  <2>3. ScanOK(t)'
    BY <1>3, <1>4, <1>5, <1>6, <2>1, <2>2 DEF ScanOK
  <2> QED BY <2>2, <2>3, ActsKeeps
<1>8. CASE ScanEnd(t)
  <2>1. /\ pc' = [pc EXCEPT ![t] = "done"] /\ UNCHANGED <<idx, res>>
        /\ idx[t] = BucketCount
    BY <1>8 DEF ScanEnd, Goto
  <2>2. Acts(t) /\ pc'[t] = "done"
    BY <1>1, <1>2, <2>1 DEF Acts
  <2>3. ScanOK(t)'
    BY <1>3, <1>4, <1>5, <1>6, <2>1, <2>2 DEF ScanOK
  <2> QED BY <2>2, <2>3, ActsKeeps
<1>9. CASE ScanBucket(t)
  <2>1. PICK found : found = {k \in Present : BucketOf[k] = idx[t]}
    OBVIOUS
  <2>2. /\ res' = [res EXCEPT ![t].keys = res[t].keys \cup found]
        /\ idx' = [idx EXCEPT ![t] = idx[t] + 1]
        /\ pc' = [pc EXCEPT ![t] = "scan_lock"]
        /\ pc[t] = "scan"
    BY <1>1, <1>9, <2>1 DEF ScanBucket, Goto
  <2>3. found \subseteq Present /\ Present \subseteq Keys
    BY <2>1 DEF Present
  <2>4. PICK all \in SUBSET Keys : all = res[t].keys \cup found
    BY <1>1, <2>3
  <2>5. /\ res' \in [Threads -> [ok : BOOLEAN, vals : Seq(Values), keys : SUBSET Keys]]
        /\ res'[t].keys = all
        /\ \A u \in Threads \ {t} : res'[u] = res[u]
    BY <1>1, <2>2, <2>4
  <2>6. Acts(t) /\ pc'[t] = "scan_lock" /\ idx'[t] = idx[t] + 1
    BY <1>1, <1>2, <2>2, <2>5 DEF Acts
  <2>7. all \subseteq ever[t]
    BY <1>4, <2>3, <2>4
  <2>8. ASSUME NEW k \in always[t], BucketOf[k] < idx[t] + 1 PROVE k \in all
    <3>1. k \in Keys /\ BucketOf[k] \in Nat /\ idx[t] \in Nat
      BY <1>1, BucketAssumption DEF Buckets
    <3>2. CASE BucketOf[k] < idx[t]
      BY <1>4, <2>4, <3>2
    <3>3. CASE BucketOf[k] = idx[t]
      BY <1>4, <2>1, <2>4, <3>3
    <3> QED BY <2>8, <3>1, <3>2, <3>3
  <2>9. idx[t] + 1 <= BucketCount
    BY <1>1, <1>4, <2>2, BucketAssumption
  <2>10. ScanOK(t)'
    BY <1>3, <1>4, <1>5, <1>6, <2>5, <2>6, <2>7, <2>8, <2>9 DEF ScanOK
  <2> QED BY <2>6, <2>10, ActsKeeps
<1> QED BY <1>7, <1>8, <1>9

\* A call returns.
LEMMA ReturnData ==
    ASSUME DataInv, LockTypes', Track, NEW t \in Threads, Return(t)
    PROVE  DataInv'
<1>1. /\ pc \in [Threads -> PCs] /\ idx \in [Threads -> Nat]
      /\ req \in [Threads -> Requests \cup {None}]
      /\ store \in [Keys -> Values \cup {Absent}]
      /\ res \in [Threads -> [ok : BOOLEAN, vals : Seq(Values), keys : SUBSET Keys]]
  BY DEF DataInv, TypeOK
<1>2. NoRes \in [ok : BOOLEAN, vals : Seq(Values), keys : SUBSET Keys] /\ NoRes.keys = {}
  BY DEF NoRes
<1>3. /\ pc' = [pc EXCEPT ![t] = "idle"] /\ req' = [req EXCEPT ![t] = None]
      /\ idx' = [idx EXCEPT ![t] = 0] /\ res' = [res EXCEPT ![t] = NoRes]
      /\ UNCHANGED store
  BY DEF Return, Goto
<1>4. Acts(t) /\ pc'[t] = "idle" /\ req'[t] = None /\ res'[t].keys = {}
  BY <1>1, <1>2, <1>3 DEF Acts
<1>5. ScanOK(t)'
  BY <1>4 DEF ScanOK, Scanning
<1> QED BY <1>4, <1>5, ActsKeeps

\* Every step keeps the types, the loop counters and the soundness of scans.
LEMMA NextData == LockInv /\ LockInv' /\ DataInv /\ [Next]_vars => DataInv'
<1> SUFFICES ASSUME LockInv, LockInv', DataInv, [Next]_vars PROVE DataInv'
  OBVIOUS
<1>1. LockTypes'
  BY DEF LockInv
<1>2. ASSUME NEW t \in Threads, Begin(t) PROVE DataInv'
  BY <1>1, <1>2, InvokeData DEF Begin
<1>3. ASSUME NEW t \in Threads, Step(t) PROVE DataInv'
  <2>1. Track
    BY <1>3 DEF Step
  <2>2. CASE Get(t) \/ Put(t) \/ DoAppend(t) \/ Delete(t)
    BY <1>1, <2>1, <2>2, SinglesData
  <2>3. CASE \/ MultiPutMismatch(t) \/ LockNext(t) \/ StartAccess(t)
             \/ MultiGetRead(t) \/ MultiPutWrite(t) \/ EndAccess(t)
             \/ UnlockNext(t) \/ EndUnlock(t)
    BY <1>1, <2>1, <2>3, LoopsData
  <2>4. CASE ScanLock(t) \/ ScanBucket(t) \/ ScanEnd(t)
    BY <1>1, <2>1, <2>4, ScansData
  <2>5. CASE Return(t)
    BY <1>1, <2>1, <2>5, ReturnData
  <2> QED BY <1>3, <2>2, <2>3, <2>4, <2>5 DEF Step, Act
<1>4. CASE UNCHANGED vars
  <2>1. TypeOK'
    BY <1>4 DEF vars, DataInv, TypeOK
  <2>2. Indices'
    BY <1>4 DEF vars, DataInv, Indices
  <2>3. ASSUME NEW t \in Threads PROVE ScanOK(t)'
    <3>1. ScanOK(t)
      BY DEF DataInv
    <3> QED BY <1>4, <3>1 DEF vars, ScanOK, Scanning, Present
  <2> QED BY <2>1, <2>2, <2>3 DEF DataInv
<1> QED BY <1>2, <1>3, <1>4 DEF Next

\* The data invariant holds in every reachable state.
LEMMA DataInvariance == Spec => []DataInv
BY InitData, LockInvariance, NextData, PTL DEF Spec

\* Every variable keeps its type whatever the calls, values included: what a
\* call answers is a sequence of values that were in the store, and what it
\* stores is a value that a request carried or a concatenation of such.
THEOREM TypeCorrect == Spec => []TypeOK
<1>1. DataInv => TypeOK
  BY DEF DataInv
<1> QED BY <1>1, DataInvariance, PTL

\* AllKeys, which locks one bucket at a time, returns every key that was present
\* all the time it ran and none that never was, with any number of buckets and
\* of threads that insert and delete behind and ahead of it.
THEOREM AllKeysTheorem == Spec => []AllKeysSound
<1>1. DataInv => AllKeysSound
  <2> SUFFICES ASSUME DataInv, NEW t \in Threads, pc[t] = "done", Scanning(t)
               PROVE  always[t] \subseteq res[t].keys /\ res[t].keys \subseteq ever[t]
    BY DEF AllKeysSound
  <2>1. /\ res[t].keys \subseteq ever[t] /\ idx[t] = BucketCount
        /\ \A k \in always[t] : BucketOf[k] < idx[t] => k \in res[t].keys
    BY DEF DataInv, ScanOK
  <2>2. always[t] \subseteq Keys
    BY DEF DataInv, TypeOK
  <2>3. \A k \in Keys : BucketOf[k] < BucketCount
    BY BucketAssumption DEF Buckets
  <2> QED BY <2>1, <2>2, <2>3
<1> QED BY <1>1, DataInvariance, PTL
-----------------------------------------------------------------------------
(* Linearizability.  What a request does to a store and answers, key by    *)
(* key.                                                                    *)

\* A value for every key.
IsStore(m) == m = [k \in Keys |-> m[k]]
\* What KvStore says that a request does to a store, and answers.
Effect(m, r) == Semantics!Effect(m, r)
Reply(m, r) == Semantics!Reply(m, r)

\* Induction over positions goes by the least counterexample.
LEMMA LessWellFounded == IsWellFoundedOn({p \in Nat \X Nat : p[1] < p[2]}, Nat)
BY NatLessThanWellFounded DEF OpToRel

\* Position i is the last one of key k.
IsLast(keys, k, i) ==
    i \in DOMAIN keys /\ keys[i] = k /\ \A j \in DOMAIN keys : keys[j] = k => j <= i

\* A key that a sequence has, has a last position in it.
LEMMA LastPosition ==
    ASSUME NEW keys \in Seq(Keys), NEW k, \E i \in DOMAIN keys : keys[i] = k
    PROVE  \E i \in DOMAIN keys : IsLast(keys, k, i)
<1>1. PICK n \in Nat : n = Len(keys) /\ DOMAIN keys = 1..n
  OBVIOUS
<1>2. PICK S : S = {n - i : i \in {j \in 1..n : keys[j] = k}}
  OBVIOUS
<1>3. S \in SUBSET Nat /\ S # {}
  BY <1>1, <1>2
<1>4. PICK x \in S : \A y \in S : <<y, x>> \notin {p \in Nat \X Nat : p[1] < p[2]}
  BY <1>3, LessWellFounded, WFMin
<1>5. PICK i \in 1..n : keys[i] = k /\ x = n - i
  BY <1>2, <1>4
<1>6. ASSUME NEW j \in 1..n, keys[j] = k PROVE j <= i
  <2>1. n - j \in S /\ n - j \in Nat /\ n - i \in Nat
    BY <1>1, <1>2, <1>3, <1>5, <1>6
  <2>2. ~(n - j < n - i)
    BY <1>4, <1>5, <2>1
  <2>3. n \in Nat /\ i \in Nat /\ j \in Nat
    BY <1>1, <1>5
  <2> QED BY <2>2, <2>3
<1> QED BY <1>1, <1>5, <1>6 DEF IsLast

\* The value that the last position assigns.
LEMMA Assigned ==
    ASSUME NEW m, NEW keys \in Seq(Keys), NEW vals, NEW k \in Keys, NEW i,
           IsLast(keys, k, i)
    PROVE  Semantics!Assign(m, keys, vals)[k] = vals[i]
<1>1. PICK c : c = CHOOSE h \in DOMAIN keys :
                 keys[h] = k /\ \A j \in DOMAIN keys : keys[j] = k => j <= h
  OBVIOUS
<1>2. c \in DOMAIN keys /\ keys[c] = k /\ \A j \in DOMAIN keys : keys[j] = k => j <= c
  BY <1>1 DEF IsLast
<1>3. c = i
  <2>1. c <= i /\ i <= c /\ c \in Nat /\ i \in Nat
    BY <1>2 DEF IsLast
  <2> QED BY <2>1
<1> QED BY <1>1, <1>2, <1>3 DEF Semantics!Assign

\* A key that is not named keeps its value.
LEMMA NotAssigned ==
    ASSUME NEW m, NEW keys, NEW vals, NEW k \in Keys, \A i \in DOMAIN keys : keys[i] # k
    PROVE  Semantics!Assign(m, keys, vals)[k] = m[k]
BY DEF Semantics!Assign

\* A request leaves alone the keys it does not name.
LEMMA EffectFrame ==
    ASSUME NEW m, IsStore(m), NEW r \in Requests, NEW k \in Keys,
           \A i \in DOMAIN r.keys : r.keys[i] # k
    PROVE  Effect(m, r)[k] = m[k]
<1>1. r.op \in {"Append", "Delete"} => 1 \in DOMAIN r.keys
  BY RequestAssumption DEF SingleOps
<1>2. Semantics!Assign(m, r.keys, r.vals)[k] = m[k]
  BY NotAssigned
<1> QED BY <1>1, <1>2 DEF Effect, Semantics!Effect, IsStore

\* What becomes of a key depends on that key only.
LEMMA EffectLocal ==
    ASSUME NEW m, IsStore(m), NEW m2, IsStore(m2), NEW r, NEW k \in Keys, m[k] = m2[k]
    PROVE  Effect(m, r)[k] = Effect(m2, r)[k]
<1>1. Semantics!Assign(m, r.keys, r.vals)[k] = Semantics!Assign(m2, r.keys, r.vals)[k]
  BY DEF Semantics!Assign
<1> QED BY <1>1 DEF Effect, Semantics!Effect, IsStore

\* A request that does not write has no effect.
LEMMA EffectOfRead ==
    ASSUME NEW m, NEW r, ~Writes(r) \/ Mismatched(r)
    PROVE  Effect(m, r) = m
BY DEF Effect, Semantics!Effect, Semantics!WellFormed, Writes, Mismatched

\* An effect is a store.
LEMMA EffectDomain ==
    ASSUME NEW m, IsStore(m), NEW r
    PROVE  Effect(m, r) = [k \in Keys |-> Effect(m, r)[k]]
<1>1. Semantics!Assign(m, r.keys, r.vals) =
        [k \in Keys |-> Semantics!Assign(m, r.keys, r.vals)[k]]
  BY DEF Semantics!Assign
<1>2. PICK v : v = IF m[r.keys[1]] = Absent THEN r.vals[1] ELSE m[r.keys[1]] \o r.vals[1]
  OBVIOUS
<1>3. CASE r.op = "Put" \/ (r.op = "MultiPut" /\ Semantics!WellFormed(r))
  BY <1>1, <1>3 DEF Effect, Semantics!Effect
<1>4. CASE r.op = "Append"
  <2>1. Effect(m, r) = [m EXCEPT ![r.keys[1]] = v]
    BY <1>2, <1>4 DEF Effect, Semantics!Effect, IsStore
  <2> QED BY <2>1 DEF IsStore
<1>5. CASE r.op = "Delete"
  <2>1. Effect(m, r) = [m EXCEPT ![r.keys[1]] = Absent]
    BY <1>5 DEF Effect, Semantics!Effect
  <2> QED BY <2>1 DEF IsStore
<1>6. CASE ~(r.op = "Put" \/ (r.op = "MultiPut" /\ Semantics!WellFormed(r))
             \/ r.op = "Append" \/ r.op = "Delete")
  <2>1. Effect(m, r) = m
    BY <1>6 DEF Effect, Semantics!Effect
  <2> QED BY <2>1 DEF IsStore
<1> QED BY <1>3, <1>4, <1>5, <1>6

\* What a request answers depends on the keys it names.
LEMMA ReplyLocal ==
    ASSUME NEW m, NEW m2, NEW r, r.op # "AllKeys",
           \A i \in DOMAIN r.keys : m[r.keys[i]] = m2[r.keys[i]]
    PROVE  Reply(m, r) = Reply(m2, r)
<1>1. Semantics!Succeeds(m, r) <=> Semantics!Succeeds(m2, r)
  BY DEF Semantics!Succeeds
<1>2. [i \in DOMAIN r.keys |-> m[r.keys[i]]] = [i \in DOMAIN r.keys |-> m2[r.keys[i]]]
  OBVIOUS
<1>3. Semantics!Succeeds(m, r) = Semantics!Succeeds(m2, r)
  BY <1>1 DEF Semantics!Succeeds
<1> QED BY <1>2, <1>3 DEF Reply, Semantics!Reply

\* ks2 and vs2 are the n elements of ks and vs behind the first one, which m2
\* has assigned, as far as k tells.
Follows(n, k, m, m2, ks, ks2, vs, vs2) ==
    /\ n \in Nat /\ k \in Keys /\ ks \in Seq(Keys) /\ ks2 \in Seq(Keys)
    /\ ks[1] = k => m2[k] = vs[1]
    /\ ks[1] # k => m2[k] = m[k]
    /\ DOMAIN ks = 1..(n + 1) /\ DOMAIN ks2 = 1..n
    /\ \A j \in 1..n : ks2[j] = ks[j + 1] /\ vs2[j] = vs[j + 1]

\* Assigning the first key and then the others is assigning them all.
LEMMA AssignTail ==
    ASSUME NEW n, NEW k, NEW m, NEW m2, NEW ks, NEW ks2, NEW vs, NEW vs2,
           Follows(n, k, m, m2, ks, ks2, vs, vs2)
    PROVE  Semantics!Assign(m, ks, vs)[k] = Semantics!Assign(m2, ks2, vs2)[k]
<1> USE DEF Follows
<1>1. \A j \in DOMAIN ks :
         j # 1 => j - 1 \in DOMAIN ks2 /\ j \in Nat /\ ks[j] = ks2[j - 1]
  <2> TAKE j \in DOMAIN ks
  <2>1. j \in 1..(n + 1)
    OBVIOUS
  <2>2. CASE j # 1
    <3>1. j - 1 \in 1..n /\ j \in Nat /\ (j - 1) + 1 = j
      BY <2>1, <2>2
    <3> QED BY <3>1
  <2> QED BY <2>2
<1>2. 1 \in DOMAIN ks /\ \A j \in DOMAIN ks2 : j \in Nat /\ j + 1 \in DOMAIN ks
  OBVIOUS
<1>3. CASE \E j \in DOMAIN ks2 : ks2[j] = k
  <2>1. PICK g \in DOMAIN ks2 : IsLast(ks2, k, g)
    BY <1>3, LastPosition
  <2>2. g \in 1..n /\ ks2[g] = k /\ \A j \in DOMAIN ks2 : ks2[j] = k => j <= g
    BY <2>1 DEF IsLast
  <2>3. ASSUME NEW j \in DOMAIN ks, ks[j] = k PROVE j <= g + 1
    BY <1>1, <2>2, <2>3
  <2>4. IsLast(ks, k, g + 1)
    BY <1>2, <2>2, <2>3 DEF IsLast
  <2>5. Semantics!Assign(m2, ks2, vs2)[k] = vs2[g]
    BY <2>1, Assigned
  <2>6. Semantics!Assign(m, ks, vs)[k] = vs[g + 1]
    BY <2>4, Assigned
  <2> QED BY <2>2, <2>5, <2>6
<1>4. CASE (\A j \in DOMAIN ks2 : ks2[j] # k) /\ ks[1] = k
  <2>0. ASSUME NEW j \in DOMAIN ks, ks[j] = k PROVE j <= 1
    <3>1. j = 1
      BY <1>1, <1>4, <2>0
    <3> QED BY <3>1
  <2>1. IsLast(ks, k, 1)
    BY <1>2, <1>4, <2>0 DEF IsLast
  <2>2. Semantics!Assign(m, ks, vs)[k] = vs[1]
    BY <2>1, Assigned
  <2>3. Semantics!Assign(m2, ks2, vs2)[k] = m2[k]
    BY <1>4, NotAssigned
  <2> QED BY <1>4, <2>2, <2>3
<1>5. CASE (\A j \in DOMAIN ks2 : ks2[j] # k) /\ ks[1] # k
  <2>1. \A j \in DOMAIN ks : ks[j] # k
    BY <1>1, <1>5
  <2>2. Semantics!Assign(m, ks, vs)[k] = m[k]
    BY <2>1, NotAssigned
  <2>3. Semantics!Assign(m2, ks2, vs2)[k] = m2[k]
    BY <1>5 DEF Semantics!Assign
  <2> QED BY <1>5, <2>2, <2>3
<1> QED BY <1>3, <1>4, <1>5

\* a and b are what is left of a sequence at i and at the next position.
AreTails(S, s, i, l, a, b) ==
    /\ a \in Seq(S) /\ b \in Seq(S) /\ l \in Nat /\ l = Len(s) - i
    /\ Len(a) = l + 1 /\ Len(b) = l /\ a[1] = s[i]
    /\ \A j \in 1..l : a[j + 1] = b[j]

\* SubSeq yields them.
LEMMA Tails ==
    ASSUME NEW S, NEW s \in Seq(S), NEW i \in Nat, i \in 1..Len(s)
    PROVE  AreTails(S, s, i, Len(s) - i, SubSeq(s, i, Len(s)), SubSeq(s, i + 1, Len(s)))
<1>1. PICK n \in Nat : n = Len(s) /\ i \in 1..n
  OBVIOUS
<1>2. PICK l \in Nat : l = n - i
  <2>1. n - i \in Nat
    BY <1>1
  <2> QED BY <2>1
<1>3. PICK a, b : a = SubSeq(s, i, n) /\ b = SubSeq(s, i + 1, n)
  OBVIOUS
<1>4. a \in Seq(S) /\ b \in Seq(S) /\ Len(a) = l + 1 /\ Len(b) = l
  BY <1>1, <1>2, <1>3
<1>5. a[1] = s[i] /\ \A j \in 1..l : a[j + 1] = b[j]
  BY <1>1, <1>2, <1>3
<1>6. AreTails(S, s, i, l, a, b)
  BY <1>1, <1>2, <1>4, <1>5 DEF AreTails
<1> QED BY <1>1, <1>2, <1>3, <1>6

\* m2 is m after the iteration of MultiPut's loop at i, as far as k tells.
Assigns(m, m2, keys, vals, i, k) ==
    /\ keys \in Seq(Keys) /\ vals \in Seq(Values) /\ Len(keys) = Len(vals)
    /\ i \in Nat /\ i \in 1..Len(keys) /\ k \in Keys
    /\ keys[i] = k => m2[k] = vals[i]
    /\ keys[i] # k => m2[k] = m[k]

\* After an iteration, what is left to assign yields the same.
LEMMA AssignStep ==
    ASSUME NEW m, NEW m2, NEW keys, NEW vals, NEW i, NEW k, Assigns(m, m2, keys, vals, i, k)
    PROVE  Semantics!Assign(m, SubSeq(keys, i, Len(keys)), SubSeq(vals, i, Len(vals)))[k] =
           Semantics!Assign(m2, SubSeq(keys, i + 1, Len(keys)), SubSeq(vals, i + 1, Len(vals)))[k]
<1>0. /\ keys \in Seq(Keys) /\ vals \in Seq(Values) /\ Len(keys) = Len(vals)
      /\ i \in Nat /\ i \in 1..Len(keys) /\ k \in Keys
      /\ (keys[i] = k => m2[k] = vals[i])
      /\ (keys[i] # k => m2[k] = m[k])
  BY DEF Assigns
<1>1. PICK ks, ks2, vs, vs2 :
        /\ ks = SubSeq(keys, i, Len(keys)) /\ ks2 = SubSeq(keys, i + 1, Len(keys))
        /\ vs = SubSeq(vals, i, Len(vals)) /\ vs2 = SubSeq(vals, i + 1, Len(vals))
  OBVIOUS
<1>2. PICK l : l = Len(keys) - i
  OBVIOUS
<1>3. AreTails(Keys, keys, i, l, ks, ks2) /\ AreTails(Values, vals, i, l, vs, vs2)
  BY <1>0, <1>1, <1>2, Tails
<1>4. Follows(l, k, m, m2, ks, ks2, vs, vs2)
  BY <1>0, <1>3 DEF Follows, AreTails
<1> QED BY <1>1, <1>4, AssignTail

-----------------------------------------------------------------------------
(* What the mapping says of a state.                                       *)

\* Call t is about to finish writing, or has begun to write, the bucket of k.
Writing(t, k) == pc[t] = "access" /\ Writes(req[t]) /\ BucketOf[k] \in held[t]

\* The abstract store, key by key: what the call that writes a key will have
\* made of it, or what is there.
ViewOK ==
    /\ \A t \in Threads, k \in Keys :
          Writing(t, k) => AbstractStore[k] = Effect(store, Rest(t))[k]
    /\ \A k \in Keys : (\A t \in Threads : ~Writing(t, k)) => AbstractStore[k] = store[k]
    /\ \A t, u \in Threads, k \in Keys : Writing(t, k) /\ Writing(u, k) => t = u

\* What a call has answered before it is done, and that an idle thread has none.
Answers ==
    \A t \in Threads :
        /\ pc[t] = "idle" => req[t] = None
        /\ pc[t] \in {"idle", "lock"} => res[t] = NoRes
        /\ pc[t] = "access" =>
              /\ ~res[t].ok
              /\ req[t].op # "MultiGet" => res[t].vals = <<>>

\* The invariant of the refinement.
LinInv == LockInv /\ DataInv /\ Answers /\ ViewOK

\* One call at most writes a bucket, so the abstract store is well defined.
LEMMA View == LockInv => ViewOK
<1> SUFFICES ASSUME LockInv PROVE ViewOK
  OBVIOUS
<1>1. ASSUME NEW t \in Threads, NEW u \in Threads, NEW k \in Keys, Writing(t, k), Writing(u, k)
      PROVE  t = u
  <2>1. Owns(t, BucketOf[k]) /\ Owns(u, BucketOf[k])
    BY <1>1 DEF Writing, LockInv, HeldIsOwned, Owning
  <2>2. Exclusive(req[t]) /\ Exclusive(req[u])
    BY <1>1 DEF Writing, Writes, Exclusive
  <2> QED BY <2>1, <2>2 DEF Owns
<1>2. ASSUME NEW t \in Threads, NEW k \in Keys, Writing(t, k)
      PROVE  AbstractStore[k] = Effect(store, Rest(t))[k]
  <2>1. PICK c : c = CHOOSE u \in Threads : /\ pc[u] = "access"
                                            /\ Writes(req[u])
                                            /\ BucketOf[k] \in held[u]
    OBVIOUS
  <2>2. c \in Threads /\ Writing(c, k)
    BY <1>2, <2>1 DEF Writing
  <2>3. c = t
    BY <1>1, <1>2, <2>2
  <2> QED BY <1>2, <2>1, <2>3 DEF AbstractStore, Writing, Effect
<1>3. ASSUME NEW k \in Keys, \A t \in Threads : ~Writing(t, k)
      PROVE  AbstractStore[k] = store[k]
  BY <1>3 DEF AbstractStore, Writing
<1> QED BY <1>1, <1>2, <1>3 DEF ViewOK

\* At its first key, what is left of a request is the request.
LEMMA RestWhole ==
    ASSUME NEW t \in Threads, req[t] \in Requests, idx[t] = 1
    PROVE  Rest(t) = req[t]
<1>1. PICK r \in Requests : r = req[t]
  OBVIOUS
<1>2. r \in [op : Ops, keys : Seq(Keys), vals : Seq(Values)]
  BY RequestAssumption
<1>3. PICK o \in Ops, ks \in Seq(Keys), vs \in Seq(Values) :
        r = [op |-> o, keys |-> ks, vals |-> vs]
  BY <1>2
<1>4. SubSeq(ks, 1, Len(ks)) = ks /\ SubSeq(vs, 1, Len(vs)) = vs
  OBVIOUS
<1> QED BY <1>1, <1>3, <1>4 DEF Rest

\* What a call still has to access is among what it has locked.
LEMMA RestKeys ==
    ASSUME LockInv, DataInv, NEW t \in Threads, pc[t] = "access"
    PROVE  /\ Rest(t).op = req[t].op /\ req[t].op # "AllKeys" /\ req[t] \in Requests
           /\ \A i \in DOMAIN Rest(t).keys : /\ Rest(t).keys[i] \in Keys
                                             /\ BucketOf[Rest(t).keys[i]] \in held[t]
<1>1. PICK r \in Requests : r = req[t]
  BY DEF LockInv, RequestFitsPC
<1>2. r.keys \in Seq(Keys) /\ idx[t] \in Nat /\ idx[t] >= 1
  BY RequestAssumption DEF DataInv, Indices, TypeOK
<1>3. PICK n \in Nat, ks \in Seq(Keys) : n = Len(r.keys) /\ ks = r.keys /\ DOMAIN ks = 1..n
  BY <1>2
<1>4. Rest(t).keys = SubSeq(ks, idx[t], n) /\ Rest(t).op = r.op
  BY <1>1, <1>3 DEF Rest
<1>5. ASSUME NEW i \in DOMAIN SubSeq(ks, idx[t], n)
      PROVE  \E j \in DOMAIN ks : SubSeq(ks, idx[t], n)[i] = ks[j]
  <2>1. i \in 1..(n - idx[t] + 1) /\ n \in Nat /\ idx[t] \in Nat
    BY <1>2, <1>3, <1>5
  <2>2. idx[t] + i - 1 \in 1..n
    BY <1>2, <2>1
  <2>3. SubSeq(ks, idx[t], n)[i] = ks[idx[t] + i - 1]
    BY <1>2, <1>3, <2>1
  <2> QED BY <1>3, <2>2, <2>3
<1>6. \A j \in DOMAIN ks : ks[j] \in Keys /\ BucketOf[ks[j]] \in held[t]
  BY <1>1, <1>3 DEF LockInv, TouchesHeld, Needed
<1>7. r.op # "AllKeys"
  BY <1>1 DEF LockInv, RequestFitsPC
<1> QED BY <1>1, <1>4, <1>5, <1>6, <1>7

\* A bucket that a call has locked is written by no other.
LEMMA Guarded ==
    ASSUME LockInv, NEW t \in Threads, NEW u \in Threads, t # u, pc[u] \in Owning,
           NEW k \in Keys, BucketOf[k] \in held[u]
    PROVE  ~Writing(t, k)
<1> SUFFICES ASSUME Writing(t, k) PROVE FALSE
  OBVIOUS
<1>1. Owns(t, BucketOf[k]) /\ Owns(u, BucketOf[k])
  BY DEF Writing, LockInv, HeldIsOwned, Owning
<1>2. Exclusive(req[t]) /\ BucketOf[k] \in Buckets
  BY BucketAssumption DEF Writing, Writes, Exclusive
<1>3. writer[BucketOf[k]] = t
  BY <1>1, <1>2 DEF Owns
<1>4. readers[BucketOf[k]] = {}
  BY <1>2, <1>3, NoneAssumption DEF LockInv, WriterExcludesReaders
<1> QED BY <1>1, <1>3, <1>4 DEF Owns

-----------------------------------------------------------------------------
(* What the steps of one call leave alone of the others.                   *)

\* A step of t alone.
Quiet(t) ==
    \A u \in Threads \ {t} : /\ pc'[u] = pc[u] /\ req'[u] = req[u] /\ idx'[u] = idx[u]
                             /\ res'[u] = res[u] /\ held'[u] = held[u]

\* A call changes only keys it has locked exclusively.
WritesLocked(t) == \A k \in Keys : store'[k] # store[k] => Writing(t, k)

\* The other calls show what they did, and the keys they write too.
LEMMA OthersKeep ==
    ASSUME LinInv, LinInv', NEW t \in Threads, Quiet(t), WritesLocked(t),
           NEW u \in Threads, u # t
    PROVE  /\ AbstractCall'[u] = AbstractCall[u] /\ AbstractReply'[u] = AbstractReply[u]
           /\ \A k \in Keys : Writing(u, k)' <=> Writing(u, k)
           /\ \A k \in Keys : Writing(u, k) => AbstractStore'[k] = AbstractStore[k]
<1>1. /\ pc'[u] = pc[u] /\ req'[u] = req[u] /\ idx'[u] = idx[u]
      /\ res'[u] = res[u] /\ held'[u] = held[u]
  BY DEF Quiet
<1>2. Rest(u)' = Rest(u) /\ Scanning(u)' = Scanning(u)
  BY <1>1 DEF Rest, Scanning
<1>3. AbstractCall'[u] = AbstractCall[u]
  BY <1>1, <1>2 DEF AbstractCall
<1>4. \A k \in Keys : Writing(u, k)' <=> Writing(u, k)
  BY <1>1 DEF Writing
<1>5. pc[u] = "access" => \A k \in Keys : BucketOf[k] \in held[u] => store'[k] = store[k]
  BY Guarded DEF WritesLocked, LinInv, Owning
<1>6. pc[u] = "access" => Reply(store', Rest(u)) = Reply(store, Rest(u))
  BY <1>5, RestKeys, ReplyLocal DEF LinInv
<1>7. AbstractReply'[u] = AbstractReply[u]
  <2>1. pc[u] = "access" => Semantics!Reply(store', Rest(u)') = Semantics!Reply(store, Rest(u))
    BY <1>2, <1>6 DEF Reply
  <2> QED BY <1>1, <1>2, <2>1 DEF AbstractReply
<1>8. ASSUME NEW k \in Keys, Writing(u, k) PROVE AbstractStore'[k] = AbstractStore[k]
  <2>1. store'[k] = store[k]
    BY <1>5, <1>8 DEF Writing
  <2>2. IsStore(store) /\ IsStore(store')
    BY DEF LinInv, DataInv, TypeOK, IsStore
  <2>3. AbstractStore[k] = Effect(store, Rest(u))[k]
    BY <1>8 DEF LinInv, ViewOK
  <2>4. AbstractStore'[k] = Effect(store', Rest(u)')[k]
    BY <1>4, <1>8 DEF LinInv, ViewOK
  <2> QED BY <1>2, <2>1, <2>2, <2>3, <2>4, EffectLocal
<1> QED BY <1>3, <1>4, <1>7, <1>8

\* A key that the call does not write keeps its abstract value.
LEMMA OtherKeysKeep ==
    ASSUME LinInv, LinInv', NEW t \in Threads, Quiet(t), WritesLocked(t),
           NEW k \in Keys, ~Writing(t, k), ~Writing(t, k)'
    PROVE  AbstractStore'[k] = AbstractStore[k]
<1>1. CASE \E u \in Threads : u # t /\ Writing(u, k)
  BY <1>1, OthersKeep
<1>2. CASE \A u \in Threads : u # t => ~Writing(u, k)
  <2>1. \A u \in Threads : ~Writing(u, k) /\ ~Writing(u, k)'
    BY <1>2, OthersKeep
  <2>2. AbstractStore[k] = store[k] /\ AbstractStore'[k] = store'[k]
    BY <2>1 DEF LinInv, ViewOK
  <2> QED BY <2>2 DEF WritesLocked
<1> QED BY <1>1, <1>2

\* A key that the call is done with has in the abstract store the value it has.
LEMMA DoneWriting ==
    ASSUME LinInv, LinInv', NEW t \in Threads, Quiet(t), WritesLocked(t),
           NEW k \in Keys, Writing(t, k), ~Writing(t, k)'
    PROVE  AbstractStore'[k] = store'[k]
<1>1. ASSUME NEW u \in Threads PROVE ~Writing(u, k)'
  <2>1. CASE u # t
    <3>1. ~Writing(u, k)
      BY <2>1 DEF LinInv, ViewOK
    <3> QED BY <2>1, <3>1, OthersKeep
  <2> QED BY <2>1
<1> QED BY <1>1 DEF LinInv, ViewOK

\* A step that changes nothing of what the call itself shows is a stutter.
LEMMA Stutters ==
    ASSUME LinInv, LinInv', NEW t \in Threads, Quiet(t), WritesLocked(t),
           AbstractCall'[t] = AbstractCall[t], AbstractReply'[t] = AbstractReply[t],
           \A k \in Keys : Writing(t, k) \/ Writing(t, k)' => AbstractStore'[k] = AbstractStore[k]
    PROVE  UNCHANGED Abstract!vars
<1>1. \A k \in Keys : AbstractStore'[k] = AbstractStore[k]
  BY OtherKeysKeep
<1>2. AbstractStore' = AbstractStore
  BY <1>1 DEF AbstractStore
<1>3. \A u \in Threads : AbstractCall'[u] = AbstractCall[u] /\ AbstractReply'[u] = AbstractReply[u]
  BY OthersKeep
<1>4. AbstractCall' = AbstractCall
  BY <1>3 DEF AbstractCall
<1>5. AbstractReply' = AbstractReply
  BY <1>3 DEF AbstractReply
<1> QED BY <1>2, <1>4, <1>5 DEF Abstract!vars

-----------------------------------------------------------------------------
(* The steps.                                                              *)

\* The steps outside the accesses: locking, unlocking and scanning show nothing.
LEMMA SilentSteps ==
    ASSUME LinInv, LinInv', NEW t \in Threads,
           \/ LockNext(t) \/ UnlockNext(t) \/ EndUnlock(t)
           \/ ScanLock(t) \/ ScanBucket(t) \/ ScanEnd(t)
    PROVE  UNCHANGED Abstract!vars
<1>1. /\ pc \in [Threads -> PCs] /\ idx \in [Threads -> Nat] /\ held \in [Threads -> SUBSET Buckets]
      /\ res \in [Threads -> [ok : BOOLEAN, vals : Seq(Values), keys : SUBSET Keys]]
      /\ RequestFitsPC
  BY DEF LinInv, LockInv, DataInv, TypeOK
<1>2. req' = req /\ store' = store
  BY DEF LockNext, UnlockNext, EndUnlock, ScanLock, ScanBucket, ScanEnd
<1>3. WritesLocked(t)
  BY <1>2 DEF WritesLocked
<1>4. Quiet(t)
  BY <1>1, <1>2 DEF LockNext, UnlockNext, EndUnlock, ScanLock, ScanBucket, ScanEnd, Quiet, Goto
<1>5. /\ pc[t] # "access" /\ pc'[t] # "access"
      /\ \/ Scanning(t)
         \/ pc[t] = "lock" /\ pc'[t] = "lock"
         \/ pc[t] = "unlock" /\ pc'[t] \in {"unlock", "done"} /\ res' = res
  BY <1>1, NoneAssumption
     DEF LockNext, UnlockNext, EndUnlock, ScanLock, ScanBucket, ScanEnd, Goto,
         RequestFitsPC, Scanning
<1>6. Scanning(t)' = Scanning(t)
  BY <1>2 DEF Scanning
<1>7. AbstractCall'[t] = AbstractCall[t]
  BY <1>2, <1>6 DEF AbstractCall
<1>8. AbstractReply'[t] = AbstractReply[t]
  BY <1>5, <1>6 DEF AbstractReply
<1>9. \A k \in Keys : ~Writing(t, k) /\ ~Writing(t, k)'
  BY <1>5 DEF Writing
<1> QED BY <1>3, <1>4, <1>7, <1>8, <1>9, Stutters

\* A request that is performed while t has, or has given up, all its locks.
LEMMA Performs ==
    ASSUME LinInv, LinInv', NEW t \in Threads, Quiet(t), store' = store, req' = req,
           pc[t] = "lock", AbstractReply'[t] = Reply(AbstractStore, req[t]),
           \A k \in Keys : AbstractStore'[k] = Effect(AbstractStore, req[t])[k]
    PROVE  Abstract!Perform(t)
<1>1. ~Scanning(t) /\ ~Scanning(t)' /\ req[t] # None
  BY NoneAssumption DEF LinInv, LockInv, RequestFitsPC, Scanning
<1>2. AbstractCall[t] = req[t] /\ AbstractReply[t] = None
  BY <1>1 DEF AbstractCall, AbstractReply
<1>3. WritesLocked(t)
  BY DEF WritesLocked
<1>4. \A u \in Threads \ {t} :
         AbstractCall'[u] = AbstractCall[u] /\ AbstractReply'[u] = AbstractReply[u]
  BY <1>3, OthersKeep
<1>5. AbstractCall' = AbstractCall
  <2>1. AbstractCall'[t] = AbstractCall[t]
    BY <1>1 DEF AbstractCall
  <2> QED BY <1>4, <2>1 DEF AbstractCall
<1>6. AbstractReply' = [AbstractReply EXCEPT ![t] = Reply(AbstractStore, req[t])]
  BY <1>4 DEF AbstractReply
<1>7. AbstractStore' = Effect(AbstractStore, req[t])
  <2>1. IsStore(AbstractStore)
    BY DEF IsStore, AbstractStore
  <2>2. Effect(AbstractStore, req[t]) = [k \in Keys |-> Effect(AbstractStore, req[t])[k]]
    BY <2>1, EffectDomain
  <2>3. AbstractStore' = [k \in Keys |-> AbstractStore'[k]]
    BY DEF AbstractStore
  <2> QED BY <2>2, <2>3
<1>8. Effect(AbstractStore, req[t]) = Abstract!Effect(AbstractStore, AbstractCall[t])
  BY <1>2 DEF Effect, Semantics!Effect, Semantics!Assign, Semantics!WellFormed,
              Abstract!Effect, Abstract!Assign, Abstract!WellFormed
<1>9. Reply(AbstractStore, req[t]) = Abstract!Reply(AbstractStore, AbstractCall[t])
  BY <1>2 DEF Reply, Semantics!Reply, Semantics!Succeeds, Semantics!Reads,
              Semantics!WellFormed, Semantics!Present, Abstract!Reply, Abstract!Succeeds,
              Abstract!Reads, Abstract!WellFormed, Abstract!Present
<1> QED BY <1>1, <1>2, <1>5, <1>6, <1>7, <1>8, <1>9 DEF Abstract!Perform

\* The shape of an answer.
LEMMA ReplyShape ==
    ASSUME DataInv, NEW r, r.keys \in Seq(Keys), r.op # "AllKeys"
    PROVE  /\ Reply(store, r).ok \in BOOLEAN
           /\ Reply(store, r).vals \in Seq(Values \cup {Absent})
           /\ ~Reply(store, r).ok => Reply(store, r).vals = <<>>
           /\ Reply(store, r).keys = {}
           /\ Reply(store, r) = [ok |-> Reply(store, r).ok, vals |-> Reply(store, r).vals,
                                 keys |-> {}]
<1>1. PICK ok \in BOOLEAN : ok = Semantics!Succeeds(store, r)
  BY DEF Semantics!Succeeds, Semantics!WellFormed
<1>2. PICK vs : vs = [i \in DOMAIN r.keys |-> store[r.keys[i]]]
  OBVIOUS
<1>3. vs \in Seq(Values \cup {Absent})
  <2>1. PICK n \in Nat : DOMAIN r.keys = 1..n
    OBVIOUS
  <2>2. \A i \in 1..n : store[r.keys[i]] \in Values \cup {Absent}
    BY <2>1 DEF DataInv, TypeOK
  <2> QED BY <1>2, <2>1, <2>2
<1>4. PICK ws : ws = IF ok /\ Semantics!Reads(r) THEN vs ELSE <<>>
  OBVIOUS
<1>5. Reply(store, r) = [ok |-> ok, vals |-> ws, keys |-> {}]
  BY <1>1, <1>2, <1>4 DEF Reply, Semantics!Reply
<1> QED BY <1>3, <1>4, <1>5

\* What a call that accesses its keys, and has read none, is bound to answer.
LEMMA ReplyAtFirst ==
    ASSUME LinInv, NEW t \in Threads, pc[t] = "access", res[t].vals = <<>>, idx[t] = 1
    PROVE  AbstractReply[t] = Reply(store, req[t])
<1>1. Rest(t) = req[t] /\ req[t].op # "AllKeys" /\ ~Scanning(t) /\ req[t] \in Requests
  BY RestWhole, NoScan DEF LinInv, LockInv, RequestFitsPC
<1>2. PICK rest : rest = Reply(store, req[t])
  OBVIOUS
<1>3. /\ rest.vals \in Seq(Values \cup {Absent}) /\ (~rest.ok => rest.vals = <<>>)
      /\ rest = [ok |-> rest.ok, vals |-> rest.vals, keys |-> {}]
  BY <1>1, <1>2, ReplyShape, RequestAssumption DEF LinInv
<1>4. res[t].vals \o rest.vals = rest.vals
  BY <1>3
<1>5. AbstractReply[t] = [ok |-> rest.ok,
                          vals |-> IF rest.ok THEN res[t].vals \o rest.vals ELSE <<>>,
                          keys |-> {}]
  BY <1>1, <1>2 DEF AbstractReply, Reply
<1> QED BY <1>2, <1>3, <1>4, <1>5

\* With its last lock a call takes effect as a whole: StartAccess performs it.
LEMMA StartPerforms ==
    ASSUME LinInv, LinInv', NEW t \in Threads, StartAccess(t)
    PROVE  Abstract!Perform(t)
<1>1. /\ pc \in [Threads -> PCs] /\ req[t] \in Requests /\ idx[t] = 1
      /\ res[t] = NoRes /\ req[t].op # "AllKeys" /\ DataInv
  BY DEF LinInv, LockInv, DataInv, TypeOK, RequestFitsPC, Indices, Answers, StartAccess
<1>2. /\ pc[t] = "lock" /\ pc' = [pc EXCEPT ![t] = "access"]
      /\ Needed(req[t]) \subseteq held[t]
      /\ store' = store /\ req' = req /\ idx' = idx /\ res' = res /\ held' = held
  BY DEF StartAccess, Goto
<1>3. Quiet(t) /\ WritesLocked(t) /\ pc'[t] = "access"
  BY <1>1, <1>2 DEF Quiet, WritesLocked
<1>4. Rest(t) = req[t] /\ Rest(t)' = Rest(t)
  BY <1>1, <1>2, RestWhole DEF Rest
<1>5. ASSUME NEW k \in Keys, BucketOf[k] \in held[t] PROVE AbstractStore[k] = store[k]
  <2>1. ASSUME NEW u \in Threads PROVE ~Writing(u, k)
    <3>1. CASE u = t
      BY <1>2, <3>1 DEF Writing
    <3>2. CASE u # t
      BY <1>2, <1>5, <3>2, Guarded DEF LinInv, Owning
    <3> QED BY <3>1, <3>2
  <2> QED BY <2>1 DEF LinInv, ViewOK
<1>6. \A i \in DOMAIN req[t].keys : /\ req[t].keys[i] \in Keys
                                    /\ BucketOf[req[t].keys[i]] \in held[t]
  BY <1>1, <1>2, RequestAssumption DEF Needed
<1>7. AbstractReply'[t] = Reply(AbstractStore, req[t])
  <2>1. Reply(AbstractStore, req[t]) = Reply(store, req[t])
    BY <1>1, <1>5, <1>6, ReplyLocal
  <2>2. PICK rest : rest = Reply(store, req[t])
    OBVIOUS
  <2>3. /\ rest.vals \in Seq(Values \cup {Absent}) /\ (~rest.ok => rest.vals = <<>>)
        /\ rest = [ok |-> rest.ok, vals |-> rest.vals, keys |-> {}]
    BY <1>1, <2>2, ReplyShape, RequestAssumption
  <2>4. res'[t].vals = <<>> /\ <<>> \o rest.vals = rest.vals
    BY <1>1, <1>2, <2>3 DEF NoRes
  <2>5. rest = Semantics!Reply(store', Rest(t)') /\ ~Scanning(t)'
    BY <1>1, <1>2, <1>4, <2>2 DEF Reply, Scanning
  <2>6. AbstractReply'[t] = [ok |-> rest.ok,
                             vals |-> IF rest.ok THEN res'[t].vals \o rest.vals ELSE <<>>,
                             keys |-> {}]
    BY <1>3, <2>5 DEF AbstractReply
  <2> QED BY <2>1, <2>2, <2>3, <2>4, <2>6
<1>8. ASSUME NEW k \in Keys PROVE AbstractStore'[k] = Effect(AbstractStore, req[t])[k]
  <2>1. IsStore(store) /\ IsStore(AbstractStore)
    BY <1>1 DEF DataInv, TypeOK, IsStore, AbstractStore
  <2>2. CASE Writes(req[t]) /\ BucketOf[k] \in held[t]
    <3>1. Writing(t, k)'
      BY <1>2, <1>3, <2>2 DEF Writing
    <3>2. AbstractStore'[k] = Effect(store', Rest(t)')[k]
      BY <3>1 DEF LinInv, ViewOK
    <3>3. AbstractStore'[k] = Effect(store, req[t])[k]
      BY <1>2, <1>4, <3>2
    <3> QED BY <1>5, <2>1, <2>2, <3>3, EffectLocal
  <2>3. CASE ~(Writes(req[t]) /\ BucketOf[k] \in held[t])
    <3>1. ~Writing(t, k) /\ ~Writing(t, k)'
      BY <1>2, <2>3 DEF Writing
    <3>2. AbstractStore'[k] = AbstractStore[k]
      BY <1>3, <3>1, OtherKeysKeep
    <3>3. Effect(AbstractStore, req[t])[k] = AbstractStore[k]
      <4>1. CASE ~Writes(req[t])
        BY <4>1, EffectOfRead
      <4>2. CASE BucketOf[k] \notin held[t]
        BY <1>1, <1>6, <2>1, <4>2, EffectFrame
      <4> QED BY <2>3, <4>1, <4>2
    <3> QED BY <3>2, <3>3
  <2> QED BY <2>2, <2>3
<1> QED BY <1>2, <1>3, <1>7, <1>8, Performs

\* A MultiPut that is refused is performed too, without effect.
LEMMA MismatchPerforms ==
    ASSUME LinInv, LinInv', NEW t \in Threads, MultiPutMismatch(t)
    PROVE  Abstract!Perform(t)
<1>1. /\ pc \in [Threads -> PCs] /\ req[t] \in Requests /\ res[t] = NoRes /\ DataInv
  BY DEF LinInv, LockInv, DataInv, TypeOK, RequestFitsPC, Answers, MultiPutMismatch
<1>2. /\ pc[t] = "lock" /\ pc' = [pc EXCEPT ![t] = "done"] /\ Mismatched(req[t])
      /\ store' = store /\ req' = req /\ idx' = idx /\ res' = res /\ held' = held
  BY DEF MultiPutMismatch, Goto
<1>3. Quiet(t) /\ WritesLocked(t) /\ pc'[t] = "done"
  BY <1>1, <1>2 DEF Quiet, WritesLocked
<1>4. ~Scanning(t)'
  BY <1>2 DEF Scanning, Mismatched
<1>5. AbstractReply'[t] = [ok |-> FALSE, vals |-> <<>>, keys |-> {}]
  <2>1. res'[t].ok = FALSE
    BY <1>1, <1>2 DEF NoRes
  <2> QED BY <1>3, <1>4, <2>1 DEF AbstractReply
<1>6. Reply(AbstractStore, req[t]) = [ok |-> FALSE, vals |-> <<>>, keys |-> {}]
  <2>1. Semantics!Succeeds(AbstractStore, req[t]) = FALSE
    BY <1>2 DEF Semantics!Succeeds, Semantics!WellFormed, Mismatched
  <2> QED BY <1>2, <2>1 DEF Reply, Semantics!Reply, Mismatched
<1>7. ASSUME NEW k \in Keys PROVE AbstractStore'[k] = Effect(AbstractStore, req[t])[k]
  <2>1. ~Writing(t, k) /\ ~Writing(t, k)'
    BY <1>2, <1>3 DEF Writing
  <2> QED BY <1>2, <1>3, <2>1, OtherKeysKeep, EffectOfRead
<1> QED BY <1>2, <1>3, <1>5, <1>6, <1>7, Performs

\* A call is made: the abstract one too, but a scan, which is not atomic and
\* shows nothing.
LEMMA InvokeRefines ==
    ASSUME LinInv, LinInv', NEW t \in Threads, NEW r \in Requests, Invoke(t, r)
    PROVE  Abstract!Invoke(t, r) \/ UNCHANGED Abstract!vars
<1>1. /\ pc \in [Threads -> PCs] /\ idx \in [Threads -> Nat]
      /\ req \in [Threads -> Requests \cup {None}] /\ req[t] = None
  BY DEF LinInv, LockInv, LockTypes, Answers, Invoke
<1>2. /\ pc[t] = "idle" /\ req' = [req EXCEPT ![t] = r]
      /\ store' = store /\ res' = res /\ held' = held
      /\ pc' = [pc EXCEPT ![t] = IF r.op = "AllKeys" THEN "scan_lock" ELSE "lock"]
      /\ \/ idx' = [idx EXCEPT ![t] = 0]
         \/ idx' = [idx EXCEPT ![t] = 1]
  BY DEF Invoke, Goto
<1>3. Quiet(t) /\ WritesLocked(t) /\ req'[t] = r /\ r # None
  BY <1>1, <1>2, NoneAssumption DEF Quiet, WritesLocked
<1>4. \A k \in Keys : ~Writing(t, k) /\ ~Writing(t, k)'
  BY <1>1, <1>2 DEF Writing
<1>5. AbstractCall[t] = None /\ AbstractReply[t] = None
  BY <1>1, <1>2 DEF AbstractCall, AbstractReply, Scanning
<1>6. AbstractReply'[t] = None
  <2>1. pc'[t] = "lock" \/ Scanning(t)'
    BY <1>1, <1>2, <1>3 DEF Scanning
  <2> QED BY <2>1 DEF AbstractReply
<1>7. CASE r.op = "AllKeys"
  <2>1. AbstractCall'[t] = None
    BY <1>3, <1>7 DEF AbstractCall, Scanning
  <2> QED BY <1>3, <1>4, <1>5, <1>6, <2>1, Stutters
<1>8. CASE r.op # "AllKeys"
  <2>1. AbstractCall'[t] = r
    BY <1>3, <1>8 DEF AbstractCall, Scanning
  <2>2. \A u \in Threads \ {t} :
           AbstractCall'[u] = AbstractCall[u] /\ AbstractReply'[u] = AbstractReply[u]
    BY <1>3, OthersKeep
  <2>3. AbstractCall' = [AbstractCall EXCEPT ![t] = r]
    BY <2>1, <2>2 DEF AbstractCall
  <2>4. AbstractReply' = AbstractReply
    <3>1. \A u \in Threads : AbstractReply'[u] = AbstractReply[u]
      BY <1>5, <1>6, <2>2
    <3> QED BY <3>1 DEF AbstractReply
  <2>5. \A k \in Keys : AbstractStore'[k] = AbstractStore[k]
    BY <1>3, <1>4, OtherKeysKeep
  <2>6. AbstractStore' = AbstractStore
    BY <2>5 DEF AbstractStore
  <2> QED BY <1>5, <2>3, <2>4, <2>6 DEF Abstract!Invoke
<1> QED BY <1>7, <1>8

\* A call returns what it was bound to.
LEMMA ReturnRefines ==
    ASSUME LinInv, LinInv', NEW t \in Threads, Return(t)
    PROVE  Abstract!Return(t) \/ UNCHANGED Abstract!vars
<1>1. /\ pc \in [Threads -> PCs] /\ idx \in [Threads -> Nat]
      /\ req \in [Threads -> Requests \cup {None}] /\ held \in [Threads -> SUBSET Buckets]
      /\ res \in [Threads -> [ok : BOOLEAN, vals : Seq(Values), keys : SUBSET Keys]]
  BY DEF LinInv, LockInv, DataInv, TypeOK
<1>2. /\ pc[t] = "done" /\ pc' = [pc EXCEPT ![t] = "idle"] /\ req' = [req EXCEPT ![t] = None]
      /\ held' = [held EXCEPT ![t] = {}] /\ idx' = [idx EXCEPT ![t] = 0]
      /\ res' = [res EXCEPT ![t] = NoRes] /\ store' = store
  BY DEF Return, Goto
<1>3. Quiet(t) /\ WritesLocked(t) /\ req'[t] = None /\ pc'[t] = "idle"
  BY <1>1, <1>2 DEF Quiet, WritesLocked
<1>4. \A k \in Keys : ~Writing(t, k) /\ ~Writing(t, k)'
  BY <1>2, <1>3 DEF Writing
<1>5. AbstractCall'[t] = None /\ AbstractReply'[t] = None
  BY <1>3 DEF AbstractCall, AbstractReply, Scanning
<1>6. CASE Scanning(t)
  <2>1. AbstractCall[t] = None /\ AbstractReply[t] = None
    BY <1>6 DEF AbstractCall, AbstractReply
  <2> QED BY <1>3, <1>4, <1>5, <2>1, Stutters
<1>7. CASE ~Scanning(t)
  <2>1. PICK ok \in BOOLEAN, vs \in Seq(Values) :
          AbstractReply[t] = [ok |-> ok, vals |-> vs, keys |-> {}]
    <3>1. PICK a \in BOOLEAN, ws \in Seq(Values) : a = res[t].ok /\ ws = res[t].vals
      BY <1>1
    <3>2. AbstractReply[t] = [ok |-> a, vals |-> IF a THEN ws ELSE <<>>, keys |-> {}]
      BY <1>2, <1>7, <3>1 DEF AbstractReply
    <3>3. (IF a THEN ws ELSE <<>>) \in Seq(Values)
      OBVIOUS
    <3> QED BY <3>2, <3>3
  <2>2. AbstractReply[t] # None
    <3>1. [ok |-> ok, vals |-> vs, keys |-> {}]
            \in [ok : BOOLEAN, vals : Seq(Values), keys : SUBSET Keys]
      OBVIOUS
    <3> QED BY <2>1, <3>1, NoneAssumption
  <2>3. \A u \in Threads \ {t} :
           AbstractCall'[u] = AbstractCall[u] /\ AbstractReply'[u] = AbstractReply[u]
    BY <1>3, OthersKeep
  <2>4. AbstractCall' = [AbstractCall EXCEPT ![t] = None]
    BY <1>5, <2>3 DEF AbstractCall
  <2>5. AbstractReply' = [AbstractReply EXCEPT ![t] = None]
    BY <1>5, <2>3 DEF AbstractReply
  <2>6. \A k \in Keys : AbstractStore'[k] = AbstractStore[k]
    BY <1>3, <1>4, OtherKeysKeep
  <2>7. AbstractStore' = AbstractStore
    BY <2>6 DEF AbstractStore
  <2> QED BY <2>2, <2>4, <2>5, <2>7 DEF Abstract!Return
<1> QED BY <1>6, <1>7

\* A single-key call that does to the store, and answers, what its request asks
\* for has done so already, when it took its lock.
LEMMA SingleStutters ==
    ASSUME LinInv, LinInv', NEW t \in Threads, pc[t] = "access", req[t].op \in SingleOps,
           NEW ok \in BOOLEAN, NEW values \in Seq(Values), FinishSingle(t, ok, values),
           Reply(store, req[t]).ok = ok, ok => Reply(store, req[t]).vals = values,
           \A k \in Keys : store'[k] = Effect(store, req[t])[k]
    PROVE  UNCHANGED Abstract!vars
<1>1. /\ pc \in [Threads -> PCs] /\ req[t] \in Requests /\ idx[t] = 1
      /\ held \in [Threads -> SUBSET Buckets] /\ TypeOK
      /\ res[t].vals = <<>> /\ ~Scanning(t) /\ req[t].op # "AllKeys" /\ DataInv
  BY NoScan
     DEF LinInv, LockInv, DataInv, TypeOK, RequestFitsPC, Indices, Answers, SingleOps
<1>2. /\ res' = [res EXCEPT ![t].ok = ok, ![t].vals = values]
      /\ pc' = [pc EXCEPT ![t] = "done"] /\ held' = [held EXCEPT ![t] = {}]
      /\ req' = req /\ idx' = idx
  BY DEF FinishSingle, Goto
<1>3. /\ res'[t].ok = ok /\ res'[t].vals = values
      /\ \A u \in Threads \ {t} : res'[u] = res[u]
  BY <1>1, <1>2 DEF TypeOK
<1>4. Quiet(t) /\ pc'[t] = "done"
  BY <1>1, <1>2, <1>3 DEF Quiet
<1>5. Rest(t) = req[t] /\ IsStore(store)
  BY <1>1, RestWhole DEF TypeOK, IsStore
<1>6. ASSUME NEW k \in Keys, store'[k] # store[k] PROVE Writing(t, k)
  <2>1. Writes(req[t])
    BY <1>6, EffectOfRead
  <2>2. PICK i \in DOMAIN req[t].keys : req[t].keys[i] = k
    BY <1>1, <1>5, <1>6, EffectFrame
  <2>3. BucketOf[k] \in held[t]
    BY <2>2 DEF LinInv, LockInv, TouchesHeld, Needed
  <2> QED BY <2>1, <2>3 DEF Writing
<1>7. WritesLocked(t)
  BY <1>6 DEF WritesLocked
<1>8. AbstractCall'[t] = AbstractCall[t]
  BY <1>1, <1>2 DEF AbstractCall, Scanning
<1>9. AbstractReply'[t] = AbstractReply[t]
  <2>1. AbstractReply[t] = Reply(store, req[t])
    BY <1>1, ReplyAtFirst
  <2>2. PICK rest : rest = Reply(store, req[t])
    OBVIOUS
  <2>3. /\ (~rest.ok => rest.vals = <<>>)
        /\ rest = [ok |-> rest.ok, vals |-> rest.vals, keys |-> {}]
    BY <1>1, <2>2, ReplyShape, RequestAssumption
  <2>4. rest = [ok |-> ok, vals |-> IF ok THEN values ELSE <<>>, keys |-> {}]
    BY <2>2, <2>3
  <2>5. ~Scanning(t)'
    BY <1>1, <1>2 DEF Scanning
  <2>6. AbstractReply'[t] = [ok |-> ok, vals |-> IF ok THEN values ELSE <<>>, keys |-> {}]
    BY <1>3, <1>4, <2>5 DEF AbstractReply
  <2> QED BY <2>1, <2>2, <2>4, <2>6
<1>10. ASSUME NEW k \in Keys, Writing(t, k) \/ Writing(t, k)'
       PROVE  AbstractStore'[k] = AbstractStore[k]
  <2>1. Writing(t, k) /\ ~Writing(t, k)'
    BY <1>4, <1>10 DEF Writing
  <2>2. AbstractStore'[k] = store'[k]
    BY <1>4, <1>7, <2>1, DoneWriting
  <2>3. AbstractStore[k] = Effect(store, Rest(t))[k]
    BY <2>1 DEF LinInv, ViewOK
  <2> QED BY <1>5, <2>2, <2>3
<1> QED BY <1>4, <1>7, <1>8, <1>9, <1>10, Stutters

\* What the request of a single-key call asks for.
Meaning(m, r) ==
    /\ r.op \in {"Put", "Append"} => Reply(m, r).ok = TRUE /\ Reply(m, r).vals = <<>>
    /\ r.op \in {"Get", "Delete"} /\ m[r.keys[1]] # Absent
          => Reply(m, r).ok = TRUE /\ Reply(m, r).vals = <<m[r.keys[1]]>>
    /\ r.op \in {"Get", "Delete"} /\ m[r.keys[1]] = Absent => Reply(m, r).ok = FALSE
    /\ r.op = "Get" => Effect(m, r) = m
    /\ r.op = "Put" => \A k \in Keys :
          Effect(m, r)[k] = IF k = r.keys[1] THEN r.vals[1] ELSE m[k]
    /\ r.op = "Append" => \A k \in Keys : Effect(m, r)[k] =
          IF k = r.keys[1] THEN IF m[k] = Absent THEN r.vals[1] ELSE m[k] \o r.vals[1]
                           ELSE m[k]
    /\ r.op = "Delete" => \A k \in Keys :
          Effect(m, r)[k] = IF k = r.keys[1] THEN Absent ELSE m[k]

\* The specification says so.
LEMMA SingleMeaning ==
    ASSUME NEW m, IsStore(m), NEW r \in Requests, r.op \in SingleOps
    PROVE  r.keys[1] \in Keys /\ Meaning(m, r)
<1>1. r.keys \in Seq(Keys) /\ Len(r.keys) = 1 /\ DOMAIN r.keys = {1} /\ r.keys[1] \in Keys
  <2>1. r.keys \in Seq(Keys) /\ Len(r.keys) = 1
    BY RequestAssumption
  <2> QED BY <2>1
<1>2. Semantics!Succeeds(m, r) = (r.op \in {"Get", "Delete"} => m[r.keys[1]] # Absent)
  BY <1>1 DEF Semantics!Succeeds, Semantics!WellFormed, Semantics!Reads, SingleOps
<1>3. [i \in DOMAIN r.keys |-> m[r.keys[i]]] = <<m[r.keys[1]]>>
  BY <1>1
<1>4. Semantics!Reads(r) <=> r.op \in {"Get", "Delete"}
  BY DEF Semantics!Reads, SingleOps
<1>5. r.op \in {"Put", "Append"} => Reply(m, r).ok = TRUE /\ Reply(m, r).vals = <<>>
  BY <1>2, <1>4 DEF Reply, Semantics!Reply
<1>6. r.op \in {"Get", "Delete"} /\ m[r.keys[1]] # Absent
        => Reply(m, r).ok = TRUE /\ Reply(m, r).vals = <<m[r.keys[1]]>>
  BY <1>2, <1>3, <1>4 DEF Reply, Semantics!Reply
<1>7. r.op \in {"Get", "Delete"} /\ m[r.keys[1]] = Absent => Reply(m, r).ok = FALSE
  BY <1>2 DEF Reply, Semantics!Reply
<1>8. r.op = "Get" => Effect(m, r) = m
  BY EffectOfRead DEF Writes
<1>9. ASSUME r.op = "Put", NEW k \in Keys
      PROVE  Effect(m, r)[k] = IF k = r.keys[1] THEN r.vals[1] ELSE m[k]
  <2>1. Effect(m, r) = Semantics!Assign(m, r.keys, r.vals)
    BY <1>9 DEF Effect, Semantics!Effect
  <2>2. CASE k = r.keys[1]
    <3>1. PICK ks \in Seq(Keys) : ks = r.keys
      BY <1>1
    <3>2. PICK vs : vs = r.vals
      OBVIOUS
    <3>3. IsLast(ks, k, 1)
      BY <1>1, <2>2, <3>1 DEF IsLast
    <3>4. Semantics!Assign(m, ks, vs)[k] = vs[1]
      BY <3>3, Assigned
    <3> QED BY <2>1, <2>2, <3>1, <3>2, <3>4
  <2>3. CASE k # r.keys[1]
    <3>1. \A i \in DOMAIN r.keys : r.keys[i] # k
      BY <1>1, <2>3
    <3> QED BY <2>1, <2>3, <3>1, NotAssigned
  <2> QED BY <2>2, <2>3
<1>10. ASSUME r.op = "Append", NEW k \in Keys
       PROVE  Effect(m, r)[k] =
                IF k = r.keys[1] THEN IF m[k] = Absent THEN r.vals[1] ELSE m[k] \o r.vals[1]
                                 ELSE m[k]
  <2>1. PICK v : v = IF m[r.keys[1]] = Absent THEN r.vals[1] ELSE m[r.keys[1]] \o r.vals[1]
    OBVIOUS
  <2>2. Effect(m, r) = [m EXCEPT ![r.keys[1]] = v]
    BY <1>1, <1>10, <2>1 DEF Effect, Semantics!Effect, IsStore
  <2> QED BY <1>1, <2>1, <2>2 DEF IsStore
<1>11. ASSUME r.op = "Delete", NEW k \in Keys
       PROVE  Effect(m, r)[k] = IF k = r.keys[1] THEN Absent ELSE m[k]
  <2>1. Effect(m, r) = [m EXCEPT ![r.keys[1]] = Absent]
    BY <1>11 DEF Effect, Semantics!Effect
  <2> QED BY <1>1, <2>1 DEF IsStore
<1> QED BY <1>1, <1>5, <1>6, <1>7, <1>8, <1>9, <1>10, <1>11 DEF Meaning

\* Get, Put, Append and Delete do.
LEMMA SinglesRefine ==
    ASSUME LinInv, LinInv', NEW t \in Threads, Get(t) \/ Put(t) \/ DoAppend(t) \/ Delete(t)
    PROVE  UNCHANGED Abstract!vars
<1>1. pc[t] = "access" /\ req[t].op \in SingleOps
  BY DEF Get, Put, DoAppend, Delete, Accessing, SingleOps
<1>2. PICK r \in Requests : r = req[t]
  BY <1>1 DEF LinInv, LockInv, RequestFitsPC
<1>3. idx[t] = 1 /\ IsStore(store) /\ store \in [Keys -> Values \cup {Absent}]
  BY <1>1 DEF LinInv, DataInv, Indices, TypeOK, IsStore
<1>4. PICK key \in Keys :
        key = r.keys[1] /\ key = Key(t) /\ r.vals[1] = Val(t) /\ Meaning(store, r)
  BY <1>1, <1>2, <1>3, SingleMeaning DEF Key, Val
<1>5. <<>> \in Seq(Values) /\ (store[key] # Absent => <<store[key]>> \in Seq(Values))
  BY <1>3
<1>6. CASE Get(t)
  <2>1. r.op = "Get" /\ store' = store
    BY <1>2, <1>6 DEF Get, Accessing
  <2>2. \A k \in Keys : store'[k] = Effect(store, r)[k]
    BY <1>4, <2>1 DEF Meaning
  <2>3. CASE store[key] # Absent
    <3>1. FinishSingle(t, TRUE, <<store[key]>>)
      BY <1>4, <1>6, <2>3 DEF Get
    <3>2. Reply(store, r).ok = TRUE /\ Reply(store, r).vals = <<store[key]>>
      BY <1>4, <2>1, <2>3 DEF Meaning
    <3> QED BY <1>1, <1>2, <1>5, <2>2, <2>3, <3>1, <3>2, SingleStutters
  <2>4. CASE store[key] = Absent
    <3>1. FinishSingle(t, FALSE, <<>>)
      BY <1>4, <1>6, <2>4 DEF Get
    <3>2. Reply(store, r).ok = FALSE
      BY <1>4, <2>1, <2>4 DEF Meaning
    <3> QED BY <1>1, <1>2, <1>5, <2>2, <3>1, <3>2, SingleStutters
  <2> QED BY <2>3, <2>4
<1>7. CASE Put(t)
  <2>1. r.op = "Put" /\ store' = [store EXCEPT ![key] = r.vals[1]] /\ FinishSingle(t, TRUE, <<>>)
    BY <1>2, <1>4, <1>7 DEF Put, Accessing
  <2>2. Reply(store, r).ok = TRUE /\ Reply(store, r).vals = <<>>
    BY <1>4, <2>1 DEF Meaning
  <2>3. ASSUME NEW k \in Keys PROVE store'[k] = Effect(store, r)[k]
    <3>1. Effect(store, r)[k] = IF k = key THEN r.vals[1] ELSE store[k]
      BY <1>4, <2>1 DEF Meaning
    <3> QED BY <1>3, <2>1, <3>1
  <2> QED BY <1>1, <1>2, <1>5, <2>1, <2>2, <2>3, SingleStutters
<1>8. CASE DoAppend(t)
  <2>1. PICK v : v = IF store[key] = Absent THEN r.vals[1] ELSE store[key] \o r.vals[1]
    OBVIOUS
  <2>2. r.op = "Append" /\ store' = [store EXCEPT ![key] = v] /\ FinishSingle(t, TRUE, <<>>)
    BY <1>2, <1>3, <1>4, <1>8, <2>1 DEF DoAppend, Accessing
  <2>3. Reply(store, r).ok = TRUE /\ Reply(store, r).vals = <<>>
    BY <1>4, <2>2 DEF Meaning
  <2>4. ASSUME NEW k \in Keys PROVE store'[k] = Effect(store, r)[k]
    <3>1. Effect(store, r)[k] =
            IF k = key THEN IF store[k] = Absent THEN r.vals[1] ELSE store[k] \o r.vals[1]
                       ELSE store[k]
      BY <1>4, <2>2 DEF Meaning
    <3> QED BY <1>3, <2>1, <2>2, <3>1
  <2> QED BY <1>1, <1>2, <1>5, <2>2, <2>3, <2>4, SingleStutters
<1>9. CASE Delete(t)
  <2>1. r.op = "Delete" /\ store' = [store EXCEPT ![key] = Absent]
    BY <1>2, <1>4, <1>9 DEF Delete, Accessing
  <2>2. ASSUME NEW k \in Keys PROVE store'[k] = Effect(store, r)[k]
    <3>1. Effect(store, r)[k] = IF k = key THEN Absent ELSE store[k]
      BY <1>4, <2>1 DEF Meaning
    <3> QED BY <1>3, <2>1, <3>1
  <2>3. CASE store[key] # Absent
    <3>1. FinishSingle(t, TRUE, <<store[key]>>)
      BY <1>4, <1>9, <2>3 DEF Delete
    <3>2. Reply(store, r).ok = TRUE /\ Reply(store, r).vals = <<store[key]>>
      BY <1>4, <2>1, <2>3 DEF Meaning
    <3> QED BY <1>1, <1>2, <1>5, <2>2, <2>3, <3>1, <3>2, SingleStutters
  <2>4. CASE store[key] = Absent
    <3>1. FinishSingle(t, FALSE, <<>>)
      BY <1>4, <1>9, <2>4 DEF Delete
    <3>2. Reply(store, r).ok = FALSE
      BY <1>4, <2>1, <2>4 DEF Meaning
    <3> QED BY <1>1, <1>2, <1>5, <2>2, <3>1, <3>2, SingleStutters
  <2> QED BY <2>3, <2>4
<1> QED BY <1>6, <1>7, <1>8, <1>9

\* Concatenation, as one symbol.
Cat(p, q) == p \o q

\* x is p followed by q.
Joins(V, x, p, q, m, n) ==
    /\ x \in Seq(V) /\ Len(x) = m + n
    /\ \A j \in 1..(m + n) : j <= m => x[j] = p[j]
    /\ \A j \in 1..(m + n) : ~(j <= m) => x[j] = q[j - m]

\* Concatenation does that.
LEMMA Concats ==
    ASSUME NEW V, NEW p \in Seq(V), NEW q \in Seq(V), NEW m \in Nat, NEW n \in Nat,
           m = Len(p), n = Len(q)
    PROVE  Joins(V, Cat(p, q), p, q, m, n)
<1>1. /\ p \o q \in Seq(V) /\ Len(p \o q) = Len(p) + Len(q)
      /\ \A j \in 1..(Len(p) + Len(q)) :
            (p \o q)[j] = IF j <= Len(p) THEN p[j] ELSE q[j - Len(p)]
  BY ConcatProperties
<1> QED BY <1>1 DEF Joins, Cat

\* b is what is behind the first element v of a.
Behind(V, got, v, a, b) ==
    /\ got \in Seq(V) /\ a \in Seq(V) /\ b \in Seq(V) /\ v \in V
    /\ Len(a) = Len(b) + 1 /\ a[1] = v /\ \A j \in 1..Len(b) : a[j + 1] = b[j]

\* What MultiGet has read and what it is still to read make up its answer.
LEMMA ReadStep ==
    ASSUME NEW V, NEW got, NEW v, NEW a, NEW b, Behind(V, got, v, a, b)
    PROVE  Cat(got, a) = Cat(Append(got, v), b)
<1>0. /\ got \in Seq(V) /\ a \in Seq(V) /\ b \in Seq(V) /\ v \in V
      /\ Len(a) = Len(b) + 1 /\ a[1] = v /\ \A j \in 1..Len(b) : a[j + 1] = b[j]
  BY DEF Behind
<1>1. PICK got2 : got2 = Append(got, v)
  OBVIOUS
<1>2. PICK g \in Nat, l \in Nat : g = Len(got) /\ l = Len(b) /\ Len(a) = l + 1
  BY <1>0
<1>3. /\ got2 \in Seq(V) /\ Len(got2) = g + 1 /\ got2[g + 1] = v
      /\ \A j \in 1..g : got2[j] = got[j]
  BY <1>0, <1>1, <1>2
<1>4. PICK x, y : x = Cat(got, a) /\ y = Cat(got2, b)
  OBVIOUS
<1>5. /\ x \in Seq(V) /\ Len(x) = g + (l + 1)
      /\ \A j \in 1..(g + (l + 1)) : j <= g => x[j] = got[j]
      /\ \A j \in 1..(g + (l + 1)) : ~(j <= g) => x[j] = a[j - g]
  <2>1. Joins(V, x, got, a, g, l + 1)
    BY <1>0, <1>2, <1>4, Concats
  <2> QED BY <2>1 DEF Joins
<1>6. /\ y \in Seq(V) /\ Len(y) = (g + 1) + l
      /\ \A j \in 1..((g + 1) + l) : j <= g + 1 => y[j] = got2[j]
      /\ \A j \in 1..((g + 1) + l) : ~(j <= g + 1) => y[j] = b[j - (g + 1)]
  <2>1. Joins(V, y, got2, b, g + 1, l)
    BY <1>0, <1>2, <1>3, <1>4, Concats
  <2> QED BY <2>1 DEF Joins
<1>7. ASSUME NEW j \in 1..(g + (l + 1)) PROVE x[j] = y[j]
  <2>1. j \in Nat /\ j \in 1..((g + 1) + l) /\ j >= 1
    BY <1>2
  <2>2. CASE j <= g
    <3>1. j <= g + 1 /\ j \in 1..g
      BY <1>2, <2>1, <2>2
    <3>2. x[j] = got[j] /\ y[j] = got2[j]
      BY <1>5, <1>6, <2>1, <2>2, <3>1
    <3> QED BY <1>3, <3>1, <3>2
  <2>3. CASE j = g + 1
    <3>1. ~(j <= g) /\ j <= g + 1 /\ j - g = 1
      BY <1>2, <2>1, <2>3
    <3>2. x[j] = a[1] /\ y[j] = got2[j]
      BY <1>5, <1>6, <2>1, <3>1
    <3> QED BY <1>0, <1>3, <2>3, <3>2
  <2>4. CASE j > g + 1
    <3>1. PICK h \in 1..l : h = j - (g + 1) /\ h + 1 = j - g /\ ~(j <= g) /\ ~(j <= g + 1)
      <4>1. j - (g + 1) \in 1..l
        BY <1>2, <2>1, <2>4
      <4>2. (j - (g + 1)) + 1 = j - g /\ ~(j <= g) /\ ~(j <= g + 1)
        BY <1>2, <2>1, <2>4
      <4> QED BY <4>1, <4>2
    <3>2. x[j] = a[h + 1] /\ y[j] = b[h]
      BY <1>5, <1>6, <2>1, <3>1
    <3> QED BY <1>0, <1>2, <3>1, <3>2
  <2> QED BY <1>2, <2>1, <2>2, <2>3, <2>4
<1>8. Len(x) = Len(y) /\ \A j \in 1..Len(x) : x[j] = y[j]
  BY <1>2, <1>5, <1>6, <1>7
<1>9. x = y
  BY <1>5, <1>6, <1>8, SeqEqual
<1> QED BY <1>1, <1>4, <1>9

\* One turn of MultiGet's loop: the key at i, read from m, and the keys behind it.
ReadsAt(m, keys, i, got, r, r2) ==
    /\ m \in [Keys -> Values \cup {Absent}] /\ keys \in Seq(Keys) /\ got \in Seq(Values)
    /\ i \in Nat /\ i \in 1..Len(keys) /\ r.op = "MultiGet" /\ r2.op = "MultiGet"
    /\ r.keys = SubSeq(keys, i, Len(keys)) /\ r2.keys = SubSeq(keys, i + 1, Len(keys))

\* What the answer to r is, after the key k, to the answer to r2.
ReadTells(m, k, got, r, r2) ==
    /\ m[k] = Absent => Reply(m, r).ok = FALSE
    /\ m[k] # Absent => /\ Reply(m, r).ok = Reply(m, r2).ok
                        /\ Reply(m, r).ok => got \o Reply(m, r).vals =
                              Append(got, m[k]) \o Reply(m, r2).vals
    /\ Reply(m, r).keys = {} /\ Reply(m, r2).keys = {}

LEMMA ReadReply ==
    ASSUME NEW m, NEW keys, NEW i, NEW got, NEW r, NEW r2, ReadsAt(m, keys, i, got, r, r2)
    PROVE  ReadTells(m, keys[i], got, r, r2)
<1>1. PICK V : V = Values \cup {Absent}
  OBVIOUS
<1>0. /\ m \in [Keys -> Values \cup {Absent}] /\ keys \in Seq(Keys) /\ got \in Seq(Values)
      /\ i \in Nat /\ i \in 1..Len(keys) /\ r.op = "MultiGet" /\ r2.op = "MultiGet"
      /\ r.keys = SubSeq(keys, i, Len(keys)) /\ r2.keys = SubSeq(keys, i + 1, Len(keys))
      /\ Len(keys) \in Nat
  BY DEF ReadsAt
<1>2. PICK n, ks, ks2 : n = Len(keys) /\ n \in Nat /\ ks = r.keys /\ ks2 = r2.keys
  BY <1>0
<1>3. PICK l \in Nat : /\ ks \in Seq(Keys) /\ ks2 \in Seq(Keys)
                       /\ Len(ks) = l + 1 /\ Len(ks2) = l /\ ks[1] = keys[i]
                       /\ \A j \in 1..l : ks[j + 1] = ks2[j]
  <2>1. AreTails(Keys, keys, i, n - i, ks, ks2)
    BY <1>0, <1>2, Tails
  <2> QED BY <2>1 DEF AreTails
<1>4. DOMAIN ks = 1..(l + 1) /\ DOMAIN ks2 = 1..l
  BY <1>3
<1>5. PICK a, b : /\ a = [j \in DOMAIN ks |-> m[ks[j]]]
                  /\ b = [j \in DOMAIN ks2 |-> m[ks2[j]]]
  OBVIOUS
<1>6. a \in Seq(V) /\ Len(a) = l + 1 /\ \A j \in 1..(l + 1) : a[j] = m[ks[j]]
  <2>1. \A j \in 1..(l + 1) : m[ks[j]] \in V
    BY <1>0, <1>1, <1>3, <1>4
  <2>2. PICK h \in Nat : h = l + 1
    OBVIOUS
  <2>3. a = [j \in 1..h |-> m[ks[j]]] /\ \A j \in 1..h : m[ks[j]] \in V
    BY <1>4, <1>5, <2>1, <2>2
  <2>4. a \in Seq(V) /\ Len(a) = h /\ \A j \in 1..h : a[j] = m[ks[j]]
    BY <2>3
  <2> QED BY <2>2, <2>4
<1>7. b \in Seq(V) /\ Len(b) = l /\ \A j \in 1..l : b[j] = m[ks2[j]]
  <2>1. b = [j \in 1..l |-> m[ks2[j]]] /\ \A j \in 1..l : m[ks2[j]] \in V
    BY <1>0, <1>1, <1>3, <1>4, <1>5
  <2>2. b \in Seq(V) /\ Len(b) = l /\ \A j \in 1..l : b[j] = m[ks2[j]]
    BY <2>1
  <2> QED BY <2>2
<1>8. a[1] = m[keys[i]] /\ \A j \in 1..l : j + 1 \in 1..(l + 1) /\ a[j + 1] = b[j]
  <2>1. 1 \in 1..(l + 1) /\ \A j \in 1..l : j + 1 \in 1..(l + 1)
    OBVIOUS
  <2>2. a[1] = m[ks[1]] /\ ks[1] = keys[i]
    BY <1>3, <1>6, <2>1
  <2>3. ASSUME NEW j \in 1..l PROVE a[j + 1] = b[j]
    <3>1. j + 1 \in 1..(l + 1) /\ ks[j + 1] = ks2[j]
      BY <1>3, <2>1
    <3>2. a[j + 1] = m[ks[j + 1]] /\ b[j] = m[ks2[j]]
      BY <1>6, <1>7, <3>1
    <3> QED BY <3>1, <3>2
  <2> QED BY <2>1, <2>2, <2>3
<1>9. /\ Reply(m, r).ok = (\A j \in DOMAIN ks : m[ks[j]] # Absent)
      /\ Reply(m, r).ok => Reply(m, r).vals = a
      /\ Reply(m, r).keys = {}
  <2>1. Semantics!Succeeds(m, r) = (\A j \in DOMAIN ks : m[ks[j]] # Absent)
    BY <1>0, <1>2 DEF Semantics!Succeeds, Semantics!WellFormed, Semantics!Reads
  <2> QED BY <1>0, <1>2, <1>5, <2>1 DEF Reply, Semantics!Reply, Semantics!Reads
<1>10. /\ Reply(m, r2).ok = (\A j \in DOMAIN ks2 : m[ks2[j]] # Absent)
       /\ Reply(m, r2).ok => Reply(m, r2).vals = b
       /\ Reply(m, r2).keys = {}
  <2>1. Semantics!Succeeds(m, r2) = (\A j \in DOMAIN ks2 : m[ks2[j]] # Absent)
    BY <1>0, <1>2 DEF Semantics!Succeeds, Semantics!WellFormed, Semantics!Reads
  <2> QED BY <1>0, <1>2, <1>5, <2>1 DEF Reply, Semantics!Reply, Semantics!Reads
<1>11. CASE m[keys[i]] = Absent
  <2>1. 1 \in DOMAIN ks /\ m[ks[1]] = Absent
    BY <1>3, <1>4, <1>11
  <2> QED BY <1>9, <1>10, <1>11, <2>1 DEF ReadTells
<1>12. CASE m[keys[i]] # Absent
  <2>1. Reply(m, r).ok <=> Reply(m, r2).ok
    <3>1. Reply(m, r).ok <=> \A j \in 1..(l + 1) : a[j] # Absent
      BY <1>4, <1>6, <1>9
    <3>2. Reply(m, r2).ok <=> \A j \in 1..l : b[j] # Absent
      <4>1. Reply(m, r2).ok <=> \A j \in 1..l : m[ks2[j]] # Absent
        BY <1>4, <1>10
      <4>2. \A j \in 1..l : b[j] = m[ks2[j]]
        BY <1>7
      <4> QED BY <4>1, <4>2
    <3>3. ASSUME NEW j \in 1..(l + 1), \A h \in 1..l : b[h] # Absent PROVE a[j] # Absent
      <4>1. CASE j = 1
        BY <1>8, <1>12, <4>1
      <4>2. CASE j # 1
        <5>1. PICK h \in 1..l : j = h + 1
          <6>1. j - 1 \in 1..l /\ j = (j - 1) + 1
            BY <4>2
          <6> QED BY <6>1
        <5> QED BY <1>8, <3>3, <5>1
      <4> QED BY <4>1, <4>2
    <3>4. ASSUME NEW j \in 1..l, \A h \in 1..(l + 1) : a[h] # Absent PROVE b[j] # Absent
      BY <1>8, <3>4
    <3> QED BY <3>1, <3>2, <3>3, <3>4
  <2>2. Reply(m, r).ok = Reply(m, r2).ok
    BY <1>9, <1>10, <2>1
  <2>3. Cat(got, a) = Cat(Append(got, m[keys[i]]), b)
    <3>1. got \in Seq(V) /\ m[keys[i]] \in V
      BY <1>0, <1>1
    <3>2. Behind(V, got, m[keys[i]], a, b)
      BY <1>6, <1>7, <1>8, <3>1 DEF Behind
    <3> QED BY <3>2, ReadStep
  <2>4. got \o a = Append(got, m[keys[i]]) \o b
    BY <2>3 DEF Cat
  <2> QED BY <1>9, <1>10, <1>12, <2>2, <2>4 DEF ReadTells
<1> QED BY <1>11, <1>12

\* One iteration of MultiGet's loop, and its failure, change nothing of what it
\* is bound to answer.
LEMMA MultiGetRefines ==
    ASSUME LinInv, LinInv', NEW t \in Threads, MultiGetRead(t)
    PROVE  UNCHANGED Abstract!vars
<1>1. /\ pc \in [Threads -> PCs] /\ idx \in [Threads -> Nat] /\ idx[t] >= 1
      /\ res \in [Threads -> [ok : BOOLEAN, vals : Seq(Values), keys : SUBSET Keys]]
      /\ store \in [Keys -> Values \cup {Absent}] /\ RequestFitsPC
  BY DEF LinInv, LockInv, DataInv, TypeOK, Indices, MultiGetRead, Accessing
<1>2. /\ pc[t] = "access" /\ req[t].op = "MultiGet" /\ idx[t] <= Len(req[t].keys)
      /\ store' = store /\ req' = req /\ held' = held
  BY DEF MultiGetRead, Accessing
<1>3. PICK keys \in Seq(Keys), i \in Nat :
        keys = req[t].keys /\ i = idx[t] /\ i \in 1..Len(keys)
  <2>1. req[t] \in Requests
    BY <1>1, <1>2 DEF RequestFitsPC
  <2>2. req[t].keys \in Seq(Keys)
    BY <2>1, RequestAssumption
  <2>3. idx[t] \in 1..Len(req[t].keys)
    BY <1>1, <1>2, <2>2
  <2> QED BY <2>2, <2>3
<1>4. ~Scanning(t) /\ ~Scanning(t)' /\ WritesLocked(t) /\ ~res[t].ok
  BY <1>2 DEF Scanning, WritesLocked, LinInv, Answers
<1>5. AbstractCall'[t] = AbstractCall[t]
  BY <1>2, <1>4 DEF AbstractCall
<1>6. \A k \in Keys : ~Writing(t, k) /\ ~Writing(t, k)'
  BY <1>2 DEF Writing, Writes
<1>7. PICK r, got :
         /\ r = Rest(t) /\ r.op = "MultiGet" /\ r.keys = SubSeq(keys, i, Len(keys))
         /\ got = res[t].vals /\ got \in Seq(Values)
  <2>1. PICK r : r = Rest(t)
    OBVIOUS
  <2>2. r = [op |-> "MultiGet", keys |-> SubSeq(keys, i, Len(keys)),
             vals |-> SubSeq(req[t].vals, i, Len(req[t].vals))]
    BY <1>2, <1>3, <2>1 DEF Rest
  <2>3. r.op = "MultiGet" /\ r.keys = SubSeq(keys, i, Len(keys))
    BY <2>2
  <2>4. res[t].vals \in Seq(Values)
    BY <1>1
  <2> QED BY <2>1, <2>3, <2>4
<1>8. Key(t) = keys[i]
  BY <1>3 DEF Key
<1>9. AbstractReply[t] = [ok |-> Reply(store, r).ok,
                          vals |-> IF Reply(store, r).ok THEN got \o Reply(store, r).vals
                                   ELSE <<>>,
                          keys |-> {}]
  BY <1>2, <1>4, <1>7 DEF AbstractReply, Reply
<1>10. CASE store[keys[i]] = Absent
  <2>1. pc' = [pc EXCEPT ![t] = "done"] /\ idx' = idx /\ res' = res
    BY <1>8, <1>10 DEF MultiGetRead, Goto
  <2>2. Quiet(t) /\ pc'[t] = "done"
    BY <1>1, <1>2, <2>1 DEF Quiet
  <2>3. Reply(store, r).ok = FALSE
    <3>1. PICK r2 : r2.op = "MultiGet" /\ r2.keys = SubSeq(keys, i + 1, Len(keys))
      <4>1. PICK r2 : r2 = [op |-> "MultiGet", keys |-> SubSeq(keys, i + 1, Len(keys))]
        OBVIOUS
      <4>2. r2.op = "MultiGet" /\ r2.keys = SubSeq(keys, i + 1, Len(keys))
        BY <4>1
      <4> QED BY <4>2
    <3>2. ReadsAt(store, keys, i, got, r, r2)
      BY <1>1, <1>3, <1>7, <3>1 DEF ReadsAt
    <3>3. ReadTells(store, keys[i], got, r, r2)
      BY <3>2, ReadReply
    <3> QED BY <1>10, <3>3 DEF ReadTells
  <2>4. AbstractReply[t] = [ok |-> FALSE, vals |-> <<>>, keys |-> {}]
    BY <1>9, <2>3
  <2>5. res'[t].ok = FALSE
    BY <1>1, <1>4, <2>1
  <2>6. AbstractReply'[t] = [ok |-> FALSE, vals |-> <<>>, keys |-> {}]
    BY <1>4, <2>2, <2>5 DEF AbstractReply
  <2> QED BY <1>4, <1>5, <1>6, <2>2, <2>4, <2>6, Stutters
<1>11. CASE store[keys[i]] # Absent
  <2>1. /\ pc' = pc /\ idx' = [idx EXCEPT ![t] = i + 1]
        /\ res' = [res EXCEPT ![t].vals = Append(got, store[keys[i]])]
    BY <1>3, <1>7, <1>8, <1>11 DEF MultiGetRead
  <2>2. res'[t].vals = Append(got, store[keys[i]]) /\ \A u \in Threads \ {t} : res'[u] = res[u]
    BY <1>1, <2>1
  <2>3. Quiet(t) /\ pc'[t] = "access" /\ idx'[t] = i + 1
    BY <1>1, <1>2, <2>1, <2>2 DEF Quiet
  <2>4. PICK r2 : /\ r2 = Rest(t)' /\ r2.op = "MultiGet"
                  /\ r2.keys = SubSeq(keys, i + 1, Len(keys))
    <3>1. PICK r2 : r2 = Rest(t)'
      OBVIOUS
    <3>2. r2 = [op |-> "MultiGet", keys |-> SubSeq(keys, i + 1, Len(keys)),
                vals |-> SubSeq(req[t].vals, i + 1, Len(req[t].vals))]
      BY <1>2, <1>3, <2>3, <3>1 DEF Rest
    <3>3. r2.op = "MultiGet" /\ r2.keys = SubSeq(keys, i + 1, Len(keys))
      BY <3>2
    <3> QED BY <3>1, <3>3
  <2>5. AbstractReply'[t] =
           [ok |-> Reply(store, r2).ok,
            vals |-> IF Reply(store, r2).ok
                     THEN Append(got, store[keys[i]]) \o Reply(store, r2).vals ELSE <<>>,
            keys |-> {}]
    BY <1>2, <1>4, <2>2, <2>3, <2>4 DEF AbstractReply, Reply
  <2>6. ReadsAt(store, keys, i, got, r, r2)
    BY <1>1, <1>3, <1>7, <2>4 DEF ReadsAt
  <2>7. /\ Reply(store, r).ok = Reply(store, r2).ok
        /\ Reply(store, r).ok => got \o Reply(store, r).vals =
               Append(got, store[keys[i]]) \o Reply(store, r2).vals
    <3>1. ReadTells(store, keys[i], got, r, r2)
      BY <2>6, ReadReply
    <3> QED BY <1>11, <3>1 DEF ReadTells
  <2>8. AbstractReply'[t] = AbstractReply[t]
    BY <1>9, <2>5, <2>7
  <2> QED BY <1>4, <1>5, <1>6, <2>3, <2>8, Stutters
<1> QED BY <1>10, <1>11

\* One iteration of MultiPut's loop: the keys it has written and the keys it
\* will write together are all.
LEMMA MultiPutRefines ==
    ASSUME LinInv, LinInv', NEW t \in Threads, MultiPutWrite(t)
    PROVE  UNCHANGED Abstract!vars
<1>1. /\ pc \in [Threads -> PCs] /\ idx \in [Threads -> Nat] /\ idx[t] >= 1
      /\ store \in [Keys -> Values \cup {Absent}] /\ ~Mismatched(req[t])
      /\ DataInv /\ LockInv /\ TypeOK /\ RequestFitsPC
  BY DEF LinInv, LockInv, DataInv, TypeOK, Indices, MultiPutWrite, Accessing
<1>2. /\ pc[t] = "access" /\ req[t].op = "MultiPut" /\ idx[t] <= Len(req[t].keys)
      /\ store' = [store EXCEPT ![Key(t)] = Val(t)]
      /\ req' = req /\ held' = held /\ pc' = pc /\ res' = res
      /\ idx' = [idx EXCEPT ![t] = idx[t] + 1]
  BY <1>1 DEF MultiPutWrite, Accessing
<1>3. PICK keys \in Seq(Keys), vals \in Seq(Values), i \in Nat :
        /\ keys = req[t].keys /\ vals = req[t].vals /\ i = idx[t]
        /\ Len(keys) = Len(vals) /\ i \in 1..Len(keys)
  <2>1. req[t] \in Requests
    BY <1>1, <1>2 DEF RequestFitsPC
  <2>2. req[t].keys \in Seq(Keys) /\ req[t].vals \in Seq(Values)
    BY <2>1, RequestAssumption
  <2>3. idx[t] \in 1..Len(req[t].keys) /\ Len(req[t].keys) = Len(req[t].vals)
    BY <1>1, <1>2, <2>2 DEF Mismatched
  <2> QED BY <2>2, <2>3
<1>4. Key(t) = keys[i] /\ Val(t) = vals[i] /\ keys[i] \in Keys
  BY <1>3 DEF Key, Val
<1>5. BucketOf[keys[i]] \in held[t]
  BY <1>2, <1>3 DEF LinInv, LockInv, TouchesHeld, Needed
<1>6. ~Scanning(t) /\ ~Scanning(t)' /\ Writes(req[t])
  BY <1>2 DEF Scanning, Writes
<1>7. WritesLocked(t)
  BY <1>1, <1>2, <1>4, <1>5, <1>6 DEF WritesLocked, Writing
<1>8. Quiet(t) /\ pc'[t] = "access" /\ idx'[t] = i + 1
  BY <1>1, <1>2, <1>3 DEF Quiet
<1>9. AbstractCall'[t] = AbstractCall[t]
  BY <1>2, <1>6 DEF AbstractCall
<1>10. PICK r, r2 :
         /\ r = Rest(t) /\ r2 = Rest(t)' /\ r.op = "MultiPut" /\ r2.op = "MultiPut"
         /\ r.keys = SubSeq(keys, i, Len(keys)) /\ r.vals = SubSeq(vals, i, Len(vals))
         /\ r2.keys = SubSeq(keys, i + 1, Len(keys)) /\ r2.vals = SubSeq(vals, i + 1, Len(vals))
  <2>1. Rest(t) = [op |-> "MultiPut", keys |-> SubSeq(keys, i, Len(keys)),
                   vals |-> SubSeq(vals, i, Len(vals))]
    BY <1>2, <1>3 DEF Rest
  <2>2. req'[t] = req[t] /\ idx'[t] = i + 1
    BY <1>2, <1>8
  <2>3. Rest(t)' = [op |-> "MultiPut", keys |-> SubSeq(keys, i + 1, Len(keys)),
                    vals |-> SubSeq(vals, i + 1, Len(vals))]
    BY <1>2, <1>3, <2>2 DEF Rest
  <2>4. PICK r, r2 : r = Rest(t) /\ r2 = Rest(t)'
    OBVIOUS
  <2>5. /\ r.op = "MultiPut" /\ r2.op = "MultiPut"
        /\ r.keys = SubSeq(keys, i, Len(keys)) /\ r.vals = SubSeq(vals, i, Len(vals))
        /\ r2.keys = SubSeq(keys, i + 1, Len(keys)) /\ r2.vals = SubSeq(vals, i + 1, Len(vals))
    BY <2>1, <2>3, <2>4
  <2> QED BY <2>4, <2>5
<1>11. Semantics!WellFormed(r) /\ Semantics!WellFormed(r2)
  BY <1>3, <1>10 DEF Semantics!WellFormed
<1>12. AbstractReply'[t] = AbstractReply[t]
  <2>1. Semantics!Reply(store, r) = [ok |-> TRUE, vals |-> <<>>, keys |-> {}]
    BY <1>10, <1>11 DEF Semantics!Reply, Semantics!Succeeds, Semantics!Reads
  <2>2. Semantics!Reply(store', r2) = [ok |-> TRUE, vals |-> <<>>, keys |-> {}]
    BY <1>10, <1>11 DEF Semantics!Reply, Semantics!Succeeds, Semantics!Reads
  <2> QED BY <1>2, <1>6, <1>8, <1>10, <2>1, <2>2 DEF AbstractReply
<1>13. ASSUME NEW k \in Keys, Writing(t, k) \/ Writing(t, k)'
       PROVE  AbstractStore'[k] = AbstractStore[k]
  <2>1. Writing(t, k) /\ Writing(t, k)'
    BY <1>2, <1>13 DEF Writing
  <2>2. AbstractStore[k] = Effect(store, r)[k] /\ AbstractStore'[k] = Effect(store', r2)[k]
    BY <1>10, <2>1 DEF LinInv, ViewOK
  <2>3. /\ Effect(store, r) = Semantics!Assign(store, r.keys, r.vals)
        /\ Effect(store', r2) = Semantics!Assign(store', r2.keys, r2.vals)
    BY <1>10, <1>11 DEF Effect, Semantics!Effect
  <2>4. PICK m2 : m2 = store'
    OBVIOUS
  <2>5. (keys[i] = k => m2[k] = vals[i]) /\ (keys[i] # k => m2[k] = store[k])
    BY <1>1, <1>2, <1>4, <2>4
  <2>6. Semantics!Assign(store, SubSeq(keys, i, Len(keys)), SubSeq(vals, i, Len(vals)))[k] =
        Semantics!Assign(m2, SubSeq(keys, i + 1, Len(keys)), SubSeq(vals, i + 1, Len(vals)))[k]
    <3>1. Assigns(store, m2, keys, vals, i, k)
      BY <1>3, <2>5 DEF Assigns
    <3> QED BY <3>1, AssignStep
  <2> QED BY <1>10, <2>2, <2>3, <2>4, <2>6
<1> QED BY <1>7, <1>8, <1>9, <1>12, <1>13, Stutters

\* When the loop is over there is nothing left to do.
LEMMA EndAccessRefines ==
    ASSUME LinInv, LinInv', NEW t \in Threads, EndAccess(t)
    PROVE  UNCHANGED Abstract!vars
<1>1. /\ pc \in [Threads -> PCs] /\ idx \in [Threads -> Nat]
      /\ res \in [Threads -> [ok : BOOLEAN, vals : Seq(Values), keys : SUBSET Keys]]
      /\ pc[t] = "access" /\ RequestFitsPC /\ ~Mismatched(req[t])
      /\ req[t].op \in {"MultiGet", "MultiPut"} /\ idx[t] > Len(req[t].keys)
  BY DEF LinInv, LockInv, DataInv, TypeOK, Indices, EndAccess, Accessing
<1>2. /\ res' = [res EXCEPT ![t].ok = TRUE] /\ pc' = [pc EXCEPT ![t] = "unlock"]
      /\ store' = store /\ req' = req /\ held' = held /\ idx' = idx
  BY DEF EndAccess, Goto
<1>3. PICK got \in Seq(Values) : got = res[t].vals
  BY <1>1
<1>4. res'[t].ok = TRUE /\ res'[t].vals = got /\ \A u \in Threads \ {t} : res'[u] = res[u]
  BY <1>1, <1>2, <1>3
<1>5. Quiet(t) /\ pc'[t] = "unlock" /\ WritesLocked(t)
  BY <1>1, <1>2, <1>4 DEF Quiet, WritesLocked
<1>6. ~Scanning(t) /\ ~Scanning(t)'
  BY <1>1, <1>2 DEF Scanning
<1>7. AbstractCall'[t] = AbstractCall[t]
  BY <1>2, <1>6 DEF AbstractCall
<1>8. PICK r : /\ r = Rest(t) /\ r.op = req[t].op /\ r.keys = <<>>
               /\ (r.op = "MultiPut" => r.vals = <<>>)
  <2>1. req[t] \in Requests
    BY <1>1 DEF RequestFitsPC
  <2>2. PICK keys \in Seq(Keys), vals \in Seq(Values) : keys = req[t].keys /\ vals = req[t].vals
    BY <2>1, RequestAssumption
  <2>3. SubSeq(keys, idx[t], Len(keys)) = <<>>
    BY <1>1, <2>2
  <2>4. req[t].op = "MultiPut" => SubSeq(vals, idx[t], Len(vals)) = <<>>
    BY <1>1, <2>2 DEF Mismatched
  <2>5. Rest(t) = [op |-> req[t].op, keys |-> SubSeq(keys, idx[t], Len(keys)),
                   vals |-> SubSeq(vals, idx[t], Len(vals))]
    BY <2>2 DEF Rest
  <2>6. PICK r : r = Rest(t)
    OBVIOUS
  <2>7. r.op = req[t].op /\ r.keys = <<>> /\ (r.op = "MultiPut" => r.vals = <<>>)
    BY <2>3, <2>4, <2>5, <2>6
  <2> QED BY <2>6, <2>7
<1>9. DOMAIN r.keys = {} /\ Semantics!WellFormed(r)
  BY <1>8 DEF Semantics!WellFormed
<1>10. AbstractReply[t] = [ok |-> TRUE, vals |-> got, keys |-> {}]
  <2>1. Semantics!Succeeds(store, r) = TRUE
    BY <1>9 DEF Semantics!Succeeds
  <2>2. [i \in DOMAIN r.keys |-> store[r.keys[i]]] = <<>>
    BY <1>9
  <2>3. PICK rest : rest = Semantics!Reply(store, r) /\ rest.ok = TRUE /\ rest.vals = <<>>
    <3>1. PICK vs : vs = [i \in DOMAIN r.keys |-> store[r.keys[i]]] /\ vs = <<>>
      BY <2>2
    <3>2. Semantics!Reply(store, r).vals = <<>> /\ Semantics!Reply(store, r).ok = TRUE
      BY <2>1, <3>1 DEF Semantics!Reply
    <3> QED BY <3>2
  <2>4. got \o <<>> = got
    OBVIOUS
  <2>5. AbstractReply[t] = [ok |-> rest.ok,
                            vals |-> IF rest.ok THEN res[t].vals \o rest.vals ELSE <<>>,
                            keys |-> {}]
    BY <1>1, <1>6, <1>8, <2>3 DEF AbstractReply
  <2> QED BY <1>3, <2>3, <2>4, <2>5
<1>11. AbstractReply'[t] = [ok |-> TRUE, vals |-> got, keys |-> {}]
  BY <1>4, <1>5, <1>6 DEF AbstractReply
<1>12. ASSUME NEW k \in Keys, Writing(t, k) \/ Writing(t, k)'
       PROVE  AbstractStore'[k] = AbstractStore[k]
  <2>1. Writing(t, k) /\ ~Writing(t, k)'
    BY <1>5, <1>12 DEF Writing
  <2>2. AbstractStore'[k] = store[k]
    BY <1>2, <1>5, <2>1, DoneWriting
  <2>3. AbstractStore[k] = Effect(store, r)[k]
    BY <1>8, <2>1 DEF LinInv, ViewOK
  <2>4. r.op = "MultiPut"
    BY <1>1, <1>8, <2>1 DEF Writing, Writes
  <2>5. Effect(store, r) = Semantics!Assign(store, r.keys, r.vals)
    BY <1>9, <2>4 DEF Effect, Semantics!Effect
  <2>6. Semantics!Assign(store, r.keys, r.vals)[k] = store[k]
    BY <1>9, NotAssigned
  <2> QED BY <2>2, <2>3, <2>5, <2>6
<1> QED BY <1>5, <1>7, <1>10, <1>11, <1>12, Stutters

\* A call answers nothing before it is bound to.
LEMMA AnswersStep == LockInv /\ DataInv /\ Answers /\ [Next]_vars => Answers'
<1> SUFFICES ASSUME LockInv, DataInv, Answers, [Next]_vars PROVE Answers'
  OBVIOUS
<1>0. /\ pc \in [Threads -> PCs] /\ req \in [Threads -> Requests \cup {None}]
      /\ res \in [Threads -> [ok : BOOLEAN, vals : Seq(Values), keys : SUBSET Keys]]
  BY DEF DataInv, TypeOK
<1> USE DEF Answers
<1>1. ASSUME NEW t \in Threads, NEW r \in Requests, Invoke(t, r) PROVE Answers'
  BY <1>0, <1>1 DEF Invoke, Goto
<1>2. ASSUME NEW t \in Threads, MultiPutMismatch(t) \/ EndUnlock(t) \/ ScanEnd(t)
      PROVE  Answers'
  BY <1>0, <1>2 DEF MultiPutMismatch, EndUnlock, ScanEnd, Goto
<1>3. ASSUME NEW t \in Threads, LockNext(t) \/ UnlockNext(t) PROVE Answers'
  BY <1>0, <1>3 DEF LockNext, UnlockNext
<1>4. ASSUME NEW t \in Threads, StartAccess(t) PROVE Answers'
  <2>1. NoRes.ok = FALSE /\ NoRes.vals = <<>>
    BY DEF NoRes
  <2> QED BY <1>0, <1>4, <2>1 DEF StartAccess, Goto
<1>5. ASSUME NEW t \in Threads, NEW ok, NEW values, FinishSingle(t, ok, values)
      PROVE  Answers'
  BY <1>0, <1>5 DEF FinishSingle, Goto
<1>6. ASSUME NEW t \in Threads, MultiGetRead(t) PROVE Answers'
  <2>1. pc[t] = "access" /\ req[t].op = "MultiGet" /\ req' = req /\ ~res[t].ok
    BY <1>6 DEF MultiGetRead, Accessing
  <2>2. CASE store[Key(t)] = Absent
    BY <1>0, <1>6, <2>1, <2>2 DEF MultiGetRead, Goto
  <2>3. CASE store[Key(t)] # Absent
    <3>1. PICK vs : res' = [res EXCEPT ![t].vals = vs] /\ pc' = pc
      BY <1>6, <2>3 DEF MultiGetRead
    <3> QED BY <1>0, <2>1, <3>1
  <2> QED BY <2>2, <2>3
<1>7. ASSUME NEW t \in Threads, MultiPutWrite(t) PROVE Answers'
  BY <1>0, <1>7 DEF MultiPutWrite
<1>8. ASSUME NEW t \in Threads, EndAccess(t) PROVE Answers'
  BY <1>0, <1>8 DEF EndAccess, Goto
<1>9. ASSUME NEW t \in Threads, ScanLock(t) PROVE Answers'
  BY <1>0, <1>9 DEF ScanLock, Goto
<1>10. ASSUME NEW t \in Threads, ScanBucket(t) PROVE Answers'
  <2>1. PICK found : res' = [res EXCEPT ![t].keys = found]
    BY <1>0, <1>10 DEF ScanBucket
  <2>2. \A u \in Threads \ {t} : res'[u] = res[u] /\ pc'[u] = pc[u] /\ req'[u] = req[u]
    BY <1>0, <1>10, <2>1 DEF ScanBucket, Goto
  <2>3. pc'[t] = "scan_lock"
    BY <1>0, <1>10 DEF ScanBucket, Goto
  <2> QED BY <2>2, <2>3
<1>11. ASSUME NEW t \in Threads, Return(t) PROVE Answers'
  BY <1>0, <1>11 DEF Return, Goto
<1>12. CASE UNCHANGED vars
  BY <1>12 DEF vars
<1>13. ASSUME NEW t \in Threads, Get(t) \/ Put(t) \/ DoAppend(t) \/ Delete(t) PROVE Answers'
  <2>1. \E ok, values : FinishSingle(t, ok, values)
    BY <1>13 DEF Get, Put, DoAppend, Delete
  <2> QED BY <1>5, <2>1
<1> QED BY <1>1, <1>2, <1>3, <1>4, <1>6, <1>7, <1>8, <1>9, <1>10, <1>11, <1>12, <1>13
   DEF Next, Begin, Step, Act

\* The invariant of the refinement holds in every reachable state.
LEMMA LinInvariance == Spec => []LinInv
<1>1. Init => Answers
  BY DEF Init, Answers
<1> QED BY <1>1, AnswersStep, LockInvariance, DataInvariance, View, PTL DEF Spec, LinInv

\* The store is empty and nobody has called, in both.
LEMMA InitRefines == Init => Abstract!Init
<1> SUFFICES ASSUME Init PROVE Abstract!Init
  OBVIOUS
<1>1. AbstractStore = [k \in Keys |-> Absent]
  BY DEF Init, AbstractStore
<1>2. AbstractCall = [t \in Threads |-> None]
  BY DEF Init, AbstractCall, Scanning
<1>3. AbstractReply = [t \in Threads |-> None]
  BY DEF Init, AbstractReply, Scanning
<1> QED BY <1>1, <1>2, <1>3 DEF Abstract!Init

\* Every step is one of the abstract store's, or none.
LEMMA StepRefines == LinInv /\ LinInv' /\ [Next]_vars => [Abstract!Next]_Abstract!vars
<1> SUFFICES ASSUME LinInv, LinInv', [Next]_vars PROVE [Abstract!Next]_Abstract!vars
  OBVIOUS
<1>1. ASSUME NEW t \in Threads, Begin(t) PROVE [Abstract!Next]_Abstract!vars
  <2>1. PICK r \in Requests : Invoke(t, r)
    BY <1>1 DEF Begin
  <2>2. Abstract!Invoke(t, r) \/ UNCHANGED Abstract!vars
    BY <2>1, InvokeRefines
  <2> QED BY <2>2 DEF Abstract!Next
<1>2. ASSUME NEW t \in Threads, Act(t) PROVE [Abstract!Next]_Abstract!vars
  <2>1. CASE \/ LockNext(t) \/ UnlockNext(t) \/ EndUnlock(t)
             \/ ScanLock(t) \/ ScanBucket(t) \/ ScanEnd(t)
    BY <2>1, SilentSteps
  <2>2. CASE StartAccess(t)
    BY <2>2, StartPerforms DEF Abstract!Next
  <2>3. CASE MultiPutMismatch(t)
    BY <2>3, MismatchPerforms DEF Abstract!Next
  <2>4. CASE Get(t) \/ Put(t) \/ DoAppend(t) \/ Delete(t)
    BY <2>4, SinglesRefine
  <2>5. CASE MultiGetRead(t)
    BY <2>5, MultiGetRefines
  <2>6. CASE MultiPutWrite(t)
    BY <2>6, MultiPutRefines
  <2>7. CASE EndAccess(t)
    BY <2>7, EndAccessRefines
  <2>8. CASE Return(t)
    BY <2>8, ReturnRefines DEF Abstract!Next
  <2> QED BY <1>2, <2>1, <2>2, <2>3, <2>4, <2>5, <2>6, <2>7, <2>8 DEF Act
<1>3. CASE UNCHANGED vars
  <2>1. UNCHANGED <<store, pc, req, held, idx, res>>
    BY <1>3 DEF vars
  <2>2. \A t \in Threads : Rest(t)' = Rest(t) /\ Scanning(t)' = Scanning(t)
    BY <2>1 DEF Rest, Scanning
  <2>3. AbstractCall' = AbstractCall
    BY <2>1, <2>2 DEF AbstractCall
  <2>4. \A t \in Threads : AbstractReply'[t] = AbstractReply[t]
    BY <2>1, <2>2 DEF AbstractReply
  <2>5. AbstractReply' = AbstractReply
    BY <2>4 DEF AbstractReply
  <2>6. ASSUME NEW k \in Keys PROVE AbstractStore'[k] = AbstractStore[k]
    <3>1. \A t \in Threads : Writing(t, k)' <=> Writing(t, k)
      BY <2>1 DEF Writing
    <3>2. CASE \E t \in Threads : Writing(t, k)
      <4>1. PICK t \in Threads : Writing(t, k)
        BY <3>2
      <4>2. AbstractStore[k] = Effect(store, Rest(t))[k]
        BY <4>1 DEF LinInv, ViewOK
      <4>3. AbstractStore'[k] = Effect(store', Rest(t)')[k]
        BY <3>1, <4>1 DEF LinInv, ViewOK
      <4> QED BY <2>1, <2>2, <4>2, <4>3
    <3>3. CASE \A t \in Threads : ~Writing(t, k)
      BY <2>1, <3>1, <3>3 DEF LinInv, ViewOK
    <3> QED BY <3>2, <3>3
  <2>7. AbstractStore' = AbstractStore
    BY <2>6 DEF AbstractStore
  <2> QED BY <2>3, <2>5, <2>7 DEF Abstract!vars
<1> QED BY <1>1, <1>2, <1>3 DEF Next, Step

\* Linearizability: every call but AllKeys takes effect as a whole at one
\* instant between its invocation and its return, and returns what the store
\* held at that instant, for any threads, keys, buckets and requests.
THEOREM Linearizable == Spec => ImplementsKvStore
BY InitRefines, StepRefines, LinInvariance, PTL DEF Spec, ImplementsKvStore, Abstract!Spec

-----------------------------------------------------------------------------
(* The store with one mutex.  Its variables that ConcurrentKvStore does not*)
(* have; the others, and the constants, have the same names.               *)

VARIABLES KeyValueMap, mutex_1

Simple == INSTANCE SimpleKvStore

Results == [ok : BOOLEAN, vals : Seq(Values), keys : SUBSET Keys]

\* What each thread has at its place in the code; the mutex is with the
\* thread that accesses the map.
Placed(t) ==
    /\ pc[t] = "idle" => req[t] = None
    /\ pc[t] # "idle" => req[t] \in Requests
    /\ pc[t] \in {"idle", "lock"} => idx[t] = 1 /\ res[t] = Simple!NoRes
    /\ (pc[t] = "access") <=> (mutex_1 = t)
    /\ pc[t] = "access" =>
          /\ idx[t] <= Len(req[t].keys) + 1
          /\ \/ idx[t] = 1
             \/ req[t].op = "MultiGet"
             \/ req[t].op = "MultiPut" /\ ~Simple!Mismatched(t)
          /\ req[t].op # "MultiGet" => res[t] = Simple!NoRes
          /\ res[t].keys = {}

SimpleInv == Simple!TypeOK /\ \A t \in Threads : Placed(t)

\* Thread t alone moves.
Alone(t) ==
    \A u \in Threads \ {t} :
        pc'[u] = pc[u] /\ req'[u] = req[u] /\ idx'[u] = idx[u] /\ res'[u] = res[u]

\* A step leaves the other threads where they are, if the mutex has not been
\* taken from one of them.
LEMMA OthersPlaced ==
    ASSUME SimpleInv, NEW t \in Threads, Alone(t),
           mutex_1' # mutex_1 => mutex_1 \in {t, None} /\ mutex_1' \in {t, None}
    PROVE  \A u \in Threads \ {t} : Placed(u)'
<1> SUFFICES ASSUME NEW u \in Threads \ {t} PROVE Placed(u)'
  OBVIOUS
<1>1. Placed(u) /\ None \notin Threads
  BY NoneAssumption DEF SimpleInv
<1>2. (mutex_1' = u) <=> (mutex_1 = u)
  BY <1>1
<1>3. (pc'[u] = "access") <=> (mutex_1' = u)
  BY <1>1, <1>2 DEF Alone, Placed
<1> QED BY <1>1, <1>3 DEF Placed, Alone, Simple!Mismatched

LEMMA SimpleRequests ==
    ASSUME NEW r \in Requests
    PROVE  /\ r.keys \in Seq(Keys) /\ r.vals \in Seq(Values) /\ r.op \in Ops
           /\ r.op \in SingleOps => Len(r.keys) = 1 /\ 1 \in DOMAIN r.keys /\ r.keys[1] \in Keys
           /\ r.op \in {"Put", "Append"} => r.vals[1] \in Values
  BY RequestAssumption

\* Every operation but a turn of a loop ends like this.
LEMMA FinishKeeps ==
    ASSUME SimpleInv, NEW t \in Threads, pc[t] = "access", NEW x \in Results,
           Simple!Finish(t, x), KeyValueMap' \in [Keys -> Values \cup {Absent}]
    PROVE  SimpleInv' /\ Alone(t) /\ pc'[t] = "done" /\ res'[t] = x
<1> USE DEF Simple!Finish, Simple!Goto
<1>1. Simple!TypeOK
  BY DEF SimpleInv
<1>2. /\ pc' = [pc EXCEPT ![t] = "done"] /\ res' = [res EXCEPT ![t] = x]
      /\ mutex_1' = None /\ UNCHANGED <<req, idx, calls>> /\ mutex_1 = t
  BY DEF SimpleInv, Placed
<1>3. Alone(t) /\ pc'[t] = "done" /\ res'[t] = x
  BY <1>1, <1>2 DEF Alone, Simple!TypeOK
<1>4. Simple!TypeOK'
  BY <1>1, <1>2 DEF Simple!TypeOK, Results, Simple!Values, Values
<1>5. Placed(t)'
  BY <1>2, <1>3, NoneAssumption DEF Placed, SimpleInv
<1>6. \A u \in Threads \ {t} : Placed(u)'
  BY <1>2, <1>3, OthersPlaced
<1> QED BY <1>3, <1>4, <1>5, <1>6 DEF SimpleInv

\* What a call accesses, and may write.
LEMMA SimpleAccess ==
    ASSUME SimpleInv, NEW t \in Threads, pc[t] = "access"
    PROVE  /\ req[t] \in Requests /\ res[t] \in Results /\ mutex_1 = t
           /\ idx[t] \in Nat \ {0}
           /\ KeyValueMap \in [Keys -> Values \cup {Absent}] /\ IsStore(KeyValueMap)
<1>1. KeyValueMap \in [Keys -> Values \cup {Absent}]
  BY DEF SimpleInv, Simple!TypeOK, Simple!Values, Values
<1> QED BY <1>1 DEF SimpleInv, Placed, Simple!TypeOK, Simple!Values, Values, Results, IsStore

\* What is left of a request at its first key is the request.
LEMMA SimpleWhole ==
    ASSUME NEW t \in Threads, req[t] \in Requests, idx[t] = 1
    PROVE  Simple!Rest(t) = req[t]
  BY RestWhole DEF Rest, Simple!Rest

\* KvStore's meanings are the same.
LEMMA SameEffect ==
    ASSUME NEW m, NEW r
    PROVE  Simple!Semantics!Effect(m, r) = Effect(m, r)
<1>1. \A keys, vals : Simple!Semantics!Assign(m, keys, vals) = Semantics!Assign(m, keys, vals)
  BY DEF Simple!Semantics!Assign, Semantics!Assign
<1> QED BY <1>1 DEF Simple!Semantics!Effect, Effect, Semantics!Effect,
                    Simple!Semantics!WellFormed, Semantics!WellFormed

LEMMA SameReply ==
    ASSUME NEW m, NEW r
    PROVE  Simple!Semantics!Reply(m, r) = Reply(m, r)
  BY DEF Simple!Semantics!Reply, Reply, Semantics!Reply,
         Simple!Semantics!Succeeds, Semantics!Succeeds,
         Simple!Semantics!WellFormed, Semantics!WellFormed,
         Simple!Semantics!Reads, Semantics!Reads,
         Simple!Semantics!Present, Semantics!Present

\* An answer has the type of one, and has no values when it fails.
LEMMA ReplyTyped ==
    ASSUME NEW m \in [Keys -> Values \cup {Absent}], NEW r, r.keys \in Seq(Keys)
    PROVE  Reply(m, r) \in Results /\ (~Reply(m, r).ok => Reply(m, r).vals = <<>>)
<1>1. PICK ok \in BOOLEAN : ok = Semantics!Succeeds(m, r)
  BY DEF Semantics!Succeeds, Semantics!WellFormed
<1>2. PICK vs : vs = IF Semantics!Succeeds(m, r) /\ Semantics!Reads(r)
                     THEN [i \in DOMAIN r.keys |-> m[r.keys[i]]] ELSE <<>>
  OBVIOUS
<1>3. vs \in Seq(Values)
  <2>1. CASE Semantics!Succeeds(m, r) /\ Semantics!Reads(r)
    <3>1. PICK n \in Nat : DOMAIN r.keys = 1..n
      OBVIOUS
    <3>2. \A i \in 1..n : r.keys[i] \in Keys /\ m[r.keys[i]] # Absent
      BY <2>1, <3>1 DEF Semantics!Succeeds
    <3>3. \A i \in 1..n : m[r.keys[i]] \in Values
      BY <3>2
    <3> QED BY <1>2, <2>1, <3>1, <3>3
  <2>2. CASE ~(Semantics!Succeeds(m, r) /\ Semantics!Reads(r))
    BY <1>2, <2>2
  <2> QED BY <2>1, <2>2
<1>4. PICK ks \in SUBSET Keys : ks = IF r.op = "AllKeys" THEN Semantics!Present(m) ELSE {}
  BY DEF Semantics!Present
<1>5. Reply(m, r) = [ok |-> ok, vals |-> vs, keys |-> ks]
  BY <1>1, <1>2, <1>4 DEF Reply, Semantics!Reply
<1>6. ~ok => vs = <<>>
  BY <1>1, <1>2
<1> QED BY <1>3, <1>5, <1>6 DEF Results

\* What has been answered and what is still to be answered.
Joined(a, b) ==
    [ok |-> a.ok /\ b.ok, vals |-> IF a.ok /\ b.ok THEN a.vals \o b.vals ELSE <<>>,
     keys |-> a.keys \cup b.keys]

LEMMA JoinedNone ==
    ASSUME NEW x \in Results, ~x.ok => x.vals = <<>>
    PROVE  Joined(x, Simple!NoRes) = x /\ Joined(Simple!NoRes, x) = x
<1>1. PICK ok \in BOOLEAN, vs \in Seq(Values), ks \in SUBSET Keys :
         x = [ok |-> ok, vals |-> vs, keys |-> ks]
  BY DEF Results
<1>2. vs \o <<>> = vs /\ <<>> \o vs = vs /\ (~ok => vs = <<>>)
  BY <1>1
<1>3. (ok /\ TRUE) = ok /\ (TRUE /\ ok) = ok /\ ks \cup {} = ks /\ {} \cup ks = ks
  OBVIOUS
<1> QED BY <1>1, <1>2, <1>3 DEF Joined, Simple!NoRes

\* The abstract reply, and the abstract store, of a state.
SimpleViewOK ==
    /\ \A t \in Threads : Simple!AbstractReply[t] =
          IF pc[t] \in {"idle", "lock"} THEN None
          ELSE Joined(res[t], IF pc[t] = "access" THEN Reply(KeyValueMap, Simple!Rest(t))
                              ELSE Simple!NoRes)
    /\ \A t \in Threads :
          pc[t] = "access" => Simple!AbstractStore = Effect(KeyValueMap, Simple!Rest(t))
    /\ mutex_1 = None => Simple!AbstractStore = KeyValueMap
    /\ Simple!AbstractReply = [t \in Threads |-> Simple!AbstractReply[t]]

LEMMA SimpleView == SimpleInv => SimpleViewOK
<1> SUFFICES ASSUME SimpleInv PROVE SimpleViewOK
  OBVIOUS
<1>1. ASSUME NEW t \in Threads
      PROVE  Simple!AbstractReply[t] =
                IF pc[t] \in {"idle", "lock"} THEN None
                ELSE Joined(res[t], IF pc[t] = "access" THEN Reply(KeyValueMap, Simple!Rest(t))
                                    ELSE Simple!NoRes)
  BY SameReply DEF Simple!AbstractReply, Joined
<1>2. ASSUME NEW t \in Threads, pc[t] = "access"
      PROVE  Simple!AbstractStore = Effect(KeyValueMap, Simple!Rest(t))
  BY <1>2, SameEffect DEF Simple!AbstractStore, SimpleInv, Placed
<1>3. mutex_1 = None => Simple!AbstractStore = KeyValueMap
  BY NoneAssumption DEF Simple!AbstractStore
<1>4. Simple!AbstractReply = [t \in Threads |-> Simple!AbstractReply[t]]
  <2>1. PICK F : F = [t \in Threads |->
                        IF pc[t] \in {"idle", "lock"} THEN None
                        ELSE Joined(res[t], IF pc[t] = "access"
                                            THEN Reply(KeyValueMap, Simple!Rest(t))
                                            ELSE Simple!NoRes)]
    OBVIOUS
  <2>2. Simple!AbstractReply = F
    BY <2>1, SameReply DEF Simple!AbstractReply, Joined
  <2>3. F = [t \in Threads |-> F[t]]
    BY <2>1
  <2> QED BY <2>2, <2>3
<1> QED BY <1>1, <1>2, <1>3, <1>4 DEF SimpleViewOK

\* The same in the next state.
LEMMA SimpleViewNext == SimpleInv' => SimpleViewOK'
  BY SimpleView, PTL

\* The threads that do not move see the same, unless the map changes while they
\* access it, which the mutex excludes.
LEMMA OthersSee ==
    ASSUME SimpleInv, SimpleInv', NEW t \in Threads, Alone(t),
           NEW u \in Threads \ {t}, KeyValueMap' = KeyValueMap \/ pc[u] # "access"
    PROVE  Simple!AbstractReply'[u] = Simple!AbstractReply[u]
<1>1. pc'[u] = pc[u] /\ res'[u] = res[u] /\ Simple!Rest(u)' = Simple!Rest(u)
  BY DEF Alone, Simple!Rest
<1>2. Simple!AbstractReply[u] =
        IF pc[u] \in {"idle", "lock"} THEN None
        ELSE Joined(res[u], IF pc[u] = "access" THEN Reply(KeyValueMap, Simple!Rest(u))
                            ELSE Simple!NoRes)
  BY SimpleView DEF SimpleViewOK
<1>3. Simple!AbstractReply'[u] =
        IF pc'[u] \in {"idle", "lock"} THEN None
        ELSE Joined(res'[u], IF pc'[u] = "access" THEN Reply(KeyValueMap', Simple!Rest(u)')
                             ELSE Simple!NoRes)
  BY SimpleViewNext DEF SimpleViewOK
<1> QED BY <1>1, <1>2, <1>3

\* A reply for every thread.
LEMMA SameReplies ==
    ASSUME SimpleInv, SimpleInv',
           NEW t \in Threads, Simple!AbstractReply'[t] = Simple!AbstractReply[t],
           \A u \in Threads \ {t} : Simple!AbstractReply'[u] = Simple!AbstractReply[u]
    PROVE  Simple!AbstractReply' = Simple!AbstractReply
<1>1. PICK f : f = Simple!AbstractReply /\ f = [u \in Threads |-> f[u]]
  BY SimpleView DEF SimpleViewOK
<1>2. PICK g : g = Simple!AbstractReply' /\ g = [u \in Threads |-> g[u]]
  BY SimpleViewNext DEF SimpleViewOK
<1>3. \A u \in Threads : g[u] = f[u]
  BY <1>1, <1>2
<1>4. f = g
  BY <1>1, <1>2, <1>3
<1> QED BY <1>1, <1>2, <1>4

\* The last step of a call has been its effect and its answer all along.
Ends(t, x) ==
    /\ pc[t] = "access" /\ x \in Results /\ Simple!Finish(t, x)
    /\ KeyValueMap' \in [Keys -> Values \cup {Absent}]
    /\ KeyValueMap' = Effect(KeyValueMap, Simple!Rest(t))
    /\ Joined(x, Simple!NoRes) = Joined(res[t], Reply(KeyValueMap, Simple!Rest(t)))

LEMMA EndsRefine ==
    ASSUME SimpleInv, NEW t \in Threads, NEW x, Ends(t, x)
    PROVE  SimpleInv' /\ UNCHANGED Simple!Abstract!vars
<1>1. SimpleInv' /\ Alone(t) /\ pc'[t] = "done" /\ res'[t] = x
  BY FinishKeeps DEF Ends
<1>2. mutex_1 = t /\ mutex_1' = None /\ req' = req
  BY SimpleAccess DEF Ends, Simple!Finish
<1>3. Simple!AbstractStore' = Simple!AbstractStore
  <2>1. Simple!AbstractStore = Effect(KeyValueMap, Simple!Rest(t))
    BY SimpleView DEF Ends, SimpleViewOK
  <2>2. Simple!AbstractStore' = KeyValueMap'
    BY <1>1, <1>2, SimpleViewNext DEF SimpleViewOK
  <2> QED BY <2>1, <2>2 DEF Ends
<1>4. Simple!AbstractReply'[t] = Simple!AbstractReply[t]
  <2>1. Simple!AbstractReply[t] = Joined(res[t], Reply(KeyValueMap, Simple!Rest(t)))
    BY SimpleView DEF Ends, SimpleViewOK
  <2>2. Simple!AbstractReply'[t] = Joined(x, Simple!NoRes)
    BY <1>1, SimpleViewNext DEF SimpleViewOK
  <2> QED BY <2>1, <2>2 DEF Ends
<1>5. \A u \in Threads \ {t} : Simple!AbstractReply'[u] = Simple!AbstractReply[u]
  <2> SUFFICES ASSUME NEW u \in Threads \ {t}
               PROVE  Simple!AbstractReply'[u] = Simple!AbstractReply[u]
    OBVIOUS
  <2>1. pc[u] # "access"
    BY <1>2 DEF SimpleInv, Placed
  <2> QED BY <1>1, <2>1, OthersSee
<1>6. Simple!AbstractReply' = Simple!AbstractReply
  BY <1>1, <1>4, <1>5, SameReplies
<1> QED BY <1>1, <1>2, <1>3, <1>6 DEF Simple!Abstract!vars

\* A call on one key, and AllKeys, and a MultiPut that is rejected: the whole
\* of the request is done in one step.
LEMMA WholeEnds ==
    ASSUME SimpleInv, NEW t \in Threads, pc[t] = "access", idx[t] = 1, res[t] = Simple!NoRes,
           Simple!Finish(t, Reply(KeyValueMap, req[t])),
           KeyValueMap' \in [Keys -> Values \cup {Absent}],
           KeyValueMap' = Effect(KeyValueMap, req[t])
    PROVE  \E x : Ends(t, x)
<1>1. Simple!Rest(t) = req[t] /\ KeyValueMap \in [Keys -> Values \cup {Absent}]
  BY SimpleAccess, SimpleWhole
<1>2. req[t].keys \in Seq(Keys)
  BY SimpleAccess, SimpleRequests
<1>3. PICK x \in Results : x = Reply(KeyValueMap, req[t]) /\ (~x.ok => x.vals = <<>>)
  BY <1>1, <1>2, ReplyTyped
<1>4. Joined(x, Simple!NoRes) = x /\ Joined(Simple!NoRes, x) = x
  BY <1>3, JoinedNone
<1>5. Ends(t, x)
  BY <1>1, <1>3, <1>4 DEF Ends
<1> QED BY <1>5

\* Get, Put, Append and Delete.
LEMMA SinglesEnd ==
    ASSUME SimpleInv, NEW t \in Threads,
           Simple!Get(t) \/ Simple!Put(t) \/ Simple!DoAppend(t) \/ Simple!Delete(t)
    PROVE  \E x : Ends(t, x)
<1> DEFINE r == req[t]
           m == KeyValueMap
           k == r.keys[1]
<1>1. pc[t] = "access" /\ r.op \in SingleOps
  BY DEF Simple!Get, Simple!Put, Simple!DoAppend, Simple!Delete, Simple!Accessing, SingleOps
<1>2. /\ r \in Requests /\ m \in [Keys -> Values \cup {Absent}] /\ IsStore(m)
      /\ idx[t] = 1 /\ res[t] = Simple!NoRes
  BY <1>1, SimpleAccess DEF SimpleInv, Placed, SingleOps
<1>3. /\ k \in Keys /\ Meaning(m, r) /\ r.keys \in Seq(Keys)
      /\ r.op \in {"Put", "Append"} => r.vals[1] \in Values
  BY <1>1, <1>2, SingleMeaning, SimpleRequests
<1>4. Simple!Key(t) = k /\ Simple!Val(t) = r.vals[1] /\ Simple!Found(t) = (m[k] # Absent)
  BY <1>2 DEF Simple!Key, Simple!Val, Simple!Found
<1>5. PICK y : /\ y = Reply(m, r) /\ y \in Results /\ (~y.ok => y.vals = <<>>) /\ y.keys = {}
               /\ y = [ok |-> y.ok, vals |-> y.vals, keys |-> {}]
  <2>1. Reply(m, r) \in Results /\ (~Reply(m, r).ok => Reply(m, r).vals = <<>>)
    BY <1>2, <1>3, ReplyTyped
  <2>2. Reply(m, r).keys = {}
    BY <1>1 DEF Reply, Semantics!Reply, SingleOps
  <2>3. PICK y : y = Reply(m, r)
    OBVIOUS
  <2> QED BY <2>1, <2>2, <2>3 DEF Results
<1> HIDE DEF r, m, k
<1>6. Simple!Lookup(t) = [ok |-> m[k] # Absent,
                          vals |-> IF m[k] # Absent THEN <<m[k]>> ELSE <<>>, keys |-> {}]
  <2>1. PICK f \in BOOLEAN : f = Simple!Found(t) /\ f = (m[k] # Absent)
    BY <1>4
  <2>2. PICK vs : vs = IF f THEN <<m[k]>> ELSE <<>>
    OBVIOUS
  <2>3. Simple!Lookup(t) = [Simple!NoRes EXCEPT !.ok = f, !.vals = vs]
    BY <1>2, <1>4, <2>1, <2>2 DEF Simple!Lookup, m
  <2> QED BY <2>1, <2>2, <2>3 DEF Simple!NoRes
<1>7. r.op \in {"Get", "Delete"} => y = Simple!Lookup(t)
  <2>1. CASE m[k] # Absent
    BY <1>3, <1>5, <1>6, <2>1 DEF Meaning, k
  <2>2. CASE m[k] = Absent
    BY <1>3, <1>5, <1>6, <2>2 DEF Meaning, k
  <2> QED BY <2>1, <2>2
<1>8. r.op \in {"Put", "Append"} => y = res[t]
  BY <1>2, <1>3, <1>5 DEF Meaning, Simple!NoRes
<1>9. Effect(m, r) = [j \in Keys |-> Effect(m, r)[j]]
  BY <1>2, EffectDomain
<1>10. /\ m' = Effect(m, r) /\ m' \in [Keys -> Values \cup {Absent}]
       /\ Simple!Finish(t, y)
  <2>1. CASE Simple!Get(t)
    <3>1. r.op = "Get" /\ m' = m /\ Simple!Finish(t, Simple!Lookup(t))
      BY <2>1 DEF Simple!Get, Simple!Accessing, r, m
    <3> QED BY <1>2, <1>3, <1>7, <3>1 DEF Meaning
  <2>2. CASE Simple!Put(t)
    <3>1. r.op = "Put" /\ m' = [m EXCEPT ![k] = r.vals[1]] /\ Simple!Finish(t, res[t])
      BY <1>4, <2>2 DEF Simple!Put, Simple!Accessing, r, m
    <3>2. \A j \in Keys : m'[j] = Effect(m, r)[j]
      BY <1>2, <1>3, <3>1 DEF Meaning, k
    <3>3. m' \in [Keys -> Values \cup {Absent}]
      BY <1>2, <1>3, <3>1
    <3> QED BY <1>8, <1>9, <3>1, <3>2, <3>3
  <2>3. CASE Simple!DoAppend(t)
    <3>1. PICK v : v = IF m[k] = Absent THEN r.vals[1] ELSE m[k] \o r.vals[1]
      OBVIOUS
    <3>2. r.op = "Append" /\ m' = [m EXCEPT ![k] = v] /\ Simple!Finish(t, res[t])
      BY <1>2, <1>3, <1>4, <2>3, <3>1 DEF Simple!DoAppend, Simple!Accessing, r, m
    <3>3. v \in Values
      <4>1. CASE m[k] = Absent
        BY <1>3, <3>1, <3>2, <4>1
      <4>2. CASE m[k] # Absent
        <5>1. m[k] \in Seq(Vals) /\ r.vals[1] \in Seq(Vals)
          BY <1>2, <1>3, <3>2, <4>2 DEF Values
        <5> QED BY <3>1, <4>2, <5>1 DEF Values
      <4> QED BY <4>1, <4>2
    <3>4. m' \in [Keys -> Values \cup {Absent}]
      BY <1>2, <3>2, <3>3
    <3>5. \A j \in Keys : m'[j] = Effect(m, r)[j]
      BY <1>2, <1>3, <3>1, <3>2 DEF Meaning, k
    <3> QED BY <1>8, <1>9, <3>2, <3>4, <3>5
  <2>4. CASE Simple!Delete(t)
    <3>1. /\ r.op = "Delete" /\ m' = [m EXCEPT ![k] = Absent]
          /\ Simple!Finish(t, Simple!Lookup(t))
      BY <1>4, <2>4 DEF Simple!Delete, Simple!Accessing, r, m
    <3>2. \A j \in Keys : m'[j] = Effect(m, r)[j]
      BY <1>2, <1>3, <3>1 DEF Meaning, k
    <3>3. m' \in [Keys -> Values \cup {Absent}]
      BY <1>2, <3>1
    <3> QED BY <1>7, <1>9, <3>1, <3>2, <3>3
  <2> QED BY <2>1, <2>2, <2>3, <2>4
<1> QED BY <1>1, <1>2, <1>5, <1>10, WholeEnds DEF r, m

\* Changing one part of the first answer.
LEMMA NoResBut ==
    /\ \A P : [Simple!NoRes EXCEPT !.keys = P] = [ok |-> TRUE, vals |-> <<>>, keys |-> P]
    /\ [Simple!NoRes EXCEPT !.ok = FALSE] = [ok |-> FALSE, vals |-> <<>>, keys |-> {}]
<1>1. PICK yes, no, e, x : yes = TRUE /\ no = FALSE /\ e = <<>> /\ x = {}
  OBVIOUS
<1>2. PICK n : n = Simple!NoRes /\ n = [ok |-> yes, vals |-> e, keys |-> x]
  BY <1>1 DEF Simple!NoRes
<1>3. /\ \A P : [n EXCEPT !.keys = P] = [ok |-> yes, vals |-> e, keys |-> P]
      /\ [n EXCEPT !.ok = no] = [ok |-> no, vals |-> e, keys |-> x]
  BY <1>2
<1> QED BY <1>1, <1>2, <1>3

\* AllKeys, and a MultiPut whose vectors do not match.
LEMMA OthersEnd ==
    ASSUME SimpleInv, NEW t \in Threads, Simple!AllKeys(t) \/ Simple!MultiPutMismatch(t)
    PROVE  \E x : Ends(t, x)
<1>1. pc[t] = "access" /\ KeyValueMap' = KeyValueMap
  BY DEF Simple!AllKeys, Simple!MultiPutMismatch, Simple!Accessing
<1>2. /\ req[t] \in Requests /\ KeyValueMap \in [Keys -> Values \cup {Absent}]
  BY <1>1, SimpleAccess
<1>3. CASE Simple!AllKeys(t)
  <2>1. /\ req[t].op = "AllKeys" /\ idx[t] = 1 /\ res[t] = Simple!NoRes
        /\ Simple!Finish(t, [res[t] EXCEPT !.keys = Simple!Present])
    BY <1>1, <1>3 DEF Simple!AllKeys, Simple!Accessing, SimpleInv, Placed
  <2>2. Reply(KeyValueMap, req[t]) = [ok |-> TRUE, vals |-> <<>>, keys |-> Simple!Present]
    BY <2>1 DEF Reply, Semantics!Reply, Semantics!Succeeds, Semantics!WellFormed,
                Semantics!Reads, Semantics!Present, Simple!Present
  <2>3. Simple!Finish(t, Reply(KeyValueMap, req[t]))
    BY <2>1, <2>2, NoResBut
  <2>4. Effect(KeyValueMap, req[t]) = KeyValueMap
    BY <2>1, EffectOfRead DEF Writes
  <2> QED BY <1>1, <1>2, <2>1, <2>3, <2>4, WholeEnds
<1>4. CASE Simple!MultiPutMismatch(t)
  <2>1. /\ req[t].op = "MultiPut" /\ Simple!Mismatched(t) /\ idx[t] = 1 /\ res[t] = Simple!NoRes
        /\ Simple!Finish(t, [res[t] EXCEPT !.ok = FALSE])
    BY <1>1, <1>4 DEF Simple!MultiPutMismatch, Simple!Accessing, SimpleInv, Placed
  <2>2. Reply(KeyValueMap, req[t]) = [ok |-> FALSE, vals |-> <<>>, keys |-> {}]
    BY <2>1 DEF Reply, Semantics!Reply, Semantics!Succeeds, Semantics!WellFormed, Simple!Mismatched
  <2>3. Simple!Finish(t, Reply(KeyValueMap, req[t]))
    BY <2>1, <2>2, NoResBut
  <2>4. Effect(KeyValueMap, req[t]) = KeyValueMap
    BY <2>1 DEF Effect, Semantics!Effect, Semantics!WellFormed, Simple!Mismatched
  <2> QED BY <1>1, <1>2, <2>1, <2>3, <2>4, WholeEnds
<1> QED BY <1>3, <1>4

\* The loop of MultiGet or MultiPut is over: nothing is left of the request.
LEMMA LoopsEnd ==
    ASSUME SimpleInv, NEW t \in Threads, Simple!MultiGetEnd(t) \/ Simple!MultiPutEnd(t)
    PROVE  \E x : Ends(t, x)
<1>1. /\ pc[t] = "access" /\ KeyValueMap' = KeyValueMap /\ idx[t] > Len(req[t].keys)
      /\ Simple!Finish(t, res[t]) /\ req[t].op \in {"MultiGet", "MultiPut"}
      /\ req[t].op = "MultiPut" => Len(req[t].keys) = Len(req[t].vals)
  BY DEF Simple!MultiGetEnd, Simple!MultiPutEnd, Simple!Accessing, Simple!Mismatched
<1>2. /\ req[t] \in Requests /\ KeyValueMap \in [Keys -> Values \cup {Absent}]
      /\ res[t] \in Results /\ idx[t] \in Nat
  BY <1>1, SimpleAccess
<1>3. PICK r : /\ r = Simple!Rest(t) /\ r.op = req[t].op /\ r.keys = <<>>
               /\ (r.op = "MultiPut" => r.vals = <<>>)
  <2>1. PICK keys \in Seq(Keys), vals \in Seq(Values) : keys = req[t].keys /\ vals = req[t].vals
    BY <1>2, SimpleRequests
  <2>2. SubSeq(keys, idx[t], Len(keys)) = <<>>
    BY <1>1, <1>2, <2>1
  <2>3. req[t].op = "MultiPut" => SubSeq(vals, idx[t], Len(vals)) = <<>>
    BY <1>1, <1>2, <2>1
  <2>4. Simple!Rest(t) = [op |-> req[t].op, keys |-> SubSeq(keys, idx[t], Len(keys)),
                          vals |-> SubSeq(vals, idx[t], Len(vals))]
    BY <2>1 DEF Simple!Rest
  <2>5. PICK r : r = Simple!Rest(t)
    OBVIOUS
  <2>6. r.op = req[t].op /\ r.keys = <<>> /\ (r.op = "MultiPut" => r.vals = <<>>)
    BY <2>2, <2>3, <2>4, <2>5
  <2> QED BY <2>5, <2>6
<1>4. DOMAIN r.keys = {} /\ Semantics!WellFormed(r)
  BY <1>3 DEF Semantics!WellFormed
<1>5. Effect(KeyValueMap, r) = KeyValueMap
  <2>1. CASE r.op = "MultiGet"
    BY <2>1, EffectOfRead DEF Writes
  <2>2. CASE r.op = "MultiPut"
    <3>1. Effect(KeyValueMap, r) = Semantics!Assign(KeyValueMap, r.keys, r.vals)
      BY <1>4, <2>2 DEF Effect, Semantics!Effect
    <3>2. \A k \in Keys : Semantics!Assign(KeyValueMap, r.keys, r.vals)[k] = KeyValueMap[k]
      BY <1>4, NotAssigned
    <3>3. Semantics!Assign(KeyValueMap, r.keys, r.vals)
            = [k \in Keys |-> Semantics!Assign(KeyValueMap, r.keys, r.vals)[k]]
      BY DEF Semantics!Assign
    <3>4. KeyValueMap = [k \in Keys |-> KeyValueMap[k]]
      BY <1>2
    <3> QED BY <3>1, <3>2, <3>3, <3>4
  <2> QED BY <1>1, <1>3, <2>1, <2>2
<1>6. Reply(KeyValueMap, r) = Simple!NoRes
  <2>1. Semantics!Succeeds(KeyValueMap, r) = TRUE
    BY <1>4 DEF Semantics!Succeeds
  <2>2. PICK vs : vs = [i \in DOMAIN r.keys |-> KeyValueMap[r.keys[i]]] /\ vs = <<>>
    BY <1>4
  <2>3. r.op # "AllKeys"
    BY <1>1, <1>3
  <2> QED BY <2>1, <2>2, <2>3 DEF Reply, Semantics!Reply, Simple!NoRes
<1>7. Ends(t, res[t])
  BY <1>1, <1>2, <1>3, <1>5, <1>6 DEF Ends
<1> QED BY <1>7

\* A turn of a loop: the thread keeps the mutex and its place.
Turns(t, x) ==
    /\ pc[t] = "access" /\ idx[t] <= Len(req[t].keys)
    /\ req[t].op = "MultiGet" \/ (req[t].op = "MultiPut" /\ ~Simple!Mismatched(t))
    /\ x \in Results /\ x.keys = {} /\ (req[t].op # "MultiGet" => x = Simple!NoRes)
    /\ res' = [res EXCEPT ![t] = x] /\ idx' = [idx EXCEPT ![t] = idx[t] + 1]
    /\ UNCHANGED <<mutex_1, pc, req, calls>>
    /\ KeyValueMap' \in [Keys -> Values \cup {Absent}]

LEMMA TurnKeeps ==
    ASSUME SimpleInv, NEW t \in Threads, NEW x, Turns(t, x)
    PROVE  SimpleInv' /\ Alone(t) /\ res'[t] = x /\ idx'[t] = idx[t] + 1
<1>1. Simple!TypeOK /\ Placed(t)
  BY DEF SimpleInv
<1>2. /\ pc' = pc /\ res' = [res EXCEPT ![t] = x] /\ idx' = [idx EXCEPT ![t] = idx[t] + 1]
      /\ mutex_1' = mutex_1 /\ req' = req /\ calls' = calls /\ x \in Results
      /\ KeyValueMap' \in [Keys -> Values \cup {Absent}]
  BY DEF Turns
<1>3. Alone(t) /\ res'[t] = x /\ idx'[t] = idx[t] + 1
  BY <1>1, <1>2 DEF Alone, Simple!TypeOK
<1>4. Simple!TypeOK'
  <2>1. idx' \in [Threads -> Nat \ {0}]
    BY <1>1, <1>2 DEF Simple!TypeOK
  <2>2. res' \in [Threads -> Results]
    BY <1>1, <1>2 DEF Simple!TypeOK, Results, Simple!Values, Values
  <2> QED BY <1>1, <1>2, <2>1, <2>2 DEF Simple!TypeOK, Results, Simple!Values, Values
<1>5. Placed(t)'
  <2>1. req[t] \in Requests /\ req[t].keys \in Seq(Keys) /\ idx[t] \in Nat
    BY <1>1, SimpleRequests DEF Turns, Placed, Simple!TypeOK
  <2>2. idx'[t] <= Len(req[t].keys) + 1
    BY <1>3, <2>1 DEF Turns
  <2> QED BY <1>1, <1>2, <1>3, <2>2 DEF Turns, Placed, Simple!Mismatched
<1>6. \A u \in Threads \ {t} : Placed(u)'
  BY <1>2, <1>3, OthersPlaced
<1> QED BY <1>3, <1>4, <1>5, <1>6 DEF SimpleInv

\* Before and after a turn, r and r2 are what is left of a request at i.
TurnsFrom(t, keys, vals, i, r, r2) ==
    /\ r = Simple!Rest(t) /\ r2 = Simple!Rest(t)'
    /\ r.op = req[t].op /\ r2.op = req[t].op
    /\ r.keys = SubSeq(keys, i, Len(keys)) /\ r2.keys = SubSeq(keys, i + 1, Len(keys))
    /\ r.vals = SubSeq(vals, i, Len(vals)) /\ r2.vals = SubSeq(vals, i + 1, Len(vals))
    /\ keys \in Seq(Keys) /\ vals \in Seq(Values) /\ i \in Nat /\ i \in 1..Len(keys)
    /\ keys = req[t].keys /\ vals = req[t].vals /\ i = idx[t]
    /\ req[t].op = "MultiPut" => Len(keys) = Len(vals)

LEMMA TurnRests ==
    ASSUME SimpleInv, NEW t \in Threads, NEW x, Turns(t, x)
    PROVE  \E keys, vals, i, r, r2 : TurnsFrom(t, keys, vals, i, r, r2)
<1>1. /\ req[t] \in Requests /\ idx[t] \in Nat \ {0} /\ idx[t] <= Len(req[t].keys)
      /\ req' = req /\ idx'[t] = idx[t] + 1
  BY SimpleAccess, TurnKeeps DEF Turns
<1>2. PICK keys \in Seq(Keys), vals \in Seq(Values), i \in Nat :
         keys = req[t].keys /\ vals = req[t].vals /\ i = idx[t] /\ i \in 1..Len(keys)
  <2>1. req[t].keys \in Seq(Keys) /\ req[t].vals \in Seq(Values)
    BY <1>1, SimpleRequests
  <2>2. idx[t] \in 1..Len(req[t].keys)
    BY <1>1, <2>1
  <2> QED BY <1>1, <2>1, <2>2
<1>3. PICK r, r2 : r = Simple!Rest(t) /\ r2 = Simple!Rest(t)'
  OBVIOUS
<1>4. r = [op |-> req[t].op, keys |-> SubSeq(keys, i, Len(keys)),
           vals |-> SubSeq(vals, i, Len(vals))]
  BY <1>2, <1>3 DEF Simple!Rest
<1>5. r2 = [op |-> req[t].op, keys |-> SubSeq(keys, i + 1, Len(keys)),
            vals |-> SubSeq(vals, i + 1, Len(vals))]
  BY <1>1, <1>2, <1>3 DEF Simple!Rest
<1>6. req[t].op = "MultiPut" => Len(keys) = Len(vals)
  BY <1>2 DEF Turns, Simple!Mismatched
<1>7. /\ r.op = req[t].op /\ r2.op = req[t].op
      /\ r.keys = SubSeq(keys, i, Len(keys)) /\ r2.keys = SubSeq(keys, i + 1, Len(keys))
      /\ r.vals = SubSeq(vals, i, Len(vals)) /\ r2.vals = SubSeq(vals, i + 1, Len(vals))
  BY <1>4, <1>5
<1>8. TurnsFrom(t, keys, vals, i, r, r2)
  BY <1>2, <1>3, <1>6, <1>7 DEF TurnsFrom
<1> QED BY <1>8

\* A turn after which what remains has the same effect and the same answer.
LEMMA TurnRefines ==
    ASSUME SimpleInv, NEW t \in Threads, NEW x, Turns(t, x),
           Effect(KeyValueMap', Simple!Rest(t)') = Effect(KeyValueMap, Simple!Rest(t)),
           Joined(x, Reply(KeyValueMap', Simple!Rest(t)'))
             = Joined(res[t], Reply(KeyValueMap, Simple!Rest(t)))
    PROVE  SimpleInv' /\ UNCHANGED Simple!Abstract!vars
<1>1. SimpleInv' /\ Alone(t) /\ res'[t] = x
  BY TurnKeeps
<1>2. /\ pc[t] = "access" /\ pc'[t] = "access" /\ mutex_1 = t /\ req' = req
  BY SimpleAccess DEF Turns
<1>3. Simple!AbstractStore' = Simple!AbstractStore
  <2>1. Simple!AbstractStore = Effect(KeyValueMap, Simple!Rest(t))
    BY <1>2, SimpleView DEF SimpleViewOK
  <2>2. Simple!AbstractStore' = Effect(KeyValueMap', Simple!Rest(t)')
    BY <1>1, <1>2, SimpleViewNext DEF SimpleViewOK
  <2> QED BY <2>1, <2>2
<1>4. Simple!AbstractReply'[t] = Simple!AbstractReply[t]
  <2>1. Simple!AbstractReply[t] = Joined(res[t], Reply(KeyValueMap, Simple!Rest(t)))
    BY <1>2, SimpleView DEF SimpleViewOK
  <2>2. Simple!AbstractReply'[t] = Joined(x, Reply(KeyValueMap', Simple!Rest(t)'))
    BY <1>1, <1>2, SimpleViewNext DEF SimpleViewOK
  <2> QED BY <2>1, <2>2
<1>5. \A u \in Threads \ {t} : Simple!AbstractReply'[u] = Simple!AbstractReply[u]
  <2> SUFFICES ASSUME NEW u \in Threads \ {t}
               PROVE  Simple!AbstractReply'[u] = Simple!AbstractReply[u]
    OBVIOUS
  <2>1. pc[u] # "access"
    BY <1>2 DEF SimpleInv, Placed
  <2> QED BY <1>1, <2>1, OthersSee
<1>6. Simple!AbstractReply' = Simple!AbstractReply
  BY <1>1, <1>4, <1>5, SameReplies
<1> QED BY <1>1, <1>2, <1>3, <1>6 DEF Simple!Abstract!vars

\* A turn of MultiGet's loop.
LEMMA ReadTurn ==
    ASSUME SimpleInv, NEW t \in Threads, Simple!MultiGetRead(t)
    PROVE  SimpleInv' /\ UNCHANGED Simple!Abstract!vars
<1>1. /\ pc[t] = "access" /\ req[t].op = "MultiGet" /\ idx[t] <= Len(req[t].keys)
      /\ idx' = [idx EXCEPT ![t] = idx[t] + 1] /\ KeyValueMap' = KeyValueMap
      /\ UNCHANGED <<mutex_1, pc, req, calls>>
  BY DEF Simple!MultiGetRead, Simple!Accessing
<1>2. PICK m, k, o : m = KeyValueMap /\ k = Simple!Key(t) /\ o = res[t]
  OBVIOUS
<1>3. PICK no : no = FALSE
  OBVIOUS
<1>4. PICK x : x = IF m[k] # Absent THEN [o EXCEPT !.vals = Append(o.vals, m[k])]
                   ELSE [o EXCEPT !.ok = no]
  OBVIOUS
<1>5. res' = [res EXCEPT ![t] = x]
  <2>1. res' = IF Simple!Found(t)
               THEN [res EXCEPT ![t].vals = Append(res[t].vals, KeyValueMap[Simple!Key(t)])]
               ELSE [res EXCEPT ![t].ok = FALSE]
    BY DEF Simple!MultiGetRead
  <2>2. Simple!Found(t) <=> m[k] # Absent
    BY <1>2 DEF Simple!Found
  <2>3. CASE m[k] # Absent
    <3>1. res' = [res EXCEPT ![t].vals = Append(o.vals, m[k])]
      BY <1>2, <2>1, <2>2, <2>3
    <3> QED BY <1>2, <1>4, <2>3, <3>1
  <2>4. CASE m[k] = Absent
    <3>1. res' = [res EXCEPT ![t].ok = no]
      BY <1>2, <1>3, <2>1, <2>2, <2>4
    <3> QED BY <1>2, <1>4, <2>4, <3>1
  <2> QED BY <2>3, <2>4
<1>6. /\ req[t] \in Requests /\ o \in Results /\ o.keys = {} /\ idx[t] \in Nat \ {0}
      /\ m \in [Keys -> Values \cup {Absent}]
  BY <1>1, <1>2, SimpleAccess DEF SimpleInv, Placed
<1>7. req[t].keys \in Seq(Keys) /\ k \in Keys
  BY <1>1, <1>2, <1>6, SimpleRequests DEF Simple!Key
<1>8. PICK ok \in BOOLEAN, vs \in Seq(Values) :
         /\ o = [ok |-> ok, vals |-> vs, keys |-> {}]
  BY <1>6 DEF Results
<1>9. m[k] # Absent =>
        x = [ok |-> ok, vals |-> Append(vs, m[k]), keys |-> {}] /\ Append(vs, m[k]) \in Seq(Values)
  <2>1. PICK w : w = Append(vs, m[k])
    OBVIOUS
  <2>2. m[k] # Absent => w \in Seq(Values)
    BY <1>6, <1>7, <2>1
  <2>3. o.vals = vs
    BY <1>8
  <2>4. m[k] # Absent => x = [o EXCEPT !.vals = w]
    BY <1>4, <2>1, <2>3
  <2>5. m[k] # Absent => x = [ok |-> ok, vals |-> w, keys |-> {}]
    BY <1>8, <2>4
  <2> QED BY <2>1, <2>2, <2>5
<1>10. m[k] = Absent => x = [ok |-> no, vals |-> vs, keys |-> {}]
  BY <1>4, <1>8
<1>11. x \in Results /\ x.keys = {}
  <2>1. no \in BOOLEAN
    BY <1>3
  <2> QED BY <1>8, <1>9, <1>10, <2>1 DEF Results
<1>12. Turns(t, x)
  BY <1>1, <1>2, <1>5, <1>6, <1>11 DEF Turns
<1>13. PICK keys, vals, i, r, r2 : TurnsFrom(t, keys, vals, i, r, r2)
  BY <1>12, TurnRests
<1>14. ReadTells(m, k, vs, r, r2)
  <2>1. k = keys[i]
    BY <1>2, <1>13 DEF TurnsFrom, Simple!Key
  <2>2. ReadsAt(m, keys, i, vs, r, r2)
    BY <1>1, <1>6, <1>8, <1>13 DEF ReadsAt, TurnsFrom
  <2> QED BY <2>1, <2>2, ReadReply
<1>15. Joined(x, Reply(m, r2)) = Joined(o, Reply(m, r))
  <2>1. PICK a, b : a = Reply(m, r) /\ b = Reply(m, r2)
    OBVIOUS
  <2>2. CASE m[k] = Absent
    <3>1. x.ok = FALSE /\ x.keys = o.keys
      BY <1>3, <1>8, <1>10, <2>2
    <3>2. a.ok = FALSE /\ a.keys = b.keys
      BY <1>14, <2>1, <2>2 DEF ReadTells
    <3> QED BY <2>1, <3>1, <3>2 DEF Joined
  <2>3. CASE m[k] # Absent
    <3>1. x.ok = ok /\ x.keys = {} /\ x.vals = Append(vs, m[k])
      BY <1>9, <2>3
    <3>2. o.ok = ok /\ o.keys = {} /\ o.vals = vs
      BY <1>8
    <3>3. /\ a.ok = b.ok /\ a.keys = b.keys
          /\ (a.ok => vs \o a.vals = Append(vs, m[k]) \o b.vals)
      BY <1>14, <2>1, <2>3 DEF ReadTells
    <3>4. ok /\ a.ok => o.vals \o a.vals = x.vals \o b.vals
      BY <3>1, <3>2, <3>3
    <3> QED BY <2>1, <3>1, <3>2, <3>3, <3>4 DEF Joined
  <2> QED BY <2>2, <2>3
<1>16. Effect(m, r) = m /\ Effect(m, r2) = m
  BY <1>1, <1>13, EffectOfRead DEF Writes, TurnsFrom
<1> QED BY <1>1, <1>2, <1>12, <1>13, <1>15, <1>16, TurnRefines DEF TurnsFrom

\* A turn of MultiPut's loop.
LEMMA WriteTurn ==
    ASSUME SimpleInv, NEW t \in Threads, Simple!MultiPutWrite(t)
    PROVE  SimpleInv' /\ UNCHANGED Simple!Abstract!vars
<1>1. /\ pc[t] = "access" /\ req[t].op = "MultiPut" /\ idx[t] <= Len(req[t].keys)
      /\ ~Simple!Mismatched(t)
      /\ idx' = [idx EXCEPT ![t] = idx[t] + 1]
      /\ KeyValueMap' = [KeyValueMap EXCEPT ![Simple!Key(t)] = Simple!Val(t)]
      /\ UNCHANGED <<mutex_1, pc, req, res, calls>>
  BY DEF Simple!MultiPutWrite, Simple!Accessing
<1>2. PICK m, m2, k, v : /\ m = KeyValueMap /\ m2 = KeyValueMap'
                         /\ k = Simple!Key(t) /\ v = Simple!Val(t)
  OBVIOUS
<1>3. /\ req[t] \in Requests /\ idx[t] \in Nat \ {0} /\ res[t] \in Results
      /\ m \in [Keys -> Values \cup {Absent}] /\ res[t] = Simple!NoRes /\ res[t].keys = {}
  BY <1>1, <1>2, SimpleAccess DEF SimpleInv, Placed
<1>4. k \in Keys /\ v \in Values
  <2>1. PICK keys \in Seq(Keys), vals \in Seq(Values), i \in Nat :
          keys = req[t].keys /\ vals = req[t].vals /\ i = idx[t] /\ i >= 1
    BY <1>3, SimpleRequests
  <2>2. i \in 1..Len(keys) /\ Len(keys) = Len(vals)
    BY <1>1, <2>1 DEF Simple!Mismatched
  <2> QED BY <1>2, <2>1, <2>2 DEF Simple!Key, Simple!Val
<1>5. m2 = [m EXCEPT ![k] = v] /\ m2 \in [Keys -> Values \cup {Absent}]
  BY <1>1, <1>2, <1>3, <1>4
<1>6. res' = [res EXCEPT ![t] = res[t]]
  BY <1>1 DEF SimpleInv, Simple!TypeOK
<1>7. Turns(t, res[t])
  BY <1>1, <1>2, <1>3, <1>5, <1>6 DEF Turns
<1>8. PICK keys, vals, i, r, r2 : TurnsFrom(t, keys, vals, i, r, r2)
  BY <1>7, TurnRests
<1>14. /\ r.op = "MultiPut" /\ r2.op = "MultiPut"
       /\ r.keys = SubSeq(keys, i, Len(keys)) /\ r2.keys = SubSeq(keys, i + 1, Len(keys))
       /\ r.vals = SubSeq(vals, i, Len(vals)) /\ r2.vals = SubSeq(vals, i + 1, Len(vals))
       /\ keys \in Seq(Keys) /\ vals \in Seq(Values) /\ i \in Nat
       /\ keys[i] = k /\ vals[i] = v /\ i \in 1..Len(keys) /\ Len(keys) = Len(vals)
  BY <1>1, <1>2, <1>8 DEF TurnsFrom, Simple!Key, Simple!Val
<1>9. Semantics!WellFormed(r) /\ Semantics!WellFormed(r2)
  BY <1>14 DEF Semantics!WellFormed
<1>10. /\ Effect(m, r) = Semantics!Assign(m, r.keys, r.vals)
       /\ Effect(m2, r2) = Semantics!Assign(m2, r2.keys, r2.vals)
  BY <1>14, <1>9 DEF Effect, Semantics!Effect
<1>11. ASSUME NEW j \in Keys PROVE Effect(m, r)[j] = Effect(m2, r2)[j]
  <2>1. (keys[i] = j => m2[j] = vals[i]) /\ (keys[i] # j => m2[j] = m[j])
    BY <1>3, <1>4, <1>5, <1>14
  <2>2. Assigns(m, m2, keys, vals, i, j)
    BY <1>14, <2>1 DEF Assigns
  <2> QED BY <1>14, <1>10, <2>2, AssignStep
<1>12. Effect(m, r) = Effect(m2, r2)
  <2>1. PICK f, g : f = Effect(m, r) /\ g = Effect(m2, r2)
    OBVIOUS
  <2>2. f = [j \in Keys |-> f[j]] /\ g = [j \in Keys |-> g[j]]
    BY <1>10, <2>1 DEF Semantics!Assign
  <2>3. \A j \in Keys : f[j] = g[j]
    BY <1>11, <2>1
  <2> QED BY <2>1, <2>2, <2>3
<1>13. Reply(m, r) = Reply(m2, r2)
  <2>1. Reply(m, r) = [ok |-> TRUE, vals |-> <<>>, keys |-> {}]
    BY <1>14, <1>9 DEF Reply, Semantics!Reply, Semantics!Succeeds, Semantics!Reads
  <2>2. Reply(m2, r2) = [ok |-> TRUE, vals |-> <<>>, keys |-> {}]
    BY <1>14, <1>9 DEF Reply, Semantics!Reply, Semantics!Succeeds, Semantics!Reads
  <2> QED BY <2>1, <2>2
<1> QED BY <1>2, <1>7, <1>8, <1>12, <1>13, TurnRefines DEF TurnsFrom

\* The store that callers see when t moves and the mutex stays with another
\* thread or free.
LEMMA StoreSeen ==
    ASSUME SimpleInv, SimpleInv', NEW t \in Threads, Alone(t), mutex_1 # t,
           mutex_1' = mutex_1, KeyValueMap' = KeyValueMap
    PROVE  Simple!AbstractStore' = Simple!AbstractStore
<1>1. CASE mutex_1 = None
  BY <1>1, SimpleView, SimpleViewNext DEF SimpleViewOK
<1>2. CASE mutex_1 # None
  <2>1. PICK u \in Threads \ {t} : u = mutex_1
    BY <1>2 DEF SimpleInv, Simple!TypeOK
  <2>2. pc[u] = "access" /\ pc'[u] = "access" /\ Simple!Rest(u)' = Simple!Rest(u)
    BY <2>1 DEF SimpleInv, Placed, Alone, Simple!Rest
  <2>3. Simple!AbstractStore = Effect(KeyValueMap, Simple!Rest(u))
    BY <2>1, <2>2, SimpleView DEF SimpleViewOK
  <2>4. Simple!AbstractStore' = Effect(KeyValueMap', Simple!Rest(u)')
    BY <2>1, <2>2, SimpleViewNext DEF SimpleViewOK
  <2> QED BY <2>2, <2>3, <2>4
<1> QED BY <1>1, <1>2

\* A new reply for t alone.
LEMMA NewReply ==
    ASSUME SimpleInv, SimpleInv', NEW t \in Threads, NEW x, Simple!AbstractReply'[t] = x,
           \A u \in Threads \ {t} : Simple!AbstractReply'[u] = Simple!AbstractReply[u]
    PROVE  Simple!AbstractReply' = [Simple!AbstractReply EXCEPT ![t] = x]
<1>1. PICK f : f = Simple!AbstractReply /\ f = [u \in Threads |-> f[u]]
  BY SimpleView DEF SimpleViewOK
<1>2. PICK g : g = Simple!AbstractReply' /\ g = [u \in Threads |-> g[u]]
  BY SimpleViewNext DEF SimpleViewOK
<1>3. g[t] = x /\ \A u \in Threads \ {t} : g[u] = f[u]
  BY <1>1, <1>2
<1>4. g = [f EXCEPT ![t] = x]
  BY <1>1, <1>2, <1>3
<1> QED BY <1>1, <1>2, <1>4

\* The meanings of Abstract's instance of KvStore are the same, too.
LEMMA AbstractMeanings ==
    ASSUME NEW m, NEW r
    PROVE  /\ Simple!Abstract!Effect(m, r) = Effect(m, r)
           /\ Simple!Abstract!Reply(m, r) = Reply(m, r)
<1>1. \A keys, vals : Simple!Abstract!Assign(m, keys, vals) = Semantics!Assign(m, keys, vals)
  BY DEF Simple!Abstract!Assign, Semantics!Assign
<1>2. Simple!Abstract!Effect(m, r) = Effect(m, r)
  BY <1>1 DEF Simple!Abstract!Effect, Effect, Semantics!Effect,
              Simple!Abstract!WellFormed, Semantics!WellFormed
<1>3. Simple!Abstract!Reply(m, r) = Reply(m, r)
  BY DEF Simple!Abstract!Reply, Reply, Semantics!Reply,
         Simple!Abstract!Succeeds, Semantics!Succeeds,
         Simple!Abstract!WellFormed, Semantics!WellFormed,
         Simple!Abstract!Reads, Semantics!Reads,
         Simple!Abstract!Present, Semantics!Present
<1> QED BY <1>2, <1>3

\* A complete answer has the type of one.
LEMMA JoinedTyped ==
    ASSUME NEW x \in Results
    PROVE  Joined(x, Simple!NoRes) \in Results
<1>1. PICK ok \in BOOLEAN, vs \in Seq(Values), ks \in SUBSET Keys :
         x = [ok |-> ok, vals |-> vs, keys |-> ks]
  BY DEF Results
<1>2. PICK ws : ws = IF ok THEN vs \o <<>> ELSE <<>>
  OBVIOUS
<1>4. ws \in Seq(Values)
  <2>1. vs \o <<>> = vs
    OBVIOUS
  <2> QED BY <1>2, <2>1
<1>3. Joined(x, Simple!NoRes) = [ok |-> ok, vals |-> ws, keys |-> ks]
  <2>1. (ok /\ TRUE) = ok /\ ks \cup {} = ks
    OBVIOUS
  <2> QED BY <1>1, <1>2, <2>1 DEF Joined, Simple!NoRes
<1> QED BY <1>3, <1>4 DEF Results

\* A call is made.
LEMMA SimpleInvoke ==
    ASSUME SimpleInv, NEW t \in Threads, NEW r \in Requests, Simple!Invoke(t, r)
    PROVE  SimpleInv' /\ Simple!Abstract!Invoke(t, r)
<1>1. Simple!TypeOK /\ Placed(t)
  BY DEF SimpleInv
<1>2. /\ pc[t] = "idle" /\ calls[t] > 0 /\ calls' = [calls EXCEPT ![t] = calls[t] - 1]
      /\ req' = [req EXCEPT ![t] = r] /\ pc' = [pc EXCEPT ![t] = "lock"]
      /\ UNCHANGED <<KeyValueMap, mutex_1, idx, res>>
  BY DEF Simple!Invoke, Simple!Goto
<1>3. Alone(t) /\ pc'[t] = "lock" /\ req'[t] = r
  BY <1>1, <1>2 DEF Alone, Simple!TypeOK
<1>4. Simple!TypeOK'
  <2>1. calls' \in [Threads -> 0..MaxCalls]
    BY <1>1, <1>2, MaxCallsAssumption DEF Simple!TypeOK
  <2>2. pc' \in [Threads -> {"idle", "lock", "access", "done"}]
    BY <1>1, <1>2 DEF Simple!TypeOK
  <2>3. req' \in [Threads -> Requests \cup {None}]
    BY <1>1, <1>2 DEF Simple!TypeOK
  <2> QED BY <1>1, <1>2, <2>1, <2>2, <2>3 DEF Simple!TypeOK
<1>5. Placed(t)'
  BY <1>1, <1>2, <1>3 DEF Placed
<1>6. \A u \in Threads \ {t} : Placed(u)'
  BY <1>2, <1>3, OthersPlaced
<1>7. SimpleInv'
  BY <1>4, <1>5, <1>6 DEF SimpleInv
<1>8. mutex_1 # t /\ req[t] = None
  BY <1>1, <1>2 DEF Placed
<1>9. Simple!AbstractStore' = Simple!AbstractStore
  BY <1>2, <1>3, <1>7, <1>8, StoreSeen
<1>10. Simple!AbstractReply'[t] = Simple!AbstractReply[t]
  BY <1>2, <1>3, <1>7, SimpleView, SimpleViewNext DEF SimpleViewOK
<1>11. \A u \in Threads \ {t} : Simple!AbstractReply'[u] = Simple!AbstractReply[u]
  BY <1>2, <1>3, <1>7, OthersSee
<1>12. Simple!AbstractReply' = Simple!AbstractReply
  BY <1>7, <1>10, <1>11, SameReplies
<1> QED BY <1>2, <1>7, <1>8, <1>9, <1>12 DEF Simple!Abstract!Invoke

\* A call takes effect when it takes the mutex.
LEMMA SimplePerform ==
    ASSUME SimpleInv, NEW t \in Threads, Simple!Lock(t)
    PROVE  SimpleInv' /\ Simple!Abstract!Perform(t)
<1>1. Simple!TypeOK /\ Placed(t)
  BY DEF SimpleInv
<1>2. /\ pc[t] = "lock" /\ mutex_1 = None /\ mutex_1' = t /\ pc' = [pc EXCEPT ![t] = "access"]
      /\ UNCHANGED <<KeyValueMap, req, idx, res, calls>>
  BY DEF Simple!Lock, Simple!Goto
<1>3. Alone(t) /\ pc'[t] = "access"
  BY <1>1, <1>2 DEF Alone, Simple!TypeOK
<1>4. Simple!TypeOK'
  <2>1. pc' \in [Threads -> {"idle", "lock", "access", "done"}]
    BY <1>1, <1>2 DEF Simple!TypeOK
  <2> QED BY <1>1, <1>2, <2>1 DEF Simple!TypeOK
<1>5. req[t] \in Requests /\ idx[t] = 1 /\ res[t] = Simple!NoRes /\ req[t].keys \in Seq(Keys)
  BY <1>1, <1>2, SimpleRequests DEF Placed
<1>6. Placed(t)'
  <2>1. idx[t] <= Len(req[t].keys) + 1
    BY <1>5
  <2>2. res[t].keys = {}
    BY <1>5 DEF Simple!NoRes
  <2> QED BY <1>2, <1>3, <1>5, <2>1, <2>2 DEF Placed
<1>7. \A u \in Threads \ {t} : Placed(u)'
  BY <1>2, <1>3, OthersPlaced
<1>8. SimpleInv'
  BY <1>4, <1>6, <1>7 DEF SimpleInv
<1>9. Simple!Rest(t)' = req[t] /\ Simple!AbstractStore = KeyValueMap
  <2>1. Simple!Rest(t) = req[t]
    BY <1>5, SimpleWhole
  <2>2. Simple!Rest(t)' = Simple!Rest(t)
    BY <1>2 DEF Simple!Rest
  <2> QED BY <1>2, <2>1, <2>2, SimpleView DEF SimpleViewOK
<1>10. KeyValueMap \in [Keys -> Values \cup {Absent}]
  BY <1>1 DEF Simple!TypeOK, Simple!Values, Values
<1>11. Simple!AbstractStore' = Effect(KeyValueMap, req[t])
  BY <1>2, <1>3, <1>8, <1>9, SimpleViewNext DEF SimpleViewOK
<1>12. Simple!AbstractReply'[t] = Reply(KeyValueMap, req[t])
  <2>1. Simple!AbstractReply'[t] = Joined(Simple!NoRes, Reply(KeyValueMap, req[t]))
    BY <1>2, <1>3, <1>5, <1>8, <1>9, SimpleViewNext DEF SimpleViewOK
  <2> QED BY <1>5, <1>10, <2>1, ReplyTyped, JoinedNone
<1>13. \A u \in Threads \ {t} : Simple!AbstractReply'[u] = Simple!AbstractReply[u]
  BY <1>2, <1>3, <1>8, OthersSee
<1>14. Simple!AbstractReply'
         = [Simple!AbstractReply EXCEPT ![t] = Reply(KeyValueMap, req[t])]
  BY <1>8, <1>12, <1>13, NewReply
<1>15. Simple!AbstractReply[t] = None /\ req[t] # None
  BY <1>2, <1>5, SimpleView, NoneAssumption DEF SimpleViewOK
<1>16. /\ Simple!Abstract!Effect(KeyValueMap, req[t]) = Effect(KeyValueMap, req[t])
       /\ Simple!Abstract!Reply(KeyValueMap, req[t]) = Reply(KeyValueMap, req[t])
  BY AbstractMeanings
<1> QED BY <1>2, <1>8, <1>9, <1>11, <1>14, <1>15, <1>16 DEF Simple!Abstract!Perform

\* A call returns.
LEMMA SimpleReturn ==
    ASSUME SimpleInv, NEW t \in Threads, Simple!Return(t)
    PROVE  SimpleInv' /\ Simple!Abstract!Return(t)
<1>1. Simple!TypeOK /\ Placed(t)
  BY DEF SimpleInv
<1>2. /\ pc[t] = "done" /\ pc' = [pc EXCEPT ![t] = "idle"] /\ req' = [req EXCEPT ![t] = None]
      /\ idx' = [idx EXCEPT ![t] = 1] /\ res' = [res EXCEPT ![t] = Simple!NoRes]
      /\ UNCHANGED <<KeyValueMap, mutex_1, calls>>
  BY DEF Simple!Return, Simple!Goto
<1>3. /\ Alone(t) /\ pc'[t] = "idle" /\ req'[t] = None /\ idx'[t] = 1
      /\ res'[t] = Simple!NoRes
  BY <1>1, <1>2 DEF Alone, Simple!TypeOK
<1>4. Simple!TypeOK'
  <2>1. pc' \in [Threads -> {"idle", "lock", "access", "done"}]
    BY <1>1, <1>2 DEF Simple!TypeOK
  <2>2. req' \in [Threads -> Requests \cup {None}] /\ idx' \in [Threads -> Nat \ {0}]
    BY <1>1, <1>2 DEF Simple!TypeOK
  <2>3. res' \in [Threads -> Results]
    <3>1. Simple!NoRes \in Results
      BY DEF Simple!NoRes, Results
    <3> QED BY <1>1, <1>2, <3>1 DEF Simple!TypeOK, Results, Simple!Values, Values
  <2> QED BY <1>1, <1>2, <2>1, <2>2, <2>3 DEF Simple!TypeOK, Results, Simple!Values, Values
<1>5. Placed(t)'
  BY <1>1, <1>2, <1>3 DEF Placed
<1>6. \A u \in Threads \ {t} : Placed(u)'
  BY <1>2, <1>3, OthersPlaced
<1>7. SimpleInv'
  BY <1>4, <1>5, <1>6 DEF SimpleInv
<1>8. mutex_1 # t /\ req[t] # None
  BY <1>1, <1>2, NoneAssumption DEF Placed
<1>9. Simple!AbstractStore' = Simple!AbstractStore
  BY <1>2, <1>3, <1>7, <1>8, StoreSeen
<1>10. Simple!AbstractReply'[t] = None
  BY <1>3, <1>7, SimpleViewNext DEF SimpleViewOK
<1>11. \A u \in Threads \ {t} : Simple!AbstractReply'[u] = Simple!AbstractReply[u]
  BY <1>2, <1>3, <1>7, OthersSee
<1>12. Simple!AbstractReply' = [Simple!AbstractReply EXCEPT ![t] = None]
  BY <1>7, <1>10, <1>11, NewReply
<1>13. Simple!AbstractReply[t] # None
  <2>1. Simple!AbstractReply[t] = Joined(res[t], Simple!NoRes)
    BY <1>2, SimpleView DEF SimpleViewOK
  <2>2. res[t] \in Results
    BY <1>1 DEF Simple!TypeOK, Results, Simple!Values, Values
  <2>3. Joined(res[t], Simple!NoRes) \in Results
    BY <2>2, JoinedTyped
  <2> QED BY <2>1, <2>3, NoneAssumption DEF Results
<1> QED BY <1>2, <1>7, <1>9, <1>12, <1>13 DEF Simple!Abstract!Return

LEMMA SimpleInit == Simple!Init => SimpleInv /\ Simple!Abstract!Init
<1> SUFFICES ASSUME Simple!Init PROVE SimpleInv /\ Simple!Abstract!Init
  OBVIOUS
<1> USE DEF Simple!Init
<1>1. Simple!NoRes \in Results
  BY DEF Simple!NoRes, Results
<1>2. Simple!TypeOK
  BY <1>1, MaxCallsAssumption DEF Simple!TypeOK, Results, Simple!Values, Values
<1>3. SimpleInv
  BY <1>2, NoneAssumption DEF SimpleInv, Placed
<1>4. Simple!AbstractStore = KeyValueMap
  BY <1>3, SimpleView DEF SimpleViewOK
<1>5. Simple!AbstractReply = [t \in Threads |-> None]
  <2>1. PICK f : f = Simple!AbstractReply /\ f = [t \in Threads |-> f[t]]
    BY <1>3, SimpleView DEF SimpleViewOK
  <2>2. \A t \in Threads : f[t] = None
    BY <1>3, <2>1, SimpleView DEF SimpleViewOK
  <2> QED BY <2>1, <2>2
<1> QED BY <1>3, <1>4, <1>5 DEF Simple!Abstract!Init

\* Every step of the store with one mutex is a step of KvStore, or none.
LEMMA SimpleStep ==
    ASSUME SimpleInv, [Simple!Next]_Simple!vars
    PROVE  SimpleInv' /\ [Simple!Abstract!Next]_Simple!Abstract!vars
<1>1. ASSUME NEW t \in Threads, NEW r \in Requests, Simple!Invoke(t, r)
      PROVE  SimpleInv' /\ [Simple!Abstract!Next]_Simple!Abstract!vars
  BY <1>1, SimpleInvoke DEF Simple!Abstract!Next
<1>2. ASSUME NEW t \in Threads, Simple!Lock(t)
      PROVE  SimpleInv' /\ [Simple!Abstract!Next]_Simple!Abstract!vars
  BY <1>2, SimplePerform DEF Simple!Abstract!Next
<1>3. ASSUME NEW t \in Threads, Simple!Return(t)
      PROVE  SimpleInv' /\ [Simple!Abstract!Next]_Simple!Abstract!vars
  BY <1>3, SimpleReturn DEF Simple!Abstract!Next
<1>4. ASSUME NEW t \in Threads, Simple!MultiGetRead(t) \/ Simple!MultiPutWrite(t)
      PROVE  SimpleInv' /\ [Simple!Abstract!Next]_Simple!Abstract!vars
  BY <1>4, ReadTurn, WriteTurn
<1>5. ASSUME NEW t \in Threads,
             \/ Simple!Get(t) \/ Simple!Put(t) \/ Simple!DoAppend(t) \/ Simple!Delete(t)
             \/ Simple!AllKeys(t) \/ Simple!MultiPutMismatch(t)
             \/ Simple!MultiGetEnd(t) \/ Simple!MultiPutEnd(t)
      PROVE  SimpleInv' /\ [Simple!Abstract!Next]_Simple!Abstract!vars
  <2>1. \E x : Ends(t, x)
    BY <1>5, SinglesEnd, OthersEnd, LoopsEnd
  <2> QED BY <2>1, EndsRefine
<1>6. CASE UNCHANGED Simple!vars
  <2>1. SimpleInv'
    BY <1>6 DEF SimpleInv, Placed, Simple!TypeOK, Simple!vars, Simple!Mismatched
  <2>2. UNCHANGED Simple!Abstract!vars
    BY <1>6 DEF Simple!vars, Simple!Abstract!vars, Simple!AbstractStore, Simple!AbstractReply,
                Simple!Rest
  <2> QED BY <2>1, <2>2
<1> QED BY <1>1, <1>2, <1>3, <1>4, <1>5, <1>6 DEF Simple!Next, Simple!Step

LEMMA SimpleInvariance == Simple!Spec => []SimpleInv
<1>1. Simple!Init => SimpleInv
  BY SimpleInit
<1>2. SimpleInv /\ [Simple!Next]_Simple!vars => SimpleInv'
  BY SimpleStep
<1> QED BY <1>1, <1>2, PTL DEF Simple!Spec

\* The mutex and the state of each call always have the values that TypeOK gives them:
\* the loops of MultiGet and MultiPut stay within their vectors.
THEOREM SimpleTypeCorrect == Simple!Spec => []Simple!TypeOK
<1>1. SimpleInv => Simple!TypeOK
  BY DEF SimpleInv
<1> QED BY <1>1, SimpleInvariance, PTL

\* SimpleKvStore implements KvStore: each call, AllKeys included, takes effect
\* at one instant between the moment it is made and the moment it returns.
THEOREM SimpleLinearizable == Simple!Spec => Simple!ImplementsKvStore
<1>1. Simple!Init => Simple!Abstract!Init
  BY SimpleInit
<1>2. SimpleInv /\ [Simple!Next]_Simple!vars => [Simple!Abstract!Next]_Simple!Abstract!vars
  BY SimpleStep
<1> QED BY <1>1, <1>2, SimpleInvariance, PTL
        DEF Simple!Spec, Simple!ImplementsKvStore, Simple!Abstract!Spec
=============================================================================
