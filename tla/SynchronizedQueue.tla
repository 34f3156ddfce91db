------------------------- MODULE SynchronizedQueue -------------------------
(***************************************************************************)
(* kvstore/server/synchronized_queue.cpp: a queue guarded by the mutex     *)
(* mtx and the condition variable cv, and the atomic flag is_stopped that  *)
(* stop() sets WITHOUT taking the mutex.                                   *)
(*                                                                         *)
(* One action per piece of code that no other thread can split: what runs  *)
(* under mtx is one step per read of is_stopped; unlock and the            *)
(* notify_all that follows it are two steps; cv.wait releases mtx and      *)
(* starts to wait in one step and takes mtx again in another.              *)
(*                                                                         *)
(* A thread makes at most MaxCalls calls, of any operations in any order.  *)
(* The elements are distinct objects (the server queues connections), so   *)
(* each is pushed at most once.                                            *)
(***************************************************************************)
EXTENDS Naturals, Sequences

CONSTANTS
    Threads,    \* the threads that share the queue
    None,       \* no thread, no element: the owner of mtx when it is free
    Elts,       \* the elements that may be pushed
    MaxCalls    \* bound: the number of calls one thread makes

ASSUME NoneAssumption == None \notin Threads
ASSUME MaxCallsAssumption == MaxCalls \in Nat

VARIABLES
    q,          \* the underlying queue, front first
    mtx,        \* the owner of the mutex
    is_stopped, \* the atomic flag
    pc,         \* pc[t]: where thread t is; "asleep" is waiting on cv
    calls,      \* calls[t]: the calls t may still make (bound)
    pushed,     \* the elements whose push has begun (history)
    arg,        \* arg[t]: the argument of the last push of t
    got,        \* got[t]: what the last pop or flush of t delivered (history)
    late        \* the pops in progress that began after is_stopped was set (history)

vars == <<q, mtx, is_stopped, pc, calls, pushed, arg, got, late>>
history == <<pushed, arg, got, late>>

\* Where a thread holds mtx.
Critical == {"pop_check", "pop_loop", "pop_wait", "push", "flush", "size"}

\* Where a thread is inside pop.
InPop == {"pop_check", "pop_loop", "pop_wait", "asleep", "pop_relock"}

PCs == Critical \cup InPop \cup {"idle", "push_notify", "stop_notify"}

Sleeping == {t \in Threads : pc[t] = "asleep"}

TypeOK ==
    /\ q \in Seq(Elts)
    /\ mtx \in Threads \cup {None}
    /\ is_stopped \in BOOLEAN
    /\ pc \in [Threads -> PCs]
    /\ calls \in [Threads -> 0..MaxCalls]
    /\ pushed \in SUBSET Elts
    /\ arg \in [Threads -> Elts \cup {None}]
    /\ got \in [Threads -> Seq(Elts)]
    /\ late \in SUBSET Threads

Init ==
    /\ q = <<>>
    /\ mtx = None
    /\ is_stopped = FALSE
    /\ pc = [t \in Threads |-> "idle"]
    /\ calls = [t \in Threads |-> MaxCalls]
    /\ pushed = {}
    /\ arg = [t \in Threads |-> None]
    /\ got = [t \in Threads |-> <<>>]
    /\ late = {}

-----------------------------------------------------------------------------
(* The synchronization primitives of the C++ library, as the queue uses    *)
(* them.                                                                   *)

Goto(t, where) == pc' = [pc EXCEPT ![t] = where]

Lock(t) == mtx = None /\ mtx' = t
Unlock == mtx' = None

\* A call begins where its first step runs; t makes one call at a time.
BeginCall(t) ==
    /\ pc[t] = "idle"
    /\ calls[t] > 0
    /\ calls' = [calls EXCEPT ![t] = @ - 1]

\* cv.notify_all() by t: every thread that waits on cv must now take mtx
\* again; t goes on to return.
NotifyAll(t) ==
    /\ pc' = [u \in Threads |-> IF u = t THEN "idle"
                                ELSE IF pc[u] = "asleep" THEN "pop_relock"
                                ELSE pc[u]]
    /\ UNCHANGED <<q, mtx, is_stopped, calls, history>>

\* The condition variable may let a waiter go without a notification.
SpuriousWake(t) ==
    /\ pc[t] = "asleep"
    /\ Goto(t, "pop_relock")
    /\ UNCHANGED <<q, mtx, is_stopped, calls, history>>

-----------------------------------------------------------------------------
(* pop *)

\* Line 20: the call takes mtx.
PopLock(t) ==
    /\ BeginCall(t)
    /\ Lock(t)
    /\ Goto(t, "pop_check")
    /\ got' = [got EXCEPT ![t] = <<>>]
    /\ late' = IF is_stopped THEN late \cup {t} ELSE late
    /\ UNCHANGED <<q, is_stopped, pushed, arg>>

\* pop returns true, with no element set; the guard releases mtx.
PopReturnStopped(t) ==
    /\ Unlock
    /\ Goto(t, "idle")
    /\ late' = late \ {t}
    /\ UNCHANGED <<q, is_stopped, calls, pushed, arg, got>>

\* Lines 21-23: the first test of is_stopped.
MutantPopCheckDropped(t) ==
    /\ pc[t] = "pop_check"
    /\ Goto(t, "pop_loop")
    /\ UNCHANGED <<q, mtx, is_stopped, calls, history>>

PopCheck(t) ==
    /\ pc[t] = "pop_check"
    /\ \/ is_stopped /\ PopReturnStopped(t)
       \/ /\ ~is_stopped
          /\ Goto(t, "pop_loop")
          /\ UNCHANGED <<q, mtx, is_stopped, calls, history>>

\* Lines 24-27 on an empty queue: return if stopped, else go on to wait.
PopEmpty(t) ==
    /\ pc[t] = "pop_loop"
    /\ q = <<>>
    /\ \/ is_stopped /\ PopReturnStopped(t)
       \/ /\ ~is_stopped
          /\ Goto(t, "pop_wait")
          /\ UNCHANGED <<q, mtx, is_stopped, calls, history>>

\* Line 28: cv.wait(lck) releases mtx and starts to wait, in one step.
MutantPopWaitKeepsLock(t) ==
    /\ pc[t] = "pop_wait"
    /\ Goto(t, "asleep")
    /\ UNCHANGED <<q, mtx, is_stopped, calls, history>>

PopWait(t) ==
    /\ pc[t] = "pop_wait"
    /\ Unlock
    /\ Goto(t, "asleep")
    /\ UNCHANGED <<q, is_stopped, calls, history>>

\* Line 28: cv.wait(lck) returns once mtx is taken again; the loop test is next.
PopRelock(t) ==
    /\ pc[t] = "pop_relock"
    /\ Lock(t)
    /\ Goto(t, "pop_loop")
    /\ UNCHANGED <<q, is_stopped, calls, history>>

\* Lines 31-33: take the front element and return false.
PopTake(t) ==
    /\ pc[t] = "pop_loop"
    /\ q # <<>>
    /\ got' = [got EXCEPT ![t] = <<Head(q)>>]
    /\ q' = Tail(q)
    /\ Unlock
    /\ Goto(t, "idle")
    /\ late' = late \ {t}
    /\ UNCHANGED <<is_stopped, calls, pushed, arg>>

-----------------------------------------------------------------------------
(* push *)

\* Line 41.
PushLock(t, e) ==
    /\ e \notin pushed
    /\ BeginCall(t)
    /\ Lock(t)
    /\ Goto(t, "push")
    /\ pushed' = pushed \cup {e}
    /\ arg' = [arg EXCEPT ![t] = e]
    /\ UNCHANGED <<q, is_stopped, got, late>>

\* Lines 42-44 and 46-48: only a push onto an empty queue goes on to notify.
MutantPushNull(t) ==
    /\ pc[t] = "push"
    /\ q' = Append(q, None)
    /\ Unlock
    /\ Goto(t, IF q = <<>> THEN "push_notify" ELSE "idle")
    /\ UNCHANGED <<is_stopped, calls, history>>

Push(t) ==
    /\ pc[t] = "push"
    /\ q' = Append(q, arg[t])
    /\ Unlock
    /\ Goto(t, IF q = <<>> THEN "push_notify" ELSE "idle")
    /\ UNCHANGED <<is_stopped, calls, history>>

\* Line 45.
MutantPushNotifyOne(t) ==
    /\ pc[t] = "push_notify"
    /\ \/ Sleeping = {} /\ Goto(t, "idle")
       \/ \E u \in Sleeping :
             pc' = [pc EXCEPT ![t] = "idle", ![u] = "pop_relock"]
    /\ UNCHANGED <<q, mtx, is_stopped, calls, history>>

PushNotify(t) == pc[t] = "push_notify" /\ NotifyAll(t)

-----------------------------------------------------------------------------
(* flush, size and stop *)

\* Line 57.
FlushLock(t) ==
    /\ BeginCall(t)
    /\ Lock(t)
    /\ Goto(t, "flush")
    /\ UNCHANGED <<q, is_stopped, history>>

\* Lines 58-64: drain the queue into the vector that is returned.
Flush(t) ==
    /\ pc[t] = "flush"
    /\ got' = [got EXCEPT ![t] = q]
    /\ q' = <<>>
    /\ Unlock
    /\ Goto(t, "idle")
    /\ UNCHANGED <<is_stopped, calls, pushed, arg, late>>

\* Lines 8 and 9: the result is only for logging and is not kept.
SizeLock(t) ==
    /\ BeginCall(t)
    /\ Lock(t)
    /\ Goto(t, "size")
    /\ UNCHANGED <<q, is_stopped, history>>

Size(t) ==
    /\ pc[t] = "size"
    /\ Unlock
    /\ Goto(t, "idle")
    /\ UNCHANGED <<q, is_stopped, calls, history>>

\* Line 72: no lock is taken.
StopSet(t) ==
    /\ BeginCall(t)
    /\ is_stopped' = TRUE
    /\ Goto(t, "stop_notify")
    /\ UNCHANGED <<q, mtx, history>>

\* Line 73.
MutantStopNoNotify(t) ==
    /\ pc[t] = "stop_notify"
    /\ Goto(t, "idle")
    /\ UNCHANGED <<q, mtx, is_stopped, calls, history>>

StopNotify(t) == pc[t] = "stop_notify" /\ NotifyAll(t)

-----------------------------------------------------------------------------
\* The calls a thread may begin.
Begin(t) ==
    \/ PopLock(t)
    \/ \E e \in Elts : PushLock(t, e)
    \/ FlushLock(t)
    \/ SizeLock(t)
    \/ StopSet(t)

\* The steps of a call in progress.
Step(t) ==
    \/ PopCheck(t) \/ PopEmpty(t) \/ PopWait(t) \/ PopRelock(t) \/ PopTake(t)
    \/ Push(t) \/ PushNotify(t)
    \/ Flush(t)
    \/ Size(t)
    \/ StopNotify(t)

Next == \E t \in Threads : Begin(t) \/ Step(t) \/ SpuriousWake(t)

Spec == Init /\ [][Next]_vars

(* The scheduler runs every thread that can run. No thread makes more than *)
(* MaxCalls calls, so mtx is in the end free for good unless its owner     *)
(* never leaves, and weak fairness is enough to take it. Nothing forces a  *)
(* thread to call, or cv to wake a thread that nobody notified.            *)
FairSpec == Spec /\ \A t \in Threads : WF_vars(Step(t))

-----------------------------------------------------------------------------
(* Properties *)

\* mtx is owned by exactly the thread that is inside a critical section: no
\* two threads are ever in one, and no call of pop, push, flush or size
\* returns, or falls asleep, with mtx held.
LockMatchesCritical ==
    \A t \in Threads : mtx = t <=> pc[t] \in Critical

\* push notifies only when it found the queue empty. That is enough: whenever
\* an element is in the queue while a thread sleeps on cv, some push is still
\* between its unlock and its notify_all, which wakes every sleeper.
NoLostWakeup ==
    (q # <<>> /\ Sleeping # {}) => \E t \in Threads : pc[t] = "push_notify"

\* The queue implements the abstract stoppable FIFO queue: pop and flush
\* deliver each element once and in the order of the pushes, pop returns
\* "stopped" only after stop(), and a pop begun after stop() delivers nothing.
Abstract == INSTANCE FifoQueue WITH
    items <- q,
    stopped <- is_stopped,
    pending <- [t \in Threads |->
                  IF pc[t] \notin InPop THEN "none"
                  ELSE IF t \in late THEN "late" ELSE "open"]

ImplementsFifoQueue == Abstract!Spec

\* stop() releases every thread that is already asleep when the flag is set:
\* its pop returns.
StopReleasesSleepers ==
    \A t \in Threads :
        (pc[t] = "asleep" /\ \E s \in Threads : pc[s] = "stop_notify")
            ~> pc[t] = "idle"

\* The documentation of stop(): it "serves as a way to release any threads
\* waiting for the queue to become non-empty". Every pop in progress once the
\* queue is stopped returns.
StopReleasesAll ==
    \A t \in Threads : (is_stopped /\ pc[t] \in InPop) ~> pc[t] = "idle"
=============================================================================
