----------------------------- MODULE FifoQueue -----------------------------
(***************************************************************************)
(* What kvstore/server/synchronized_queue promises its callers, without    *)
(* the mutex, the condition variable or the wait loop: a FIFO queue that   *)
(* can be stopped.                                                         *)
(*                                                                         *)
(* A pop is an interval, from BeginPop to its return, because whether it   *)
(* may still deliver an element depends on when it began:                  *)
(*   - a pop that begins once the queue is stopped returns "stopped";      *)
(*   - a pop that was already in progress when the queue was stopped may   *)
(*     do either.                                                          *)
(***************************************************************************)
EXTENDS Sequences

CONSTANTS Threads, Elts

VARIABLES
    items,      \* the elements in the queue, oldest first
    stopped,    \* stop() has taken effect
    pending,    \* pending[t]: "none", or the pop of t in progress, "open" or "late"
    got         \* got[t]: the elements the last pop or flush of t delivered

vars == <<items, stopped, pending, got>>

Init ==
    /\ items = <<>>
    /\ stopped = FALSE
    /\ pending = [t \in Threads |-> "none"]
    /\ got = [t \in Threads |-> <<>>]

Push(e) ==
    /\ items' = Append(items, e)
    /\ UNCHANGED <<stopped, pending, got>>

BeginPop(t) ==
    /\ pending[t] = "none"
    /\ pending' = [pending EXCEPT ![t] = IF stopped THEN "late" ELSE "open"]
    /\ got' = [got EXCEPT ![t] = <<>>]
    /\ UNCHANGED <<items, stopped>>

\* The pop returns false: it takes the oldest element.
PopElement(t) ==
    /\ pending[t] = "open"
    /\ items # <<>>
    /\ items' = Tail(items)
    /\ got' = [got EXCEPT ![t] = <<Head(items)>>]
    /\ pending' = [pending EXCEPT ![t] = "none"]
    /\ UNCHANGED stopped

\* The pop returns true: no element, and only because of stop().
PopStopped(t) ==
    /\ pending[t] # "none"
    /\ stopped
    /\ pending' = [pending EXCEPT ![t] = "none"]
    /\ UNCHANGED <<items, stopped, got>>

Flush(t) ==
    /\ pending[t] = "none"
    /\ items' = <<>>
    /\ got' = [got EXCEPT ![t] = items]
    /\ UNCHANGED <<stopped, pending>>

Stop ==
    /\ stopped' = TRUE
    /\ UNCHANGED <<items, pending, got>>

Next ==
    \/ \E e \in Elts : Push(e)
    \/ \E t \in Threads :
          BeginPop(t) \/ PopElement(t) \/ PopStopped(t) \/ Flush(t)
    \/ Stop

Spec == Init /\ [][Next]_vars
=============================================================================
