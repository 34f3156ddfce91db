---------------------- MODULE SynchronizedQueueProofs ----------------------
(***************************************************************************)
(* Proofs about SynchronizedQueue, for any set of threads, any elements    *)
(* and any number of calls: its type invariant, LockMatchesCritical,       *)
(* NoLostWakeup, and that it implements FifoQueue.                         *)
(***************************************************************************)
EXTENDS SynchronizedQueue, TLAPS

\* A thread decides to wait only on an empty queue, and holds mtx from that
\* test until it sleeps, so the queue is still empty when it does.
WaitOnlyWhenEmpty ==
    \A t \in Threads : pc[t] = "pop_wait" => q = <<>>

\* A push in its critical section has an element to append.
PushHasArgument ==
    \A t \in Threads : pc[t] = "push" => arg[t] \in Elts

\* A pop that began after is_stopped was set never gets past the first test.
LateStopsAtCheck ==
    \A t \in late : pc[t] = "pop_check" /\ is_stopped

IInv ==
    /\ TypeOK
    /\ LockMatchesCritical
    /\ WaitOnlyWhenEmpty
    /\ PushHasArgument
    /\ NoLostWakeup
    /\ LateStopsAtCheck

-----------------------------------------------------------------------------
\* The invariant holds initially.
LEMMA InitIInv == Init => IInv
<1> SUFFICES ASSUME Init PROVE IInv
  OBVIOUS
<1> USE DEF Init
<1>1. TypeOK
  <2>1. <<>> \in Seq(Elts) /\ MaxCalls \in 0..MaxCalls
    BY MaxCallsAssumption
  <2>2. pc \in [Threads -> PCs]
    BY DEF PCs
  <2> QED BY <2>1, <2>2 DEF TypeOK
<1>2. LockMatchesCritical
  BY NoneAssumption DEF LockMatchesCritical, Critical
<1>3. WaitOnlyWhenEmpty /\ PushHasArgument
  BY DEF WaitOnlyWhenEmpty, PushHasArgument
<1>4. NoLostWakeup /\ LateStopsAtCheck
  BY DEF NoLostWakeup, LateStopsAtCheck, Sleeping
<1> QED BY <1>1, <1>2, <1>3, <1>4 DEF IInv

\* Every step keeps the types of the variables.
LEMMA TypeOKStep ==
    TypeOK /\ PushHasArgument /\ [Next]_vars => TypeOK'
<1> SUFFICES ASSUME TypeOK, PushHasArgument, [Next]_vars PROVE TypeOK'
  OBVIOUS
<1> USE DEF TypeOK, PushHasArgument, PCs, Critical, InPop
<1>1. ASSUME NEW t \in Threads, PopLock(t) PROVE TypeOK'
  BY <1>1, MaxCallsAssumption DEF PopLock, BeginCall, Lock, Goto
<1>2. ASSUME NEW t \in Threads, PopCheck(t) PROVE TypeOK'
  BY <1>2 DEF PopCheck, PopReturnStopped, Unlock, Goto, history
<1>3. ASSUME NEW t \in Threads, PopEmpty(t) PROVE TypeOK'
  BY <1>3 DEF PopEmpty, PopReturnStopped, Unlock, Goto, history
<1>4. ASSUME NEW t \in Threads, PopWait(t) PROVE TypeOK'
  BY <1>4 DEF PopWait, Unlock, Goto, history
<1>5. ASSUME NEW t \in Threads, PopRelock(t) PROVE TypeOK'
  BY <1>5 DEF PopRelock, Lock, Goto, history
<1>6. ASSUME NEW t \in Threads, PopTake(t) PROVE TypeOK'
  BY <1>6 DEF PopTake, Unlock, Goto
<1>7. ASSUME NEW t \in Threads, NEW e \in Elts, PushLock(t, e)
      PROVE  TypeOK'
  BY <1>7, MaxCallsAssumption DEF PushLock, BeginCall, Lock, Goto
<1>8. ASSUME NEW t \in Threads, Push(t) PROVE TypeOK'
  BY <1>8 DEF Push, Unlock, Goto, history
<1>9. ASSUME NEW t \in Threads, PushNotify(t) PROVE TypeOK'
  BY <1>9 DEF PushNotify, NotifyAll, history
<1>10. ASSUME NEW t \in Threads, FlushLock(t) PROVE TypeOK'
  BY <1>10, MaxCallsAssumption DEF FlushLock, BeginCall, Lock, Goto, history
<1>11. ASSUME NEW t \in Threads, Flush(t) PROVE TypeOK'
  BY <1>11 DEF Flush, Unlock, Goto
<1>12. ASSUME NEW t \in Threads, SizeLock(t) PROVE TypeOK'
  BY <1>12, MaxCallsAssumption DEF SizeLock, BeginCall, Lock, Goto, history
<1>13. ASSUME NEW t \in Threads, Size(t) PROVE TypeOK'
  BY <1>13 DEF Size, Unlock, Goto, history
<1>14. ASSUME NEW t \in Threads, StopSet(t) PROVE TypeOK'
  BY <1>14, MaxCallsAssumption DEF StopSet, BeginCall, Goto, history
<1>15. ASSUME NEW t \in Threads, StopNotify(t) PROVE TypeOK'
  BY <1>15 DEF StopNotify, NotifyAll, history
<1>16. ASSUME NEW t \in Threads, SpuriousWake(t) PROVE TypeOK'
  BY <1>16 DEF SpuriousWake, Goto, history
<1>17. CASE UNCHANGED vars
  BY <1>17 DEF vars
<1> QED BY <1>1, <1>2, <1>3, <1>4, <1>5, <1>6, <1>7, <1>8, <1>9, <1>10, <1>11,
        <1>12, <1>13, <1>14, <1>15, <1>16, <1>17 DEF Next, Begin, Step

\* Every step keeps mtx with the thread in the critical section.
LEMMA LockStep ==
    TypeOK /\ LockMatchesCritical /\ [Next]_vars => LockMatchesCritical'
<1> SUFFICES ASSUME TypeOK, LockMatchesCritical, [Next]_vars PROVE LockMatchesCritical'
  OBVIOUS
<1> USE DEF TypeOK, LockMatchesCritical, Critical, InPop, PCs
<1>1. ASSUME NEW t \in Threads, PopLock(t) PROVE LockMatchesCritical'
  BY <1>1, NoneAssumption DEF PopLock, BeginCall, Lock, Goto
<1>2. ASSUME NEW t \in Threads, PopCheck(t) PROVE LockMatchesCritical'
  BY <1>2, NoneAssumption DEF PopCheck, PopReturnStopped, Unlock, Goto, history
<1>3. ASSUME NEW t \in Threads, PopEmpty(t) PROVE LockMatchesCritical'
  BY <1>3, NoneAssumption DEF PopEmpty, PopReturnStopped, Unlock, Goto, history
<1>4. ASSUME NEW t \in Threads, PopWait(t) PROVE LockMatchesCritical'
  BY <1>4, NoneAssumption DEF PopWait, Unlock, Goto, history
<1>5. ASSUME NEW t \in Threads, PopRelock(t) PROVE LockMatchesCritical'
  BY <1>5, NoneAssumption DEF PopRelock, Lock, Goto, history
<1>6. ASSUME NEW t \in Threads, PopTake(t) PROVE LockMatchesCritical'
  BY <1>6, NoneAssumption DEF PopTake, Unlock, Goto
<1>7. ASSUME NEW t \in Threads, NEW e \in Elts, PushLock(t, e)
      PROVE  LockMatchesCritical'
  BY <1>7, NoneAssumption DEF PushLock, BeginCall, Lock, Goto
<1>8. ASSUME NEW t \in Threads, Push(t) PROVE LockMatchesCritical'
  BY <1>8, NoneAssumption DEF Push, Unlock, Goto, history
<1>9. ASSUME NEW t \in Threads, PushNotify(t) PROVE LockMatchesCritical'
  BY <1>9 DEF PushNotify, NotifyAll, history
<1>10. ASSUME NEW t \in Threads, FlushLock(t) PROVE LockMatchesCritical'
  BY <1>10, NoneAssumption DEF FlushLock, BeginCall, Lock, Goto, history
<1>11. ASSUME NEW t \in Threads, Flush(t) PROVE LockMatchesCritical'
  BY <1>11, NoneAssumption DEF Flush, Unlock, Goto
<1>12. ASSUME NEW t \in Threads, SizeLock(t) PROVE LockMatchesCritical'
  BY <1>12, NoneAssumption DEF SizeLock, BeginCall, Lock, Goto, history
<1>13. ASSUME NEW t \in Threads, Size(t) PROVE LockMatchesCritical'
  BY <1>13, NoneAssumption DEF Size, Unlock, Goto, history
<1>14. ASSUME NEW t \in Threads, StopSet(t) PROVE LockMatchesCritical'
  BY <1>14 DEF StopSet, BeginCall, Goto, history
<1>15. ASSUME NEW t \in Threads, StopNotify(t) PROVE LockMatchesCritical'
  BY <1>15 DEF StopNotify, NotifyAll, history
<1>16. ASSUME NEW t \in Threads, SpuriousWake(t) PROVE LockMatchesCritical'
  BY <1>16 DEF SpuriousWake, Goto, history
<1>17. CASE UNCHANGED vars
  BY <1>17 DEF vars
<1> QED BY <1>1, <1>2, <1>3, <1>4, <1>5, <1>6, <1>7, <1>8, <1>9, <1>10, <1>11,
        <1>12, <1>13, <1>14, <1>15, <1>16, <1>17 DEF Next, Begin, Step

\* The queue stays empty under a thread that is about to wait.
LEMMA WaitStep ==
    TypeOK /\ LockMatchesCritical /\ WaitOnlyWhenEmpty /\ [Next]_vars => WaitOnlyWhenEmpty'
<1> SUFFICES ASSUME TypeOK, LockMatchesCritical, WaitOnlyWhenEmpty, [Next]_vars PROVE WaitOnlyWhenEmpty'
  OBVIOUS
<1> USE DEF TypeOK, LockMatchesCritical, WaitOnlyWhenEmpty, Critical
<1>1. ASSUME NEW t \in Threads, PopLock(t) PROVE WaitOnlyWhenEmpty'
  BY <1>1 DEF PopLock, BeginCall, Lock, Goto
<1>2. ASSUME NEW t \in Threads, PopCheck(t) PROVE WaitOnlyWhenEmpty'
  BY <1>2 DEF PopCheck, PopReturnStopped, Unlock, Goto, history
<1>3. ASSUME NEW t \in Threads, PopEmpty(t) PROVE WaitOnlyWhenEmpty'
  BY <1>3 DEF PopEmpty, PopReturnStopped, Unlock, Goto, history
<1>4. ASSUME NEW t \in Threads, PopWait(t) PROVE WaitOnlyWhenEmpty'
  BY <1>4 DEF PopWait, Unlock, Goto, history
<1>5. ASSUME NEW t \in Threads, PopRelock(t) PROVE WaitOnlyWhenEmpty'
  BY <1>5 DEF PopRelock, Lock, Goto, history
<1>6. ASSUME NEW t \in Threads, PopTake(t) PROVE WaitOnlyWhenEmpty'
  BY <1>6 DEF PopTake, Unlock, Goto
<1>7. ASSUME NEW t \in Threads, NEW e \in Elts, PushLock(t, e)
      PROVE  WaitOnlyWhenEmpty'
  BY <1>7 DEF PushLock, BeginCall, Lock, Goto
<1>8. ASSUME NEW t \in Threads, Push(t) PROVE WaitOnlyWhenEmpty'
  BY <1>8 DEF Push, Unlock, Goto, history
<1>9. ASSUME NEW t \in Threads, PushNotify(t) PROVE WaitOnlyWhenEmpty'
  BY <1>9 DEF PushNotify, NotifyAll, history
<1>10. ASSUME NEW t \in Threads, FlushLock(t) PROVE WaitOnlyWhenEmpty'
  BY <1>10 DEF FlushLock, BeginCall, Lock, Goto, history
<1>11. ASSUME NEW t \in Threads, Flush(t) PROVE WaitOnlyWhenEmpty'
  BY <1>11 DEF Flush, Unlock, Goto
<1>12. ASSUME NEW t \in Threads, SizeLock(t) PROVE WaitOnlyWhenEmpty'
  BY <1>12 DEF SizeLock, BeginCall, Lock, Goto, history
<1>13. ASSUME NEW t \in Threads, Size(t) PROVE WaitOnlyWhenEmpty'
  BY <1>13 DEF Size, Unlock, Goto, history
<1>14. ASSUME NEW t \in Threads, StopSet(t) PROVE WaitOnlyWhenEmpty'
  BY <1>14 DEF StopSet, BeginCall, Goto, history
<1>15. ASSUME NEW t \in Threads, StopNotify(t) PROVE WaitOnlyWhenEmpty'
  BY <1>15 DEF StopNotify, NotifyAll, history
<1>16. ASSUME NEW t \in Threads, SpuriousWake(t) PROVE WaitOnlyWhenEmpty'
  BY <1>16 DEF SpuriousWake, Goto, history
<1>17. CASE UNCHANGED vars
  BY <1>17 DEF vars
<1> QED BY <1>1, <1>2, <1>3, <1>4, <1>5, <1>6, <1>7, <1>8, <1>9, <1>10, <1>11,
        <1>12, <1>13, <1>14, <1>15, <1>16, <1>17 DEF Next, Begin, Step

\* A push keeps its argument until it appends it.
LEMMA ArgumentStep ==
    TypeOK /\ PushHasArgument /\ [Next]_vars => PushHasArgument'
<1> SUFFICES ASSUME TypeOK, PushHasArgument, [Next]_vars PROVE PushHasArgument'
  OBVIOUS
<1> USE DEF TypeOK, PushHasArgument
<1>1. ASSUME NEW t \in Threads, PopLock(t) PROVE PushHasArgument'
  BY <1>1 DEF PopLock, BeginCall, Lock, Goto
<1>2. ASSUME NEW t \in Threads, PopCheck(t) PROVE PushHasArgument'
  BY <1>2 DEF PopCheck, PopReturnStopped, Unlock, Goto, history
<1>3. ASSUME NEW t \in Threads, PopEmpty(t) PROVE PushHasArgument'
  BY <1>3 DEF PopEmpty, PopReturnStopped, Unlock, Goto, history
<1>4. ASSUME NEW t \in Threads, PopWait(t) PROVE PushHasArgument'
  BY <1>4 DEF PopWait, Unlock, Goto, history
<1>5. ASSUME NEW t \in Threads, PopRelock(t) PROVE PushHasArgument'
  BY <1>5 DEF PopRelock, Lock, Goto, history
<1>6. ASSUME NEW t \in Threads, PopTake(t) PROVE PushHasArgument'
  BY <1>6 DEF PopTake, Unlock, Goto
<1>7. ASSUME NEW t \in Threads, NEW e \in Elts, PushLock(t, e)
      PROVE  PushHasArgument'
  BY <1>7 DEF PushLock, BeginCall, Lock, Goto
<1>8. ASSUME NEW t \in Threads, Push(t) PROVE PushHasArgument'
  BY <1>8 DEF Push, Unlock, Goto, history
<1>9. ASSUME NEW t \in Threads, PushNotify(t) PROVE PushHasArgument'
  BY <1>9 DEF PushNotify, NotifyAll, history
<1>10. ASSUME NEW t \in Threads, FlushLock(t) PROVE PushHasArgument'
  BY <1>10 DEF FlushLock, BeginCall, Lock, Goto, history
<1>11. ASSUME NEW t \in Threads, Flush(t) PROVE PushHasArgument'
  BY <1>11 DEF Flush, Unlock, Goto
<1>12. ASSUME NEW t \in Threads, SizeLock(t) PROVE PushHasArgument'
  BY <1>12 DEF SizeLock, BeginCall, Lock, Goto, history
<1>13. ASSUME NEW t \in Threads, Size(t) PROVE PushHasArgument'
  BY <1>13 DEF Size, Unlock, Goto, history
<1>14. ASSUME NEW t \in Threads, StopSet(t) PROVE PushHasArgument'
  BY <1>14 DEF StopSet, BeginCall, Goto, history
<1>15. ASSUME NEW t \in Threads, StopNotify(t) PROVE PushHasArgument'
  BY <1>15 DEF StopNotify, NotifyAll, history
<1>16. ASSUME NEW t \in Threads, SpuriousWake(t) PROVE PushHasArgument'
  BY <1>16 DEF SpuriousWake, Goto, history
<1>17. CASE UNCHANGED vars
  BY <1>17 DEF vars
<1> QED BY <1>1, <1>2, <1>3, <1>4, <1>5, <1>6, <1>7, <1>8, <1>9, <1>10, <1>11,
        <1>12, <1>13, <1>14, <1>15, <1>16, <1>17 DEF Next, Begin, Step

\* No step leaves an element and a sleeper without a notification to come.
LEMMA WakeupStep ==
    TypeOK /\ WaitOnlyWhenEmpty /\ NoLostWakeup /\ [Next]_vars => NoLostWakeup'
<1> SUFFICES ASSUME TypeOK, WaitOnlyWhenEmpty, NoLostWakeup, [Next]_vars PROVE NoLostWakeup'
  OBVIOUS
<1> USE DEF TypeOK, WaitOnlyWhenEmpty, NoLostWakeup, Sleeping
<1>1. ASSUME NEW t \in Threads, PopLock(t) PROVE NoLostWakeup'
  BY <1>1 DEF PopLock, BeginCall, Lock, Goto
<1>2. ASSUME NEW t \in Threads, PopCheck(t) PROVE NoLostWakeup'
  BY <1>2 DEF PopCheck, PopReturnStopped, Unlock, Goto, history
<1>3. ASSUME NEW t \in Threads, PopEmpty(t) PROVE NoLostWakeup'
  BY <1>3 DEF PopEmpty, PopReturnStopped, Unlock, Goto, history
<1>4. ASSUME NEW t \in Threads, PopWait(t) PROVE NoLostWakeup'
  BY <1>4 DEF PopWait, Unlock, Goto, history
<1>5. ASSUME NEW t \in Threads, PopRelock(t) PROVE NoLostWakeup'
  BY <1>5 DEF PopRelock, Lock, Goto, history
<1>6. ASSUME NEW t \in Threads, PopTake(t) PROVE NoLostWakeup'
  BY <1>6 DEF PopTake, Unlock, Goto
<1>7. ASSUME NEW t \in Threads, NEW e \in Elts, PushLock(t, e)
      PROVE  NoLostWakeup'
  BY <1>7 DEF PushLock, BeginCall, Lock, Goto
<1>8. ASSUME NEW t \in Threads, Push(t) PROVE NoLostWakeup'
  BY <1>8 DEF Push, Unlock, Goto, history
<1>9. ASSUME NEW t \in Threads, PushNotify(t) PROVE NoLostWakeup'
  BY <1>9 DEF PushNotify, NotifyAll, history
<1>10. ASSUME NEW t \in Threads, FlushLock(t) PROVE NoLostWakeup'
  BY <1>10 DEF FlushLock, BeginCall, Lock, Goto, history
<1>11. ASSUME NEW t \in Threads, Flush(t) PROVE NoLostWakeup'
  BY <1>11 DEF Flush, Unlock, Goto
<1>12. ASSUME NEW t \in Threads, SizeLock(t) PROVE NoLostWakeup'
  BY <1>12 DEF SizeLock, BeginCall, Lock, Goto, history
<1>13. ASSUME NEW t \in Threads, Size(t) PROVE NoLostWakeup'
  BY <1>13 DEF Size, Unlock, Goto, history
<1>14. ASSUME NEW t \in Threads, StopSet(t) PROVE NoLostWakeup'
  BY <1>14 DEF StopSet, BeginCall, Goto, history
<1>15. ASSUME NEW t \in Threads, StopNotify(t) PROVE NoLostWakeup'
  BY <1>15 DEF StopNotify, NotifyAll, history
<1>16. ASSUME NEW t \in Threads, SpuriousWake(t) PROVE NoLostWakeup'
  BY <1>16 DEF SpuriousWake, Goto, history
<1>17. CASE UNCHANGED vars
  BY <1>17 DEF vars
<1> QED BY <1>1, <1>2, <1>3, <1>4, <1>5, <1>6, <1>7, <1>8, <1>9, <1>10, <1>11,
        <1>12, <1>13, <1>14, <1>15, <1>16, <1>17 DEF Next, Begin, Step

\* A late pop returns at the first test of is_stopped.
LEMMA LateStep ==
    TypeOK /\ LateStopsAtCheck /\ [Next]_vars => LateStopsAtCheck'
<1> SUFFICES ASSUME TypeOK, LateStopsAtCheck, [Next]_vars PROVE LateStopsAtCheck'
  OBVIOUS
<1> USE DEF TypeOK, LateStopsAtCheck
<1>1. ASSUME NEW t \in Threads, PopLock(t) PROVE LateStopsAtCheck'
  BY <1>1 DEF PopLock, BeginCall, Lock, Goto
<1>2. ASSUME NEW t \in Threads, PopCheck(t) PROVE LateStopsAtCheck'
  BY <1>2 DEF PopCheck, PopReturnStopped, Unlock, Goto, history
<1>3. ASSUME NEW t \in Threads, PopEmpty(t) PROVE LateStopsAtCheck'
  BY <1>3 DEF PopEmpty, PopReturnStopped, Unlock, Goto, history
<1>4. ASSUME NEW t \in Threads, PopWait(t) PROVE LateStopsAtCheck'
  BY <1>4 DEF PopWait, Unlock, Goto, history
<1>5. ASSUME NEW t \in Threads, PopRelock(t) PROVE LateStopsAtCheck'
  BY <1>5 DEF PopRelock, Lock, Goto, history
<1>6. ASSUME NEW t \in Threads, PopTake(t) PROVE LateStopsAtCheck'
  BY <1>6 DEF PopTake, Unlock, Goto
<1>7. ASSUME NEW t \in Threads, NEW e \in Elts, PushLock(t, e)
      PROVE  LateStopsAtCheck'
  BY <1>7 DEF PushLock, BeginCall, Lock, Goto
<1>8. ASSUME NEW t \in Threads, Push(t) PROVE LateStopsAtCheck'
  BY <1>8 DEF Push, Unlock, Goto, history
<1>9. ASSUME NEW t \in Threads, PushNotify(t) PROVE LateStopsAtCheck'
  BY <1>9 DEF PushNotify, NotifyAll, history
<1>10. ASSUME NEW t \in Threads, FlushLock(t) PROVE LateStopsAtCheck'
  BY <1>10 DEF FlushLock, BeginCall, Lock, Goto, history
<1>11. ASSUME NEW t \in Threads, Flush(t) PROVE LateStopsAtCheck'
  BY <1>11 DEF Flush, Unlock, Goto
<1>12. ASSUME NEW t \in Threads, SizeLock(t) PROVE LateStopsAtCheck'
  BY <1>12 DEF SizeLock, BeginCall, Lock, Goto, history
<1>13. ASSUME NEW t \in Threads, Size(t) PROVE LateStopsAtCheck'
  BY <1>13 DEF Size, Unlock, Goto, history
<1>14. ASSUME NEW t \in Threads, StopSet(t) PROVE LateStopsAtCheck'
  BY <1>14 DEF StopSet, BeginCall, Goto, history
<1>15. ASSUME NEW t \in Threads, StopNotify(t) PROVE LateStopsAtCheck'
  BY <1>15 DEF StopNotify, NotifyAll, history
<1>16. ASSUME NEW t \in Threads, SpuriousWake(t) PROVE LateStopsAtCheck'
  BY <1>16 DEF SpuriousWake, Goto, history
<1>17. CASE UNCHANGED vars
  BY <1>17 DEF vars
<1> QED BY <1>1, <1>2, <1>3, <1>4, <1>5, <1>6, <1>7, <1>8, <1>9, <1>10, <1>11,
        <1>12, <1>13, <1>14, <1>15, <1>16, <1>17 DEF Next, Begin, Step

-----------------------------------------------------------------------------
\* The inductive invariant of the queue: holds in every reachable state.
LEMMA Invariance == Spec => []IInv
<1>1. IInv /\ [Next]_vars => IInv'
  BY TypeOKStep, LockStep, WaitStep, ArgumentStep, WakeupStep, LateStep DEF IInv
<1> QED BY InitIInv, <1>1, PTL DEF Spec

\* Every reachable state of the queue is well typed.
THEOREM TypeCorrect == Spec => []TypeOK
<1>1. IInv => TypeOK
  BY DEF IInv
<1> QED BY Invariance, <1>1, PTL

\* pop, push, flush and size run under mtx and release it on every path: the
\* owner of mtx is always the one thread in a critical section.
THEOREM LockDiscipline == Spec => []LockMatchesCritical
<1>1. IInv => LockMatchesCritical
  BY DEF IInv
<1> QED BY Invariance, <1>1, PTL

\* Notifying only when push finds the queue empty loses no wakeup.
THEOREM WakeupsNotLost == Spec => []NoLostWakeup
<1>1. IInv => NoLostWakeup
  BY DEF IInv
<1> QED BY Invariance, <1>1, PTL

-----------------------------------------------------------------------------
(* The refinement. A step of the queue is a step of FifoQueue when it      *)
(* changes q or is_stopped, or begins or ends a pop; all others stutter.   *)

\* The initial state of the queue is the initial state of FifoQueue.
LEMMA InitRefines == Init => Abstract!Init
BY DEF Init, Abstract!Init, InPop

\* Every step of the queue is a step of FifoQueue or leaves it alone.
LEMMA StepRefines == IInv /\ [Next]_vars => [Abstract!Next]_Abstract!vars
<1> SUFFICES ASSUME IInv, [Next]_vars PROVE [Abstract!Next]_Abstract!vars
  OBVIOUS
<1> USE DEF IInv, TypeOK, InPop
<1>1. ASSUME NEW t \in Threads, PopLock(t)
      PROVE  Abstract!BeginPop(t)
  BY <1>1 DEF PopLock, BeginCall, Lock, Goto, Abstract!BeginPop,
         LateStopsAtCheck
<1>2. ASSUME NEW t \in Threads, PopCheck(t)
      PROVE  Abstract!PopStopped(t) \/ UNCHANGED Abstract!vars
  BY <1>2 DEF PopCheck, PopReturnStopped, Unlock, Goto, history,
         Abstract!PopStopped, Abstract!vars
<1>3. ASSUME NEW t \in Threads, PopEmpty(t)
      PROVE  Abstract!PopStopped(t) \/ UNCHANGED Abstract!vars
  BY <1>3 DEF PopEmpty, PopReturnStopped, Unlock, Goto, history,
         Abstract!PopStopped, Abstract!vars
<1>4. ASSUME NEW t \in Threads, PopWait(t)
      PROVE  UNCHANGED Abstract!vars
  BY <1>4 DEF PopWait, Unlock, Goto, history, Abstract!vars
<1>5. ASSUME NEW t \in Threads, PopRelock(t)
      PROVE  UNCHANGED Abstract!vars
  BY <1>5 DEF PopRelock, Lock, Goto, history, Abstract!vars
<1>6. ASSUME NEW t \in Threads, PopTake(t)
      PROVE  Abstract!PopElement(t)
  BY <1>6 DEF PopTake, Unlock, Goto, Abstract!PopElement, LateStopsAtCheck
<1>7. ASSUME NEW t \in Threads, NEW e \in Elts, PushLock(t, e)
      PROVE  UNCHANGED Abstract!vars
  BY <1>7 DEF PushLock, BeginCall, Lock, Goto, Abstract!vars
<1>8. ASSUME NEW t \in Threads, Push(t)
      PROVE  Abstract!Push(arg[t])
  BY <1>8 DEF Push, Unlock, Goto, history, Abstract!Push, PushHasArgument
<1>9. ASSUME NEW t \in Threads, PushNotify(t)
      PROVE  UNCHANGED Abstract!vars
  BY <1>9 DEF PushNotify, NotifyAll, history, Abstract!vars
<1>10. ASSUME NEW t \in Threads, FlushLock(t)
      PROVE  UNCHANGED Abstract!vars
  BY <1>10 DEF FlushLock, BeginCall, Lock, Goto, history, Abstract!vars
<1>11. ASSUME NEW t \in Threads, Flush(t)
      PROVE  Abstract!Flush(t)
  BY <1>11 DEF Flush, Unlock, Goto, Abstract!Flush
<1>12. ASSUME NEW t \in Threads, SizeLock(t)
      PROVE  UNCHANGED Abstract!vars
  BY <1>12 DEF SizeLock, BeginCall, Lock, Goto, history, Abstract!vars
<1>13. ASSUME NEW t \in Threads, Size(t)
      PROVE  UNCHANGED Abstract!vars
  BY <1>13 DEF Size, Unlock, Goto, history, Abstract!vars
<1>14. ASSUME NEW t \in Threads, StopSet(t)
      PROVE  Abstract!Stop
  BY <1>14 DEF StopSet, BeginCall, Goto, history, Abstract!Stop
<1>15. ASSUME NEW t \in Threads, StopNotify(t)
      PROVE  UNCHANGED Abstract!vars
  BY <1>15 DEF StopNotify, NotifyAll, history, Abstract!vars
<1>16. ASSUME NEW t \in Threads, SpuriousWake(t)
      PROVE  UNCHANGED Abstract!vars
  BY <1>16 DEF SpuriousWake, Goto, history, Abstract!vars
<1>17. CASE UNCHANGED vars
  BY <1>17 DEF vars, Abstract!vars
<1> QED BY <1>1, <1>2, <1>3, <1>4, <1>5, <1>6, <1>7, <1>8, <1>9, <1>10, <1>11,
        <1>12, <1>13, <1>14, <1>15, <1>16, <1>17
   DEF Next, Begin, Step, Abstract!Next, PushHasArgument, Push

\* The mutex, the condition variable and the unlocked flag together implement
\* the stoppable FIFO queue, for any threads and any number of calls.
THEOREM QueueRefinement == Spec => ImplementsFifoQueue
BY InitRefines, StepRefines, Invariance, PTL
   DEF Spec, ImplementsFifoQueue, Abstract!Spec
=============================================================================
