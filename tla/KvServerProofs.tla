--------------------------- MODULE KvServerProofs ---------------------------
(***************************************************************************)
(* Proofs about KvServer, for any number of workers, connections and       *)
(* requests: its type invariant, that it uses the queue as                 *)
(* SynchronizedQueue allows, ExclusiveService and StopReleasesConnections. *)
(*                                                                         *)
(* The last two rest on one fact: an accepted connection that is still     *)
(* open is in exactly one place. It is with the listener until its push,   *)
(* in the queue, with a worker from the pop to the close, or with the main *)
(* thread from the flush to the shutdown. Most steps move no connection;   *)
(* those that do are the disjuncts of Move below.                          *)
(***************************************************************************)
EXTENDS KvServer, TLAPS

\* The connection the listener has accepted and not yet queued.
ListenerHas ==
    IF lpc = "push" \/ (lpc = "pushing" /\ qpc[Listener] = "push") THEN {lcur} ELSE {}

\* The connection worker w has popped and not yet closed.
WorkerHas(w) ==
    IF wpc[w] = "popping" /\ qpc[w] = "idle" /\ got[w] # <<>> THEN {Head(got[w])}
    ELSE IF wpc[w] \in {"recv", "send"} THEN {cur[w]} ELSE {}

\* The connections flush has delivered to stop().
MainHas ==
    IF mpc = "flushing" /\ qpc[Main] = "idle" THEN {got[Main][i] : i \in DOMAIN got[Main]}
    ELSE {}

\* Where a thread is in the queue's code follows from where it is in the
\* server's.
ListenerCalls ==
    /\ lpc \in {"push", "pushing"} => lcur \in Clients
    /\ lpc # "pushing" => qpc[Listener] = "idle"
    /\ qpc[Listener] \in {"push", "push_notify", "idle"}
    /\ qpc[Listener] = "push" => arg[Listener] = lcur

WorkerCalls ==
    \A w \in Workers :
        /\ qpc[w] \in {"pop_check", "pop_loop", "pop_wait", "asleep", "pop_relock", "idle"}
        /\ wpc[w] # "popping" => qpc[w] = "idle"
        /\ qpc[w] # "idle" => got[w] = <<>>
        /\ wpc[w] \in {"recv", "send"} => cur[w] \in Clients
        /\ wpc[w] \notin {"recv", "send"} => cur[w] = None

MainCalls ==
    /\ qpc[Main] \in {"stop_notify", "flush", "idle"}
    /\ qpc[Main] = "stop_notify" => mpc = "queue_stopping"
    /\ qpc[Main] = "flush" => mpc = "flushing"

\* stop() goes on only when those it waits for are done: the listener before
\* the queue is stopped, the flush before the workers are joined.
StopOrder ==
    /\ mpc \in {"queue_stop", "queue_stopping", "flush", "flushing",
                "join_workers", "join_querier", "stopped"} => lpc = "exited"
    /\ mpc = "flushing" /\ qpc[Main] = "idle" => q = <<>>
    /\ mpc \in {"join_workers", "join_querier", "stopped"} => q = <<>>
    /\ mpc \in {"join_querier", "stopped"} => \A w \in Workers : wpc[w] = "exited"
    /\ mpc = "init" => lpc = "none" /\ \A w \in Workers : wpc[w] = "none"

\* A request is received once.
ReceivedOnce == \A c \in Clients : pending[c] <= sent[c]

Control ==
    /\ TypeOK /\ ReceivedOnce
    /\ ListenerCalls /\ WorkerCalls /\ MainCalls /\ StopOrder

\* No connection is twice in the queue.
QueuedOnce == \A i, j \in DOMAIN q : q[i] = q[j] => i = j

\* The places are disjoint.
OnePlace ==
    /\ ListenerHas \cap Queued = {} /\ MainHas \cap (ListenerHas \cup Queued) = {}
    /\ \A w \in Workers : WorkerHas(w) \cap (ListenerHas \cup Queued \cup MainHas) = {}
    /\ \A w, v \in Workers : w # v => WorkerHas(w) \cap WorkerHas(v) = {}

Placed(c) ==
    \/ c \in ListenerHas \/ c \in Queued \/ c \in MainHas
    \/ \E w \in Workers : c \in WorkerHas(w)

\* The connections in these places are the open ones.
OpenPlaced == \A c \in Clients : sock[c] = "open" <=> Placed(c)

IInv == Control /\ QueuedOnce /\ OnePlace /\ OpenPlaced

-----------------------------------------------------------------------------
(* Types and control.                                                      *)

LEMMA ThreadFacts ==
    /\ Listener \in Threads /\ Main \in Threads /\ Workers \subseteq Threads
    /\ None \notin Threads /\ None \notin Clients
    /\ Listener \notin Workers /\ Main \notin Workers /\ Listener # Main
BY DistinctAssumption DEF Threads

\* The invariant holds initially.
LEMMA InitControl == Init => Control
<1> SUFFICES ASSUME Init PROVE Control
  OBVIOUS
<1> USE ThreadFacts DEF Init, Queue!Init
<1>1. Queue!TypeOK
  <2>1. <<>> \in Seq(Clients) /\ MaxCalls \in 0..MaxCalls
    BY MaxCallsAssumption
  <2>2. qpc \in [Threads -> Queue!PCs]
    BY DEF Queue!PCs
  <2> QED BY <2>1, <2>2 DEF Queue!TypeOK
<1>2. TypeOK
  <2>1. pending \in [Clients -> 0..MaxRequests] /\ sent \in [Clients -> 0..MaxRequests]
    BY MaxRequestsAssumption
  <2> QED BY <1>1, <2>1 DEF TypeOK, MPCs
<1>3. ReceivedOnce
  BY DEF ReceivedOnce
<1>4. ListenerCalls /\ WorkerCalls /\ MainCalls /\ StopOrder
  BY DEF ListenerCalls, WorkerCalls, MainCalls, StopOrder
<1> QED BY <1>2, <1>3, <1>4 DEF Control

\* Every step of the server leaves the queue alone or is a step of the queue,
\* by a thread of the server.
LEMMA QueueStep == Control /\ [Next]_vars => [Queue!Next]_(Queue!vars)
<1> SUFFICES ASSUME Control, [Next]_vars PROVE [Queue!Next]_(Queue!vars)
  OBVIOUS
<1> USE ThreadFacts DEF queue, Queue!vars
<1>1. CASE StartFails \/ Start \/ ConnectShardmaster
  BY <1>1 DEF StartFails, Start, ConnectShardmaster
<1>2. CASE StopFlag \/ StopListener \/ JoinListener \/ JoinWorkers \/ JoinQuerier
  BY <1>2 DEF StopFlag, StopListener, JoinListener, JoinWorkers, JoinQuerier
<1>3. CASE ShutdownFlushed
  BY <1>3 DEF ShutdownFlushed, Shutdown
<1>4. CASE StopQueue
  BY <1>4 DEF StopQueue, Queue!Next, Queue!Begin
<1>5. CASE FlushQueue
  BY <1>5 DEF FlushQueue, Queue!Next, Queue!Begin
<1>6. CASE ListenerLoop \/ AcceptFails
  BY <1>6 DEF ListenerLoop, AcceptFails
<1>7. CASE ListenerPush
  BY <1>7 DEF ListenerPush, Queue!Next, Queue!Begin, Control, ListenerCalls
<1>8. ASSUME NEW w \in Workers, WorkerLoop(w) \/ WorkerPopped(w)
      PROVE  [Queue!Next]_(Queue!vars)
  BY <1>8 DEF WorkerLoop, WorkerPopped
<1>9. ASSUME NEW w \in Workers, WorkerPop(w) PROVE [Queue!Next]_(Queue!vars)
  BY <1>9 DEF WorkerPop, Queue!Next, Queue!Begin
<1>10. ASSUME NEW w \in Workers, WorkerRecv(w) \/ WorkerRecvFails(w) \/ WorkerSend(w)
      PROVE  [Queue!Next]_(Queue!vars)
  BY <1>10 DEF WorkerRecv, WorkerRecvFails, WorkerClose, Close, WorkerSend
<1>11. ASSUME NEW c \in Clients, Accept(c) \/ Connect(c) \/ Send(c) \/ Hangup(c)
      PROVE  [Queue!Next]_(Queue!vars)
  BY <1>11 DEF Accept, Connect, Send, Hangup
<1>12. CASE Querier
  BY <1>12 DEF Querier
<1>13. ASSUME NEW t \in Threads, Queue!PopCheck(t) \/ Queue!PopEmpty(t) \/
            Queue!PopWait(t) \/ Queue!PopRelock(t) \/ Queue!PopTake(t),
            UNCHANGED <<main, listener, workers, spc, sock, clients>>
      PROVE  [Queue!Next]_(Queue!vars)
  BY <1>13 DEF Queue!Next, Queue!Step
<1>14. ASSUME NEW t \in Threads, Queue!Push(t) \/ Queue!PushNotify(t),
            UNCHANGED <<main, listener, workers, spc, sock, clients>>
      PROVE  [Queue!Next]_(Queue!vars)
  BY <1>14 DEF Queue!Next, Queue!Step
<1>15. ASSUME NEW t \in Threads, Queue!Flush(t) \/ Queue!Size(t),
            UNCHANGED <<main, listener, workers, spc, sock, clients>>
      PROVE  [Queue!Next]_(Queue!vars)
  BY <1>15 DEF Queue!Next, Queue!Step
<1>16. ASSUME NEW t \in Threads, Queue!StopNotify(t) \/ Queue!SpuriousWake(t),
            UNCHANGED <<main, listener, workers, spc, sock, clients>>
      PROVE  [Queue!Next]_(Queue!vars)
  BY <1>16 DEF Queue!Next, Queue!Step
<1>17. CASE UNCHANGED vars
  BY <1>17 DEF vars
<1> QED BY <1>1, <1>2, <1>3, <1>4, <1>5, <1>6, <1>7, <1>8, <1>9, <1>10, <1>11, <1>12,
     <1>13, <1>14, <1>15, <1>16, <1>17 DEF Next, StartStep, StopStep, ListenerStep,
     WorkerStep, QueueCall, QueueWake, Queue!Step, ClientStep

\* Every step keeps the types of the queue's variables.
LEMMA QueueTypeStep ==
    Queue!TypeOK /\ ListenerCalls /\ MainCalls /\ WorkerCalls
            /\ [Queue!Next]_(Queue!vars) => Queue!TypeOK'
<1> SUFFICES ASSUME Queue!TypeOK, ListenerCalls, MainCalls, WorkerCalls,
        [Queue!Next]_(Queue!vars)
             PROVE  Queue!TypeOK'
  OBVIOUS
<1> USE MaxCallsAssumption DEF Queue!TypeOK, Queue!PCs, Queue!Critical, Queue!InPop,
        Queue!history
<1>1. ASSUME NEW t \in Threads, Queue!PopLock(t) PROVE Queue!TypeOK'
  BY <1>1 DEF Queue!PopLock, Queue!BeginCall, Queue!Lock, Queue!Goto
<1>2. ASSUME NEW t \in Threads, NEW e \in Clients, Queue!PushLock(t, e) PROVE Queue!TypeOK'
  BY <1>2 DEF Queue!PushLock, Queue!BeginCall, Queue!Lock, Queue!Goto
<1>3. ASSUME NEW t \in Threads, Queue!FlushLock(t) PROVE Queue!TypeOK'
  BY <1>3 DEF Queue!FlushLock, Queue!BeginCall, Queue!Lock, Queue!Goto
<1>4. ASSUME NEW t \in Threads, Queue!SizeLock(t) PROVE Queue!TypeOK'
  BY <1>4 DEF Queue!SizeLock, Queue!BeginCall, Queue!Lock, Queue!Goto
<1>5. ASSUME NEW t \in Threads, Queue!StopSet(t) PROVE Queue!TypeOK'
  BY <1>5 DEF Queue!StopSet, Queue!BeginCall, Queue!Goto
<1>6. ASSUME NEW t \in Threads, Queue!PopCheck(t) PROVE Queue!TypeOK'
  BY <1>6 DEF Queue!PopCheck, Queue!PopReturnStopped, Queue!Unlock, Queue!Goto
<1>7. ASSUME NEW t \in Threads, Queue!PopEmpty(t) PROVE Queue!TypeOK'
  BY <1>7 DEF Queue!PopEmpty, Queue!PopReturnStopped, Queue!Unlock, Queue!Goto
<1>8. ASSUME NEW t \in Threads, Queue!PopWait(t) PROVE Queue!TypeOK'
  BY <1>8 DEF Queue!PopWait, Queue!Unlock, Queue!Goto
<1>9. ASSUME NEW t \in Threads, Queue!PopRelock(t) PROVE Queue!TypeOK'
  BY <1>9 DEF Queue!PopRelock, Queue!Lock, Queue!Goto
<1>10. ASSUME NEW t \in Threads, Queue!PopTake(t) PROVE Queue!TypeOK'
  BY <1>10 DEF Queue!PopTake, Queue!Unlock, Queue!Goto
<1>11. ASSUME NEW t \in Threads, Queue!Push(t) PROVE Queue!TypeOK'
  <2>1. t = Listener /\ arg[t] \in Clients
    BY <1>11, ThreadFacts DEF Queue!Push, Threads, ListenerCalls, MainCalls, WorkerCalls
  <2> QED BY <1>11, <2>1 DEF Queue!Push, Queue!Unlock, Queue!Goto
<1>12. ASSUME NEW t \in Threads, Queue!PushNotify(t) PROVE Queue!TypeOK'
  BY <1>12 DEF Queue!PushNotify, Queue!NotifyAll
<1>13. ASSUME NEW t \in Threads, Queue!Flush(t) PROVE Queue!TypeOK'
  BY <1>13 DEF Queue!Flush, Queue!Unlock, Queue!Goto
<1>14. ASSUME NEW t \in Threads, Queue!Size(t) PROVE Queue!TypeOK'
  BY <1>14 DEF Queue!Size, Queue!Unlock, Queue!Goto
<1>15. ASSUME NEW t \in Threads, Queue!StopNotify(t) PROVE Queue!TypeOK'
  BY <1>15 DEF Queue!StopNotify, Queue!NotifyAll
<1>16. ASSUME NEW t \in Threads, Queue!SpuriousWake(t) PROVE Queue!TypeOK'
  BY <1>16 DEF Queue!SpuriousWake, Queue!Goto
<1>17. CASE UNCHANGED Queue!vars
  BY <1>17 DEF Queue!vars
<1> QED BY <1>1, <1>2, <1>3, <1>4, <1>5, <1>6, <1>7, <1>8, <1>9, <1>10, <1>11,
     <1>12, <1>13, <1>14, <1>15, <1>16, <1>17 DEF Queue!Next, Queue!Begin,
     Queue!Step

\* Every step keeps the types of the variables.
LEMMA TypeOKStep == Control /\ [Next]_vars => TypeOK'
<1> SUFFICES ASSUME Control, [Next]_vars PROVE TypeOK'
  OBVIOUS
<1> USE DEF TypeOK
<1>0. Queue!TypeOK'
  BY QueueStep, QueueTypeStep DEF Control
<1> USE <1>0 DEF Control, main, listener, workers, clients, MPCs
<1>1. CASE StartFails \/ ConnectShardmaster
  BY <1>1 DEF StartFails, ConnectShardmaster
<1>2. CASE Start
  BY <1>2, HasShardmasterAssumption DEF Start
<1>3. CASE StopFlag \/ StopListener \/ JoinListener \/ JoinWorkers \/ JoinQuerier
  BY <1>3 DEF StopFlag, StopListener, JoinListener, JoinWorkers, JoinQuerier
<1>4. CASE ShutdownFlushed
  BY <1>4 DEF ShutdownFlushed, Shutdown
<1>5. CASE StopQueue \/ FlushQueue
  BY <1>5 DEF StopQueue, Queue!StopSet, Queue!BeginCall, Queue!Goto, Queue!history,
       FlushQueue, Queue!FlushLock, Queue!Lock
<1>6. CASE ListenerLoop \/ AcceptFails \/ ListenerPush
  BY <1>6 DEF ListenerLoop, AcceptFails, ListenerPush, Queue!PushLock, Queue!BeginCall,
       Queue!Lock, Queue!Goto
<1>7. ASSUME NEW w \in Workers, WorkerLoop(w) PROVE TypeOK'
  BY <1>7 DEF WorkerLoop
<1>8. ASSUME NEW w \in Workers, WorkerPop(w) PROVE TypeOK'
  BY <1>8 DEF WorkerPop, Queue!PopLock, Queue!BeginCall, Queue!Lock, Queue!Goto
<1>9. ASSUME NEW w \in Workers, WorkerPopped(w) PROVE TypeOK'
  <2>1. got[w] # <<>> => Head(got[w]) \in Clients
    BY ThreadFacts DEF Queue!TypeOK
  <2>2. CASE got[w] = <<>>
    <3>1. /\ wpc' = [wpc EXCEPT ![w] = "exited"]
          /\ UNCHANGED <<queue, main, listener, cur, spc, sock, clients>>
      BY <1>9, <2>2 DEF WorkerPopped
    <3> QED BY <3>1
  <2>3. CASE got[w] # <<>>
    <3>1. /\ wpc' = [wpc EXCEPT ![w] = "recv"] /\ cur' = [cur EXCEPT ![w] = Head(got[w])]
          /\ UNCHANGED <<queue, main, listener, spc, sock, clients>>
      BY <1>9, <2>3 DEF WorkerPopped
    <3>2. cur' \in [Workers -> Clients \cup {None}]
      BY <2>1, <2>3, <3>1
    <3> QED BY <3>1, <3>2
  <2> QED BY <2>2, <2>3
<1>10. ASSUME NEW w \in Workers, WorkerRecv(w) PROVE TypeOK'
  BY <1>10, MaxRequestsAssumption DEF WorkerRecv, WorkerCalls
<1>11. ASSUME NEW w \in Workers, WorkerRecvFails(w) PROVE TypeOK'
  BY <1>11 DEF WorkerRecvFails, WorkerClose, Close, WorkerCalls
<1>12. ASSUME NEW w \in Workers, WorkerSend(w) PROVE TypeOK'
  <2>1. CASE wpc' = [wpc EXCEPT ![w] = "recv"] /\ UNCHANGED <<queue, main, listener, cur,
          spc, sock, clients>>
    BY <1>12, <2>1 DEF WorkerSend
  <2>2. CASE WorkerClose(w)
    BY <1>12, <2>2 DEF WorkerSend, WorkerClose, Close, WorkerCalls
  <2> QED BY <1>12, <2>1, <2>2 DEF WorkerSend
<1>13. ASSUME NEW c \in Clients, Accept(c) \/ Connect(c) \/ Hangup(c) PROVE TypeOK'
  BY <1>13 DEF Accept, Connect, Hangup
<1>14. ASSUME NEW c \in Clients, Send(c) PROVE TypeOK'
  BY <1>14, MaxRequestsAssumption DEF Send, ReceivedOnce
<1>15. CASE Querier
  BY <1>15 DEF Querier
<1>16. ASSUME NEW t \in Threads, Queue!PopCheck(t) \/ Queue!PopEmpty(t) \/
            Queue!PopWait(t) \/ Queue!PopRelock(t) \/ Queue!PopTake(t),
            UNCHANGED <<main, listener, workers, spc, sock, clients>>
      PROVE  TypeOK'
  BY <1>16 DEF Queue!PopCheck, Queue!PopReturnStopped, Queue!Unlock, Queue!Goto,
       Queue!history, Queue!PopEmpty, Queue!PopWait, Queue!PopRelock, Queue!Lock,
       Queue!PopTake
<1>17. ASSUME NEW t \in Threads, Queue!Push(t) \/ Queue!PushNotify(t),
            UNCHANGED <<main, listener, workers, spc, sock, clients>>
      PROVE  TypeOK'
  BY <1>17 DEF Queue!Push, Queue!Unlock, Queue!Goto, Queue!history, Queue!PushNotify,
       Queue!NotifyAll
<1>18. ASSUME NEW t \in Threads, Queue!Flush(t) \/ Queue!Size(t),
            UNCHANGED <<main, listener, workers, spc, sock, clients>>
      PROVE  TypeOK'
  BY <1>18 DEF Queue!Flush, Queue!Unlock, Queue!Goto, Queue!Size, Queue!history
<1>19. ASSUME NEW t \in Threads, Queue!StopNotify(t) \/ Queue!SpuriousWake(t),
            UNCHANGED <<main, listener, workers, spc, sock, clients>>
      PROVE  TypeOK'
  BY <1>19 DEF Queue!StopNotify, Queue!NotifyAll, Queue!history, Queue!SpuriousWake,
       Queue!Goto
<1>20. CASE UNCHANGED vars
  BY <1>20 DEF vars
<1> QED BY <1>1, <1>2, <1>3, <1>4, <1>5, <1>6, <1>7, <1>8, <1>9, <1>10, <1>11, <1>12,
     <1>13, <1>14, <1>15, <1>16, <1>17, <1>18, <1>19, <1>20 DEF Next, StartStep, StopStep,
     ListenerStep, WorkerStep, QueueCall, QueueWake, Queue!Step, ClientStep

\* Every step keeps the requests received within those sent.
LEMMA ReceivedOnceStep == Control /\ [Next]_vars => ReceivedOnce'
<1> SUFFICES ASSUME Control, [Next]_vars PROVE ReceivedOnce'
  OBVIOUS
<1> USE ThreadFacts DEF Control, ReceivedOnce, TypeOK, Queue!TypeOK, queue, main,
        listener, workers, clients
<1>1. CASE StartFails \/ Start \/ ConnectShardmaster
  BY <1>1 DEF StartFails, Start, ConnectShardmaster
<1>2. CASE StopFlag \/ StopListener \/ JoinListener \/ JoinWorkers \/ JoinQuerier
  BY <1>2 DEF StopFlag, StopListener, JoinListener, JoinWorkers, JoinQuerier
<1>3. CASE ShutdownFlushed
  BY <1>3 DEF ShutdownFlushed, Shutdown
<1>4. CASE StopQueue \/ FlushQueue
  BY <1>4 DEF StopQueue, Queue!StopSet, Queue!BeginCall, Queue!Goto, Queue!history,
       FlushQueue, Queue!FlushLock, Queue!Lock
<1>5. CASE ListenerLoop \/ AcceptFails \/ ListenerPush
  BY <1>5 DEF ListenerLoop, AcceptFails, ListenerPush, Queue!PushLock, Queue!BeginCall,
       Queue!Lock, Queue!Goto
<1>6. ASSUME NEW w \in Workers, WorkerLoop(w) \/ WorkerPop(w) \/ WorkerPopped(w)
      PROVE  ReceivedOnce'
  BY <1>6 DEF WorkerLoop, WorkerPop, Queue!PopLock, Queue!BeginCall, Queue!Lock,
       Queue!Goto, WorkerPopped
<1>7. ASSUME NEW w \in Workers, WorkerRecvFails(w) \/ WorkerSend(w) PROVE ReceivedOnce'
  BY <1>7 DEF WorkerRecvFails, WorkerClose, Close, WorkerSend
<1>8. ASSUME NEW w \in Workers, WorkerRecv(w) PROVE ReceivedOnce'
  BY <1>8, MaxRequestsAssumption DEF WorkerRecv, WorkerCalls
<1>9. ASSUME NEW c \in Clients, Accept(c) \/ Connect(c) \/ Hangup(c) PROVE ReceivedOnce'
  BY <1>9 DEF Accept, Connect, Hangup
<1>10. ASSUME NEW c \in Clients, Send(c) PROVE ReceivedOnce'
  BY <1>10, MaxRequestsAssumption DEF Send
<1>11. CASE Querier
  BY <1>11 DEF Querier
<1>12. ASSUME NEW t \in Threads, Queue!PopCheck(t) \/ Queue!PopEmpty(t) \/
            Queue!PopWait(t) \/ Queue!PopRelock(t) \/ Queue!PopTake(t),
            UNCHANGED <<main, listener, workers, spc, sock, clients>>
      PROVE  ReceivedOnce'
  BY <1>12 DEF Queue!PopCheck, Queue!PopReturnStopped, Queue!Unlock, Queue!Goto,
       Queue!history, Queue!PopEmpty, Queue!PopWait, Queue!PopRelock, Queue!Lock,
       Queue!PopTake
<1>13. ASSUME NEW t \in Threads, Queue!Push(t) \/ Queue!PushNotify(t),
            UNCHANGED <<main, listener, workers, spc, sock, clients>>
      PROVE  ReceivedOnce'
  BY <1>13 DEF Queue!Push, Queue!Unlock, Queue!Goto, Queue!history, Queue!PushNotify,
       Queue!NotifyAll
<1>14. ASSUME NEW t \in Threads, Queue!Flush(t) \/ Queue!Size(t),
            UNCHANGED <<main, listener, workers, spc, sock, clients>>
      PROVE  ReceivedOnce'
  BY <1>14 DEF Queue!Flush, Queue!Unlock, Queue!Goto, Queue!Size, Queue!history
<1>15. ASSUME NEW t \in Threads, Queue!StopNotify(t) \/ Queue!SpuriousWake(t),
            UNCHANGED <<main, listener, workers, spc, sock, clients>>
      PROVE  ReceivedOnce'
  BY <1>15 DEF Queue!StopNotify, Queue!NotifyAll, Queue!history, Queue!SpuriousWake,
       Queue!Goto
<1>16. CASE UNCHANGED vars
  BY <1>16 DEF vars
<1> QED BY <1>1, <1>2, <1>3, <1>4, <1>5, <1>6, <1>7, <1>8, <1>9, <1>10, <1>11, <1>12,
     <1>13, <1>14, <1>15, <1>16 DEF Next, StartStep, StopStep, ListenerStep, WorkerStep,
     QueueCall, QueueWake, Queue!Step, ClientStep

\* Every step keeps the listener's calls in step.
LEMMA ListenerCallsStep == Control /\ [Next]_vars => ListenerCalls'
<1> SUFFICES ASSUME Control, [Next]_vars PROVE ListenerCalls'
  OBVIOUS
<1> USE ThreadFacts DEF Control, ListenerCalls, TypeOK, Queue!TypeOK, queue, main,
        listener, workers, clients
<1>1. CASE StartFails \/ ConnectShardmaster
  BY <1>1 DEF StartFails, ConnectShardmaster
<1>2. CASE Start
  BY <1>2 DEF Start, StopOrder
<1>3. CASE StopFlag \/ StopListener \/ JoinListener \/ JoinWorkers \/ JoinQuerier
  BY <1>3 DEF StopFlag, StopListener, JoinListener, JoinWorkers, JoinQuerier
<1>4. CASE ShutdownFlushed
  BY <1>4 DEF ShutdownFlushed, Shutdown
<1>5. CASE StopQueue \/ FlushQueue
  BY <1>5 DEF StopQueue, Queue!StopSet, Queue!BeginCall, Queue!Goto, Queue!history,
       FlushQueue, Queue!FlushLock, Queue!Lock
<1>6. CASE ListenerLoop \/ AcceptFails \/ ListenerPush
  BY <1>6 DEF ListenerLoop, AcceptFails, ListenerPush, Queue!PushLock, Queue!BeginCall,
       Queue!Lock, Queue!Goto
<1>7. ASSUME NEW w \in Workers, WorkerLoop(w) \/ WorkerPop(w) \/ WorkerPopped(w)
      PROVE  ListenerCalls'
  BY <1>7 DEF WorkerLoop, WorkerPop, Queue!PopLock, Queue!BeginCall, Queue!Lock,
       Queue!Goto, WorkerPopped
<1>8. ASSUME NEW w \in Workers, WorkerRecv(w) \/ WorkerRecvFails(w) \/ WorkerSend(w)
      PROVE  ListenerCalls'
  BY <1>8 DEF WorkerRecv, WorkerRecvFails, WorkerClose, Close, WorkerSend
<1>9. ASSUME NEW c \in Clients, Accept(c) \/ Connect(c) \/ Send(c) \/ Hangup(c)
      PROVE  ListenerCalls'
  BY <1>9 DEF Accept, Connect, Send, Hangup
<1>10. CASE Querier
  BY <1>10 DEF Querier
<1>11. ASSUME NEW t \in Threads, Queue!PopCheck(t) \/ Queue!PopEmpty(t) \/
            Queue!PopWait(t) \/ Queue!PopRelock(t) \/ Queue!PopTake(t),
            UNCHANGED <<main, listener, workers, spc, sock, clients>>
      PROVE  ListenerCalls'
  BY <1>11 DEF Queue!PopCheck, Queue!PopReturnStopped, Queue!Unlock, Queue!Goto,
       Queue!history, Queue!PopEmpty, Queue!PopWait, Queue!PopRelock, Queue!Lock,
       Queue!PopTake
<1>12. ASSUME NEW t \in Threads, Queue!Push(t) \/ Queue!PushNotify(t),
            UNCHANGED <<main, listener, workers, spc, sock, clients>>
      PROVE  ListenerCalls'
  BY <1>12 DEF Queue!Push, Queue!Unlock, Queue!Goto, Queue!history, Queue!PushNotify,
       Queue!NotifyAll
<1>13. ASSUME NEW t \in Threads, Queue!Flush(t) \/ Queue!Size(t),
            UNCHANGED <<main, listener, workers, spc, sock, clients>>
      PROVE  ListenerCalls'
  BY <1>13 DEF Queue!Flush, Queue!Unlock, Queue!Goto, Queue!Size, Queue!history
<1>14. ASSUME NEW t \in Threads, Queue!StopNotify(t) \/ Queue!SpuriousWake(t),
            UNCHANGED <<main, listener, workers, spc, sock, clients>>
      PROVE  ListenerCalls'
  BY <1>14 DEF Queue!StopNotify, Queue!NotifyAll, Queue!history, Queue!SpuriousWake,
       Queue!Goto
<1>15. CASE UNCHANGED vars
  BY <1>15 DEF vars
<1> QED BY <1>1, <1>2, <1>3, <1>4, <1>5, <1>6, <1>7, <1>8, <1>9, <1>10, <1>11, <1>12,
     <1>13, <1>14, <1>15 DEF Next, StartStep, StopStep, ListenerStep, WorkerStep,
     QueueCall, QueueWake, Queue!Step, ClientStep

\* Every step keeps the workers' calls in step.
LEMMA WorkerCallsStep == Control /\ [Next]_vars => WorkerCalls'
<1> SUFFICES ASSUME Control, [Next]_vars PROVE WorkerCalls'
  OBVIOUS
<1> USE ThreadFacts DEF Control, WorkerCalls, TypeOK, Queue!TypeOK, queue, main,
        listener, workers, clients
<1>1. CASE StartFails \/ ConnectShardmaster
  BY <1>1 DEF StartFails, ConnectShardmaster
<1>2. CASE Start
  BY <1>2 DEF Start, StopOrder
<1>3. CASE StopFlag \/ StopListener \/ JoinListener \/ JoinWorkers \/ JoinQuerier
  BY <1>3 DEF StopFlag, StopListener, JoinListener, JoinWorkers, JoinQuerier
<1>4. CASE ShutdownFlushed
  BY <1>4 DEF ShutdownFlushed, Shutdown
<1>5. CASE StopQueue \/ FlushQueue
  BY <1>5 DEF StopQueue, Queue!StopSet, Queue!BeginCall, Queue!Goto, Queue!history,
       FlushQueue, Queue!FlushLock, Queue!Lock
<1>6. CASE ListenerLoop \/ AcceptFails \/ ListenerPush
  BY <1>6 DEF ListenerLoop, AcceptFails, ListenerPush, Queue!PushLock, Queue!BeginCall,
       Queue!Lock, Queue!Goto
<1>7. ASSUME NEW w \in Workers, WorkerLoop(w) PROVE WorkerCalls'
  BY <1>7 DEF WorkerLoop
<1>8. ASSUME NEW w \in Workers, WorkerPop(w) PROVE WorkerCalls'
  BY <1>8 DEF WorkerPop, Queue!PopLock, Queue!BeginCall, Queue!Lock, Queue!Goto
<1>9. ASSUME NEW w \in Workers, WorkerPopped(w) PROVE WorkerCalls'
  <2>1. got[w] # <<>> => Head(got[w]) \in Clients
    OBVIOUS
  <2> QED BY <1>9, <2>1, SMTT(30) DEF WorkerPopped
<1>10. ASSUME NEW w \in Workers, WorkerRecv(w) PROVE WorkerCalls'
  BY <1>10 DEF WorkerRecv
<1>11. ASSUME NEW w \in Workers, WorkerRecvFails(w) PROVE WorkerCalls'
  BY <1>11 DEF WorkerRecvFails, WorkerClose, Close
<1>12. ASSUME NEW w \in Workers, WorkerSend(w) PROVE WorkerCalls'
  <2>1. CASE wpc' = [wpc EXCEPT ![w] = "recv"] /\ UNCHANGED <<queue, cur>>
    BY <1>12, <2>1 DEF WorkerSend
  <2>2. CASE WorkerClose(w)
    BY <1>12, <2>2 DEF WorkerSend, WorkerClose
  <2> QED BY <1>12, <2>1, <2>2 DEF WorkerSend
<1>13. ASSUME NEW c \in Clients, Accept(c) \/ Connect(c) \/ Send(c) \/ Hangup(c)
      PROVE  WorkerCalls'
  BY <1>13 DEF Accept, Connect, Send, Hangup
<1>14. CASE Querier
  BY <1>14 DEF Querier
<1>15. ASSUME NEW t \in Threads, Queue!PopCheck(t) \/ Queue!PopEmpty(t) \/
            Queue!PopWait(t) \/ Queue!PopRelock(t) \/ Queue!PopTake(t),
            UNCHANGED <<main, listener, workers, spc, sock, clients>>
      PROVE  WorkerCalls'
  BY <1>15, SMTT(30) DEF Queue!PopCheck, Queue!PopReturnStopped, Queue!Unlock, Queue!Goto,
       Queue!history, Queue!PopEmpty, Queue!PopWait, Queue!PopRelock, Queue!Lock,
       Queue!PopTake
<1>16. ASSUME NEW t \in Threads, Queue!Push(t) \/ Queue!PushNotify(t),
            UNCHANGED <<main, listener, workers, spc, sock, clients>>
      PROVE  WorkerCalls'
  BY <1>16, SMTT(30) DEF Queue!Push, Queue!Unlock, Queue!Goto, Queue!history, Queue!PushNotify,
       Queue!NotifyAll
<1>17. ASSUME NEW t \in Threads, Queue!Flush(t) \/ Queue!Size(t),
            UNCHANGED <<main, listener, workers, spc, sock, clients>>
      PROVE  WorkerCalls'
  BY <1>17 DEF Queue!Flush, Queue!Unlock, Queue!Goto, Queue!Size, Queue!history
<1>18. ASSUME NEW t \in Threads, Queue!StopNotify(t) \/ Queue!SpuriousWake(t),
            UNCHANGED <<main, listener, workers, spc, sock, clients>>
      PROVE  WorkerCalls'
  BY <1>18, SMTT(30) DEF Queue!StopNotify, Queue!NotifyAll, Queue!history, Queue!SpuriousWake,
       Queue!Goto
<1>19. CASE UNCHANGED vars
  BY <1>19 DEF vars
<1> QED BY <1>1, <1>2, <1>3, <1>4, <1>5, <1>6, <1>7, <1>8, <1>9, <1>10, <1>11, <1>12,
     <1>13, <1>14, <1>15, <1>16, <1>17, <1>18, <1>19 DEF Next, StartStep, StopStep,
     ListenerStep, WorkerStep, QueueCall, QueueWake, Queue!Step, ClientStep

\* Every step keeps the main thread's calls in step.
LEMMA MainCallsStep == Control /\ [Next]_vars => MainCalls'
<1> SUFFICES ASSUME Control, [Next]_vars PROVE MainCalls'
  OBVIOUS
<1> USE ThreadFacts DEF Control, MainCalls, TypeOK, Queue!TypeOK, queue, main, listener,
        workers, clients
<1>1. CASE StartFails \/ Start \/ ConnectShardmaster
  BY <1>1 DEF StartFails, Start, ConnectShardmaster
<1>2. CASE StopFlag \/ StopListener \/ JoinListener \/ JoinWorkers \/ JoinQuerier
  BY <1>2 DEF StopFlag, StopListener, JoinListener, JoinWorkers, JoinQuerier
<1>3. CASE ShutdownFlushed
  BY <1>3 DEF ShutdownFlushed, Shutdown
<1>4. CASE StopQueue \/ FlushQueue
  BY <1>4 DEF StopQueue, Queue!StopSet, Queue!BeginCall, Queue!Goto, Queue!history,
       FlushQueue, Queue!FlushLock, Queue!Lock
<1>5. CASE ListenerLoop \/ AcceptFails \/ ListenerPush
  BY <1>5 DEF ListenerLoop, AcceptFails, ListenerPush, Queue!PushLock, Queue!BeginCall,
       Queue!Lock, Queue!Goto
<1>6. ASSUME NEW w \in Workers, WorkerLoop(w) \/ WorkerPop(w) \/ WorkerPopped(w)
      PROVE  MainCalls'
  BY <1>6 DEF WorkerLoop, WorkerPop, Queue!PopLock, Queue!BeginCall, Queue!Lock,
       Queue!Goto, WorkerPopped
<1>7. ASSUME NEW w \in Workers, WorkerRecv(w) \/ WorkerRecvFails(w) \/ WorkerSend(w)
      PROVE  MainCalls'
  BY <1>7 DEF WorkerRecv, WorkerRecvFails, WorkerClose, Close, WorkerSend
<1>8. ASSUME NEW c \in Clients, Accept(c) \/ Connect(c) \/ Send(c) \/ Hangup(c)
      PROVE  MainCalls'
  BY <1>8 DEF Accept, Connect, Send, Hangup
<1>9. CASE Querier
  BY <1>9 DEF Querier
<1>10. ASSUME NEW t \in Threads, Queue!PopCheck(t) \/ Queue!PopEmpty(t) \/
            Queue!PopWait(t) \/ Queue!PopRelock(t) \/ Queue!PopTake(t),
            UNCHANGED <<main, listener, workers, spc, sock, clients>>
      PROVE  MainCalls'
  BY <1>10 DEF Queue!PopCheck, Queue!PopReturnStopped, Queue!Unlock, Queue!Goto,
       Queue!history, Queue!PopEmpty, Queue!PopWait, Queue!PopRelock, Queue!Lock,
       Queue!PopTake
<1>11. ASSUME NEW t \in Threads, Queue!Push(t) \/ Queue!PushNotify(t),
            UNCHANGED <<main, listener, workers, spc, sock, clients>>
      PROVE  MainCalls'
  BY <1>11 DEF Queue!Push, Queue!Unlock, Queue!Goto, Queue!history, Queue!PushNotify,
       Queue!NotifyAll
<1>12. ASSUME NEW t \in Threads, Queue!Flush(t) \/ Queue!Size(t),
            UNCHANGED <<main, listener, workers, spc, sock, clients>>
      PROVE  MainCalls'
  BY <1>12 DEF Queue!Flush, Queue!Unlock, Queue!Goto, Queue!Size, Queue!history
<1>13. ASSUME NEW t \in Threads, Queue!StopNotify(t) \/ Queue!SpuriousWake(t),
            UNCHANGED <<main, listener, workers, spc, sock, clients>>
      PROVE  MainCalls'
  BY <1>13 DEF Queue!StopNotify, Queue!NotifyAll, Queue!history, Queue!SpuriousWake,
       Queue!Goto
<1>14. CASE UNCHANGED vars
  BY <1>14 DEF vars
<1> QED BY <1>1, <1>2, <1>3, <1>4, <1>5, <1>6, <1>7, <1>8, <1>9, <1>10, <1>11, <1>12,
     <1>13, <1>14 DEF Next, StartStep, StopStep, ListenerStep, WorkerStep, QueueCall,
     QueueWake, Queue!Step, ClientStep

\* Every step keeps the order of stop().
LEMMA StopOrderStep == Control /\ [Next]_vars => StopOrder'
<1> SUFFICES ASSUME Control, [Next]_vars PROVE StopOrder'
  OBVIOUS
<1> USE ThreadFacts DEF Control, StopOrder, TypeOK, Queue!TypeOK, queue, main, listener,
        workers, clients
<1>1. CASE StartFails \/ Start \/ ConnectShardmaster
  BY <1>1 DEF StartFails, Start, ConnectShardmaster
<1>2. CASE StopFlag \/ StopListener \/ JoinListener \/ JoinWorkers \/ JoinQuerier
  BY <1>2 DEF StopFlag, StopListener, JoinListener, JoinWorkers, JoinQuerier
<1>3. CASE ShutdownFlushed
  BY <1>3 DEF ShutdownFlushed, Shutdown
<1>4. CASE StopQueue \/ FlushQueue
  BY <1>4 DEF StopQueue, Queue!StopSet, Queue!BeginCall, Queue!Goto, Queue!history,
       FlushQueue, Queue!FlushLock, Queue!Lock
<1>5. CASE ListenerLoop \/ AcceptFails \/ ListenerPush
  BY <1>5 DEF ListenerLoop, AcceptFails, ListenerPush, Queue!PushLock, Queue!BeginCall,
       Queue!Lock, Queue!Goto
<1>6. ASSUME NEW w \in Workers, WorkerLoop(w) \/ WorkerPop(w) \/ WorkerPopped(w)
      PROVE  StopOrder'
  BY <1>6 DEF WorkerLoop, WorkerPop, Queue!PopLock, Queue!BeginCall, Queue!Lock,
       Queue!Goto, WorkerPopped
<1>7. ASSUME NEW w \in Workers, WorkerRecv(w) \/ WorkerRecvFails(w) \/ WorkerSend(w)
      PROVE  StopOrder'
  BY <1>7 DEF WorkerRecv, WorkerRecvFails, WorkerClose, Close, WorkerSend
<1>8. ASSUME NEW c \in Clients, Accept(c) \/ Connect(c) \/ Send(c) \/ Hangup(c)
      PROVE  StopOrder'
  BY <1>8 DEF Accept, Connect, Send, Hangup
<1>9. CASE Querier
  BY <1>9 DEF Querier
<1>10. ASSUME NEW t \in Threads, Queue!PopWait(t) \/ Queue!PopRelock(t),
            UNCHANGED <<main, listener, workers, spc, sock, clients>>
      PROVE  StopOrder'
  BY <1>10 DEF Queue!PopWait, Queue!Unlock, Queue!Goto, Queue!history, Queue!PopRelock,
       Queue!Lock
<1>11. ASSUME NEW t \in Threads, Queue!PopCheck(t),
            UNCHANGED <<main, listener, workers, spc, sock, clients>>
      PROVE  StopOrder'
  BY <1>11 DEF Queue!PopCheck, Queue!PopReturnStopped, Queue!Unlock, Queue!Goto,
          Queue!history, WorkerCalls, ListenerCalls, MainCalls, Threads
<1>12. ASSUME NEW t \in Threads, Queue!PopEmpty(t),
            UNCHANGED <<main, listener, workers, spc, sock, clients>>
      PROVE  StopOrder'
  BY <1>12 DEF Queue!PopEmpty, Queue!PopReturnStopped, Queue!Unlock, Queue!Goto,
          Queue!history, WorkerCalls, ListenerCalls, MainCalls, Threads
<1>13. ASSUME NEW t \in Threads, Queue!PopTake(t),
            UNCHANGED <<main, listener, workers, spc, sock, clients>>
      PROVE  StopOrder'
  BY <1>13 DEF Queue!PopTake, Queue!Unlock, Queue!Goto, ListenerCalls, WorkerCalls,
          MainCalls, Threads
<1>14. ASSUME NEW t \in Threads, Queue!Push(t),
            UNCHANGED <<main, listener, workers, spc, sock, clients>>
      PROVE  StopOrder'
  BY <1>14 DEF Queue!Push, Queue!Unlock, Queue!Goto, Queue!history, ListenerCalls,
          WorkerCalls, MainCalls, Threads
<1>15. ASSUME NEW t \in Threads, Queue!PushNotify(t),
            UNCHANGED <<main, listener, workers, spc, sock, clients>>
      PROVE  StopOrder'
  BY <1>15 DEF Queue!PushNotify, Queue!NotifyAll, Queue!history, ListenerCalls,
          WorkerCalls, MainCalls, Threads
<1>16. ASSUME NEW t \in Threads, Queue!Flush(t),
            UNCHANGED <<main, listener, workers, spc, sock, clients>>
      PROVE  StopOrder'
  BY <1>16 DEF Queue!Flush, Queue!Unlock, Queue!Goto, ListenerCalls, WorkerCalls,
          MainCalls, Threads
<1>17. ASSUME NEW t \in Threads, Queue!Size(t),
            UNCHANGED <<main, listener, workers, spc, sock, clients>>
      PROVE  StopOrder'
  BY <1>17 DEF Queue!Size, Queue!Unlock, Queue!Goto, Queue!history, ListenerCalls,
          WorkerCalls, MainCalls, Threads
<1>18. ASSUME NEW t \in Threads, Queue!SpuriousWake(t),
            UNCHANGED <<main, listener, workers, spc, sock, clients>>
      PROVE  StopOrder'
  BY <1>18 DEF Queue!SpuriousWake, Queue!Goto, Queue!history
<1>19. ASSUME NEW t \in Threads, Queue!StopNotify(t),
            UNCHANGED <<main, listener, workers, spc, sock, clients>>
      PROVE  StopOrder'
  BY <1>19 DEF Queue!StopNotify, Queue!NotifyAll, Queue!history, ListenerCalls,
          WorkerCalls, MainCalls, Threads
<1>20. CASE UNCHANGED vars
  BY <1>20 DEF vars
<1> QED BY <1>1, <1>2, <1>3, <1>4, <1>5, <1>6, <1>7, <1>8, <1>9, <1>10, <1>11, <1>12,
     <1>13, <1>14, <1>15, <1>16, <1>17, <1>18, <1>19, <1>20 DEF Next, StartStep, StopStep,
     ListenerStep, WorkerStep, QueueCall, QueueWake, Queue!Step, ClientStep

LEMMA ControlStep == Control /\ [Next]_vars => Control'
BY TypeOKStep, ReceivedOnceStep, ListenerCallsStep, WorkerCallsStep, MainCallsStep,
        StopOrderStep DEF Control

-----------------------------------------------------------------------------
(* Where the connections are.                                              *)

KeepWorkers(S) == \A w \in S : WorkerHas(w)' = WorkerHas(w)

Unmoved ==
    /\ q' = q /\ sock' = sock
    /\ ListenerHas' = ListenerHas /\ MainHas' = MainHas /\ KeepWorkers(Workers)

\* accept_client returns a connection to the listener.
Accepts(c) ==
    /\ sock[c] = "none" /\ sock' = [sock EXCEPT ![c] = "open"]
    /\ ListenerHas = {} /\ ListenerHas' = {c}
    /\ q' = q /\ MainHas' = MainHas /\ KeepWorkers(Workers)

\* accept_client loses the connection it has accepted.
Loses(c) ==
    /\ sock[c] = "none" /\ sock' = [sock EXCEPT ![c] = "lost"]
    /\ q' = q /\ ListenerHas' = ListenerHas /\ MainHas' = MainHas /\ KeepWorkers(Workers)

\* push puts it in the queue.
Enqueues(c) ==
    /\ ListenerHas = {c} /\ ListenerHas' = {}
    /\ q' = Append(q, c)
    /\ sock' = sock /\ MainHas' = MainHas /\ KeepWorkers(Workers)

\* pop gives the front connection to w.
Dequeues(w) ==
    /\ q # <<>> /\ q' = Tail(q)
    /\ WorkerHas(w) = {} /\ WorkerHas(w)' = {Head(q)} /\ KeepWorkers(Workers \ {w})
    /\ sock' = sock /\ ListenerHas' = ListenerHas /\ MainHas' = MainHas

\* w closes the connection it serves.
Closes(w, c) ==
    /\ WorkerHas(w) = {c} /\ WorkerHas(w)' = {} /\ KeepWorkers(Workers \ {w})
    /\ Close(c)
    /\ q' = q /\ ListenerHas' = ListenerHas /\ MainHas' = MainHas

\* flush gives all of them to the main thread, which shuts them down.
Flushes ==
    /\ MainHas = {} /\ MainHas' = Queued
    /\ q' = <<>>
    /\ sock' = sock /\ ListenerHas' = ListenerHas /\ KeepWorkers(Workers)

ShutsDown ==
    /\ Shutdown(MainHas) /\ MainHas' = {}
    /\ q' = q /\ ListenerHas' = ListenerHas /\ KeepWorkers(Workers)

Move ==
    \/ Unmoved
    \/ \E c \in Clients :
          \/ Accepts(c) \/ Loses(c) \/ Enqueues(c)
          \/ \E w \in Workers : Closes(w, c)
    \/ \E w \in Workers : Dequeues(w)
    \/ Flushes \/ ShutsDown

\* A worker that closes its connection has it no more.
LEMMA CloseMoves ==
    ASSUME Control, NEW w \in Workers, wpc[w] \in {"recv", "send"}, WorkerClose(w)
    PROVE  Move
<1> USE ThreadFacts DEF Control, TypeOK, Queue!TypeOK, WorkerCalls, WorkerClose,
        queue, main, listener
<1>1. cur[w] \in Clients /\ Close(cur[w]) /\ q' = q
  OBVIOUS
<1>2. ListenerHas' = ListenerHas /\ MainHas' = MainHas
  BY DEF ListenerHas, MainHas
<1>3. WorkerHas(w) = {cur[w]} /\ WorkerHas(w)' = {}
  BY DEF WorkerHas
<1>4. ASSUME NEW v \in Workers \ {w} PROVE WorkerHas(v)' = WorkerHas(v)
  BY DEF WorkerHas
<1>5. Closes(w, cur[w])
  BY <1>1, <1>2, <1>3, <1>4 DEF Closes, KeepWorkers
<1>6. cur[w] \in Clients
  BY <1>1
<1> HIDE DEF Control, WorkerClose
<1> QED BY <1>5, <1>6 DEF Move

\* Every step of the server is one of these moves.
LEMMA MoveStep == Control /\ [Next]_vars => Move
<1> SUFFICES ASSUME Control, [Next]_vars PROVE Move
  OBVIOUS
<1> USE ThreadFacts DEF Control, TypeOK, Queue!TypeOK, queue, main, listener, workers,
        clients,
        ListenerCalls, WorkerCalls, MainCalls, StopOrder
<1> USE DEF ListenerHas, WorkerHas, MainHas
<1>1. ASSUME StartFails PROVE Unmoved
  BY <1>1 DEF StartFails, Unmoved, KeepWorkers
<1>2. ASSUME Start PROVE Unmoved
  BY <1>2 DEF Start, Unmoved, KeepWorkers
<1>3. ASSUME ConnectShardmaster PROVE Unmoved
  BY <1>3 DEF ConnectShardmaster, Unmoved, KeepWorkers
<1>4. ASSUME StopFlag PROVE Unmoved
  BY <1>4 DEF StopFlag, Unmoved, KeepWorkers
<1>5. ASSUME StopListener PROVE Unmoved
  BY <1>5 DEF StopListener, Unmoved, KeepWorkers
<1>6. ASSUME JoinListener PROVE Unmoved
  BY <1>6 DEF JoinListener, Unmoved, KeepWorkers
<1>7. ASSUME StopQueue PROVE Unmoved
  BY <1>7 DEF StopQueue, Queue!StopSet, Queue!BeginCall, Queue!Goto, Queue!history,
          Unmoved, KeepWorkers
<1>8. ASSUME FlushQueue PROVE Unmoved
  BY <1>8 DEF FlushQueue, Queue!FlushLock, Queue!BeginCall, Queue!Lock, Queue!Goto,
          Queue!history, Unmoved, KeepWorkers
<1>9. ASSUME ShutdownFlushed PROVE Move
  BY <1>9 DEF ShutdownFlushed, Shutdown, Move, ShutsDown, KeepWorkers
<1>10. ASSUME JoinWorkers PROVE Unmoved
  BY <1>10 DEF JoinWorkers, Unmoved, KeepWorkers
<1>11. ASSUME JoinQuerier PROVE Unmoved
  BY <1>11 DEF JoinQuerier, Unmoved, KeepWorkers
<1>12. ASSUME ListenerLoop PROVE Unmoved
  BY <1>12 DEF ListenerLoop, Unmoved, KeepWorkers
<1>13. ASSUME NEW c \in Clients, Accept(c) PROVE Move
  BY <1>13 DEF Accept, Waiting, Move, Accepts, KeepWorkers
<1>14. ASSUME AcceptFails PROVE Move
  <2>1. /\ q' = q /\ ListenerHas' = ListenerHas /\ MainHas' = MainHas
        /\ KeepWorkers(Workers)
    BY <1>14 DEF AcceptFails, KeepWorkers
  <2>2. CASE UNCHANGED sock
    BY <2>1, <2>2 DEF Move, Unmoved
  <2>3. ASSUME NEW c \in Clients, Waiting(c), sock' = [sock EXCEPT ![c] = "lost"]
        PROVE  Move
    BY <2>1, <2>3 DEF Waiting, Loses, Move
  <2> QED BY <1>14, <2>2, <2>3 DEF AcceptFails
<1>15. ASSUME ListenerPush PROVE Unmoved
  BY <1>15, ZenonT(30) DEF ListenerPush, Queue!PushLock, Queue!BeginCall, Queue!Lock, Queue!Goto,
          Unmoved, KeepWorkers
<1>16. ASSUME NEW w \in Workers, WorkerLoop(w) PROVE Unmoved
  <2>1. q' = q /\ sock' = sock /\ ListenerHas' = ListenerHas /\ MainHas' = MainHas
    BY <1>16 DEF WorkerLoop
  <2>2. ASSUME NEW v \in Workers PROVE WorkerHas(v)' = WorkerHas(v)
    BY <1>16 DEF WorkerLoop
  <2> QED BY <2>1, <2>2 DEF Unmoved, KeepWorkers
<1>17. ASSUME NEW w \in Workers, WorkerPop(w) PROVE Unmoved
  <2>0. w \in Workers
    BY <1>17 DEF WorkerPop, Queue!PopLock, Queue!BeginCall, Queue!Lock, Queue!Goto
  <2>1. q' = q /\ sock' = sock /\ ListenerHas' = ListenerHas /\ MainHas' = MainHas
    <3>1. /\ UNCHANGED <<q, sock, lpc, lcur, mpc>>
          /\ qpc'[Listener] = qpc[Listener] /\ qpc'[Main] = qpc[Main]
                  /\ got'[Main] = got[Main]
      BY <1>17, <2>0 DEF WorkerPop, Queue!PopLock, Queue!BeginCall, Queue!Lock, Queue!Goto
    <3> QED BY <3>1
  <2>2. ASSUME NEW v \in Workers, v # w PROVE WorkerHas(v)' = WorkerHas(v)
    BY <1>17, <2>2 DEF WorkerPop, Queue!PopLock, Queue!BeginCall, Queue!Lock, Queue!Goto
  <2>3. ASSUME w \in Workers PROVE WorkerHas(w) = {} /\ WorkerHas(w)' = {}
    BY <1>17, <2>3 DEF WorkerPop, Queue!PopLock, Queue!BeginCall, Queue!Lock, Queue!Goto
  <2> QED BY <2>1, <2>2, <2>3 DEF Unmoved, KeepWorkers
<1>18. ASSUME NEW w \in Workers, WorkerPopped(w) PROVE Unmoved
  <2>1. q' = q /\ sock' = sock /\ ListenerHas' = ListenerHas /\ MainHas' = MainHas
    BY <1>18 DEF WorkerPopped
  <2>2. ASSUME NEW v \in Workers, v # w PROVE WorkerHas(v)' = WorkerHas(v)
    BY <1>18, <2>2 DEF WorkerPopped
  <2>3. CASE got[w] = <<>>
    <3>1. WorkerHas(w) = {} /\ WorkerHas(w)' = {}
      BY <1>18, <2>3 DEF WorkerPopped
    <3> QED BY <2>1, <2>2, <3>1 DEF Unmoved, KeepWorkers
  <2>4. CASE got[w] # <<>>
    <3>1. WorkerHas(w) = {Head(got[w])}
      BY <1>18, <2>4 DEF WorkerPopped
    <3>2. wpc'[w] = "recv" /\ cur'[w] = Head(got[w])
      BY <1>18, <2>4 DEF WorkerPopped
    <3>3. WorkerHas(w)' = {Head(got[w])}
      BY <3>2
    <3> QED BY <2>1, <2>2, <3>1, <3>3, ZenonT(30) DEF Unmoved, KeepWorkers
  <2> QED BY <2>3, <2>4
<1>19. ASSUME NEW w \in Workers, WorkerRecv(w) PROVE Unmoved
  <2>1. q' = q /\ sock' = sock /\ ListenerHas' = ListenerHas /\ MainHas' = MainHas
    BY <1>19 DEF WorkerRecv
  <2>2. ASSUME NEW v \in Workers PROVE WorkerHas(v)' = WorkerHas(v)
    BY <1>19 DEF WorkerRecv
  <2> QED BY <2>1, <2>2 DEF Unmoved, KeepWorkers
<1>20. ASSUME NEW w \in Workers, WorkerRecvFails(w) PROVE Move
  <2>1. WorkerClose(w) /\ wpc[w] = "recv"
    BY <1>20 DEF WorkerRecvFails
  <2> QED BY <2>1, CloseMoves
<1>21. ASSUME NEW w \in Workers, WorkerSend(w) PROVE Move
  <2>1. CASE WorkerClose(w)
    <3>1. wpc[w] = "send"
      BY <1>21 DEF WorkerSend
    <3> QED BY <2>1, <3>1, CloseMoves
  <2>2. CASE wpc' = [wpc EXCEPT ![w] = "recv"] /\ UNCHANGED <<queue, main, listener, cur,
          spc, sock, clients>>
    <3>1. wpc[w] = "send"
      BY <1>21 DEF WorkerSend
    <3>2. ListenerHas' = ListenerHas /\ MainHas' = MainHas
      BY <2>2
    <3>3. ASSUME NEW v \in Workers PROVE WorkerHas(v)' = WorkerHas(v)
      BY <2>2, <3>1
    <3> QED BY <2>2, <3>2, <3>3 DEF Move, Unmoved, KeepWorkers, queue
  <2> QED BY <1>21, <2>1, <2>2 DEF WorkerSend
<1>22. ASSUME NEW t \in Threads, Queue!PopCheck(t),
            UNCHANGED <<main, listener, workers, spc, sock, clients>>
      PROVE  Unmoved
  <2>0. t \in Workers
    BY <1>22 DEF Queue!PopCheck, Queue!PopReturnStopped, Queue!Unlock, Queue!Goto,
            Queue!history, Threads
  <2>1. q' = q /\ sock' = sock /\ ListenerHas' = ListenerHas /\ MainHas' = MainHas
    <3>1. /\ UNCHANGED <<q, sock, lpc, lcur, mpc>>
          /\ qpc'[Listener] = qpc[Listener] /\ qpc'[Main] = qpc[Main]
                  /\ got'[Main] = got[Main]
      BY <1>22, <2>0 DEF Queue!PopCheck, Queue!PopReturnStopped, Queue!Unlock,
              Queue!Goto, Queue!history, Threads
    <3> QED BY <3>1
  <2>2. ASSUME NEW v \in Workers, v # t PROVE WorkerHas(v)' = WorkerHas(v)
    BY <1>22, <2>2 DEF Queue!PopCheck, Queue!PopReturnStopped, Queue!Unlock, Queue!Goto,
            Queue!history, Threads
  <2>3. ASSUME t \in Workers PROVE WorkerHas(t) = {} /\ WorkerHas(t)' = {}
    BY <1>22, <2>3 DEF Queue!PopCheck, Queue!PopReturnStopped, Queue!Unlock, Queue!Goto,
            Queue!history, Threads
  <2> QED BY <2>1, <2>2, <2>3 DEF Unmoved, KeepWorkers
<1>23. ASSUME NEW t \in Threads, Queue!PopEmpty(t),
            UNCHANGED <<main, listener, workers, spc, sock, clients>>
      PROVE  Unmoved
  <2>0. t \in Workers
    BY <1>23 DEF Queue!PopEmpty, Queue!PopReturnStopped, Queue!Unlock, Queue!Goto,
            Queue!history, Threads
  <2>1. q' = q /\ sock' = sock /\ ListenerHas' = ListenerHas /\ MainHas' = MainHas
    <3>1. /\ UNCHANGED <<q, sock, lpc, lcur, mpc>>
          /\ qpc'[Listener] = qpc[Listener] /\ qpc'[Main] = qpc[Main]
                  /\ got'[Main] = got[Main]
      BY <1>23, <2>0 DEF Queue!PopEmpty, Queue!PopReturnStopped, Queue!Unlock,
              Queue!Goto, Queue!history, Threads
    <3> QED BY <3>1
  <2>2. ASSUME NEW v \in Workers, v # t PROVE WorkerHas(v)' = WorkerHas(v)
    BY <1>23, <2>2 DEF Queue!PopEmpty, Queue!PopReturnStopped, Queue!Unlock, Queue!Goto,
            Queue!history, Threads
  <2>3. ASSUME t \in Workers PROVE WorkerHas(t) = {} /\ WorkerHas(t)' = {}
    BY <1>23, <2>3 DEF Queue!PopEmpty, Queue!PopReturnStopped, Queue!Unlock, Queue!Goto,
            Queue!history, Threads
  <2> QED BY <2>1, <2>2, <2>3 DEF Unmoved, KeepWorkers
<1>24. ASSUME NEW t \in Threads, Queue!PopWait(t),
            UNCHANGED <<main, listener, workers, spc, sock, clients>>
      PROVE  Unmoved
  BY <1>24 DEF Queue!PopWait, Queue!Unlock, Queue!Goto, Queue!history, Unmoved, KeepWorkers
<1>25. ASSUME NEW t \in Threads, Queue!PopRelock(t),
            UNCHANGED <<main, listener, workers, spc, sock, clients>>
      PROVE  Unmoved
  <2>0. t \in Workers
    BY <1>25 DEF Queue!PopRelock, Queue!Lock, Queue!Goto, Queue!history, Threads
  <2>1. q' = q /\ sock' = sock /\ ListenerHas' = ListenerHas /\ MainHas' = MainHas
    <3>1. /\ UNCHANGED <<q, sock, lpc, lcur, mpc>>
          /\ qpc'[Listener] = qpc[Listener] /\ qpc'[Main] = qpc[Main]
                  /\ got'[Main] = got[Main]
      BY <1>25, <2>0 DEF Queue!PopRelock, Queue!Lock, Queue!Goto, Queue!history, Threads
    <3> QED BY <3>1
  <2>2. ASSUME NEW v \in Workers, v # t PROVE WorkerHas(v)' = WorkerHas(v)
    BY <1>25, <2>2 DEF Queue!PopRelock, Queue!Lock, Queue!Goto, Queue!history, Threads
  <2>3. ASSUME t \in Workers PROVE WorkerHas(t) = {} /\ WorkerHas(t)' = {}
    BY <1>25, <2>3 DEF Queue!PopRelock, Queue!Lock, Queue!Goto, Queue!history, Threads
  <2> QED BY <2>1, <2>2, <2>3 DEF Unmoved, KeepWorkers
<1>26. ASSUME NEW t \in Threads, Queue!PopTake(t),
            UNCHANGED <<main, listener, workers, spc, sock, clients>>
      PROVE  Move
  <2>1. t \in Workers /\ wpc[t] = "popping" /\ qpc[t] = "pop_loop"
    BY <1>26 DEF Queue!PopTake, Threads
  <2>2. q # <<>> /\ q' = Tail(q) /\ sock' = sock /\ qpc' = [qpc EXCEPT ![t] = "idle"]
        /\ got' = [got EXCEPT ![t] = <<Head(q)>>]
        /\ UNCHANGED <<lpc, lcur, mpc, wpc, cur>>
    BY <1>26 DEF Queue!PopTake, Queue!Unlock, Queue!Goto
  <2>3. ListenerHas' = ListenerHas /\ MainHas' = MainHas
    BY <2>1, <2>2
  <2>4. WorkerHas(t) = {} /\ WorkerHas(t)' = {Head(q)}
    <3>1. got'[t] = <<Head(q)>> /\ got'[t] # <<>> /\ Head(got'[t]) = Head(q)
            /\ qpc'[t] = "idle"
      BY <2>1, <2>2
    <3> QED BY <2>1, <2>2, <3>1 DEF WorkerHas
  <2>5. ASSUME NEW v \in Workers \ {t} PROVE WorkerHas(v)' = WorkerHas(v)
    BY <2>1, <2>2
  <2> QED BY <2>1, <2>2, <2>3, <2>4, <2>5 DEF Move, Dequeues, KeepWorkers
<1>27. ASSUME NEW t \in Threads, Queue!Push(t),
            UNCHANGED <<main, listener, workers, spc, sock, clients>>
      PROVE  Move
  <2>1. t = Listener /\ lpc = "pushing" /\ arg[t] = lcur /\ lcur \in Clients
    BY <1>27 DEF Queue!Push, Threads
  <2>2. /\ q' = Append(q, lcur) /\ sock' = sock /\ qpc[t] = "push"
        /\ qpc' = [qpc EXCEPT ![t] = IF q = <<>> THEN "push_notify" ELSE "idle"]
        /\ UNCHANGED <<lpc, lcur, mpc, wpc, cur, got>>
    BY <1>27, <2>1 DEF Queue!Push, Queue!Unlock, Queue!Goto, Queue!history
  <2>3. ListenerHas = {lcur} /\ ListenerHas' = {}
    BY <2>1, <2>2
  <2>4. MainHas' = MainHas
    BY <2>1, <2>2
  <2>5. ASSUME NEW v \in Workers PROVE WorkerHas(v)' = WorkerHas(v)
    BY <2>1, <2>2
  <2> QED BY <2>1, <2>2, <2>3, <2>4, <2>5 DEF Move, Enqueues, KeepWorkers
<1>28. ASSUME NEW t \in Threads, Queue!PushNotify(t),
            UNCHANGED <<main, listener, workers, spc, sock, clients>>
      PROVE  Unmoved
  <2>1. q' = q /\ sock' = sock /\ ListenerHas' = ListenerHas /\ MainHas' = MainHas
    BY <1>28 DEF Queue!PushNotify, Queue!NotifyAll, Queue!history, Threads
  <2>2. ASSUME NEW v \in Workers PROVE WorkerHas(v)' = WorkerHas(v)
    BY <1>28 DEF Queue!PushNotify, Queue!NotifyAll, Queue!history, Threads
  <2> QED BY <2>1, <2>2 DEF Unmoved, KeepWorkers
<1>29. ASSUME NEW t \in Threads, Queue!Flush(t),
            UNCHANGED <<main, listener, workers, spc, sock, clients>>
      PROVE  Move
  <2>1. t = Main /\ mpc = "flushing"
    BY <1>29 DEF Queue!Flush, Threads
  <2>2. /\ q' = <<>> /\ sock' = sock /\ qpc[t] = "flush"
        /\ qpc' = [qpc EXCEPT ![t] = "idle"] /\ got' = [got EXCEPT ![t] = q]
        /\ UNCHANGED <<lpc, lcur, mpc, wpc, cur>>
    BY <1>29, <2>1 DEF Queue!Flush, Queue!Unlock, Queue!Goto
  <2>3. MainHas = {} /\ MainHas' = Queued
    <3>1. qpc'[Main] = "idle" /\ got'[Main] = q
      BY <2>1, <2>2
    <3> QED BY <2>1, <2>2, <3>1 DEF MainHas, Queued
  <2>4. ListenerHas' = ListenerHas
    BY <2>1, <2>2
  <2>5. ASSUME NEW v \in Workers PROVE WorkerHas(v)' = WorkerHas(v)
    BY <2>1, <2>2
  <2> QED BY <2>2, <2>3, <2>4, <2>5 DEF Move, Flushes, KeepWorkers
<1>30. ASSUME NEW t \in Threads, Queue!Size(t),
            UNCHANGED <<main, listener, workers, spc, sock, clients>>
      PROVE  Unmoved
  BY <1>30, SMTT(30) DEF Queue!Size, Queue!Unlock, Queue!Goto, Queue!history, Unmoved, KeepWorkers
<1>31. ASSUME NEW t \in Threads, Queue!StopNotify(t),
            UNCHANGED <<main, listener, workers, spc, sock, clients>>
      PROVE  Unmoved
  <2>1. q' = q /\ sock' = sock /\ ListenerHas' = ListenerHas /\ MainHas' = MainHas
    BY <1>31 DEF Queue!StopNotify, Queue!NotifyAll, Queue!history, Threads
  <2>2. ASSUME NEW v \in Workers PROVE WorkerHas(v)' = WorkerHas(v)
    BY <1>31 DEF Queue!StopNotify, Queue!NotifyAll, Queue!history, Threads
  <2> QED BY <2>1, <2>2 DEF Unmoved, KeepWorkers
<1>32. ASSUME NEW t \in Threads, Queue!SpuriousWake(t),
            UNCHANGED <<main, listener, workers, spc, sock, clients>>
      PROVE  Unmoved
  <2>0. t \in Workers
    BY <1>32 DEF Queue!SpuriousWake, Queue!Goto, Queue!history, Threads
  <2>1. q' = q /\ sock' = sock /\ ListenerHas' = ListenerHas /\ MainHas' = MainHas
    <3>1. /\ UNCHANGED <<q, sock, lpc, lcur, mpc>>
          /\ qpc'[Listener] = qpc[Listener] /\ qpc'[Main] = qpc[Main]
                  /\ got'[Main] = got[Main]
      BY <1>32, <2>0 DEF Queue!SpuriousWake, Queue!Goto, Queue!history, Threads
    <3> QED BY <3>1
  <2>2. ASSUME NEW v \in Workers, v # t PROVE WorkerHas(v)' = WorkerHas(v)
    BY <1>32, <2>2 DEF Queue!SpuriousWake, Queue!Goto, Queue!history, Threads
  <2>3. ASSUME t \in Workers PROVE WorkerHas(t) = {} /\ WorkerHas(t)' = {}
    BY <1>32, <2>3 DEF Queue!SpuriousWake, Queue!Goto, Queue!history, Threads
  <2> QED BY <2>1, <2>2, <2>3 DEF Unmoved, KeepWorkers
<1>33. ASSUME Querier PROVE Unmoved
  BY <1>33 DEF Querier, Unmoved, KeepWorkers
<1>34. ASSUME NEW c \in Clients, Connect(c) PROVE Unmoved
  BY <1>34 DEF Connect, Unmoved, KeepWorkers
<1>35. ASSUME NEW c \in Clients, Send(c) PROVE Unmoved
  BY <1>35 DEF Send, Unmoved, KeepWorkers
<1>36. ASSUME NEW c \in Clients, Hangup(c) PROVE Unmoved
  BY <1>36 DEF Hangup, Unmoved, KeepWorkers
<1>37. CASE UNCHANGED vars
  BY <1>37 DEF vars, Move, Unmoved, KeepWorkers
<1> QED BY <1>1, <1>2, <1>3, <1>4, <1>5, <1>6, <1>7, <1>8, <1>9, <1>10, <1>11,
     <1>12, <1>13, <1>14, <1>15, <1>16, <1>17, <1>18, <1>19, <1>20, <1>21,
     <1>22, <1>23, <1>24, <1>25, <1>26, <1>27, <1>28, <1>29, <1>30, <1>31,
     <1>32, <1>33, <1>34, <1>35, <1>36, <1>37 DEF Move, Next, StartStep, StopStep,
     ListenerStep, WorkerStep, QueueCall, QueueWake, Queue!Step, ClientStep

-----------------------------------------------------------------------------
(* The moves keep every open connection in one place.                      *)

\* What append, tail and head do to the connections in a queue.
LEMMA AppendRange ==
    ASSUME NEW S, NEW s \in Seq(S), NEW c \in S, NEW i
    PROVE  /\ i \in DOMAIN Append(s, c) <=> i \in DOMAIN s \/ i = Len(s) + 1
           /\ i \in DOMAIN s => Append(s, c)[i] = s[i] /\ i # Len(s) + 1
           /\ Append(s, c)[Len(s) + 1] = c
OBVIOUS

LEMMA TailRange ==
    ASSUME NEW S, NEW s \in Seq(S), s # <<>>, NEW i
    PROVE  /\ 1 \in DOMAIN s /\ Head(s) = s[1] /\ Head(s) \in S
           /\ i \in DOMAIN Tail(s) => i + 1 \in DOMAIN s /\ Tail(s)[i] = s[i + 1]
                   /\ i \in Nat /\ i # 0
           /\ i \in DOMAIN s /\ i # 1 => i - 1 \in DOMAIN Tail(s) /\ Tail(s)[i - 1] = s[i]
OBVIOUS

LEMMA AppendQueued ==
    ASSUME q \in Seq(Clients), NEW c \in Clients, q' = Append(q, c)
    PROVE  Queued' = Queued \cup {c}
<1>1. ASSUME NEW x \in Queued' PROVE x \in Queued \cup {c}
  <2>1. PICK i \in DOMAIN q' : x = q'[i]
    BY <1>1 DEF Queued
  <2> QED BY <2>1, AppendRange DEF Queued
<1>2. ASSUME NEW x \in Queued PROVE x \in Queued'
  <2>1. PICK i \in DOMAIN q : x = q[i]
    BY <1>2 DEF Queued
  <2> QED BY <2>1, AppendRange DEF Queued
<1>3. c \in Queued'
  BY AppendRange DEF Queued
<1> QED BY <1>1, <1>2, <1>3

LEMMA TailQueued ==
    ASSUME q \in Seq(Clients), q # <<>>, q' = Tail(q), QueuedOnce
    PROVE  Head(q) \in Clients /\ Queued = Queued' \cup {Head(q)} /\ Head(q) \notin Queued'
<1>1. ASSUME NEW x \in Queued' PROVE x \in Queued /\ x # Head(q)
  <2>1. PICK i \in DOMAIN q' : x = q'[i]
    BY <1>1 DEF Queued
  <2>2. i + 1 \in DOMAIN q /\ x = q[i + 1] /\ 1 \in DOMAIN q /\ Head(q) = q[1] /\ i + 1 # 1
    BY <2>1, TailRange
  <2> QED BY <2>2 DEF Queued, QueuedOnce
<1>2. ASSUME NEW x \in Queued, x # Head(q) PROVE x \in Queued'
  <2>1. PICK i \in DOMAIN q : x = q[i]
    BY <1>2 DEF Queued
  <2>2. i - 1 \in DOMAIN q' /\ x = q'[i - 1]
    BY <1>2, <2>1, TailRange
  <2> QED BY <2>2 DEF Queued
<1>3. Head(q) \in Queued /\ Head(q) \in Clients
  BY TailRange DEF Queued
<1> QED BY <1>1, <1>2, <1>3

\* No move puts a connection into the queue a second time.
LEMMA QueuedOnceStep == TypeOK /\ QueuedOnce /\ OnePlace /\ Move => QueuedOnce'
<1> SUFFICES ASSUME TypeOK, QueuedOnce, OnePlace, Move PROVE QueuedOnce'
  OBVIOUS
<1>0. q \in Seq(Clients)
  BY DEF TypeOK, Queue!TypeOK
<1>1. CASE q' = q
  BY <1>1 DEF QueuedOnce
<1>2. ASSUME NEW c \in Clients, Enqueues(c) PROVE QueuedOnce'
  <2>1. c \notin Queued /\ q' = Append(q, c)
    BY <1>2 DEF Enqueues, OnePlace
  <2> SUFFICES ASSUME NEW i \in DOMAIN q', NEW j \in DOMAIN q', q'[i] = q'[j] PROVE i = j
    BY DEF QueuedOnce
  <2>2. ASSUME NEW k \in DOMAIN q'
        PROVE  \/ k \in DOMAIN q /\ q'[k] = q[k] /\ q[k] # c
               \/ k = Len(q) + 1 /\ q'[k] = c
    <3>1. k \in DOMAIN q \/ k = Len(q) + 1
      BY <1>0, <2>1, AppendRange
    <3>2. CASE k \in DOMAIN q
      <4>1. q'[k] = q[k]
        BY <1>0, <2>1, <3>2, AppendRange
      <4>2. q[k] \in Queued
        BY <3>2 DEF Queued
      <4> QED BY <2>1, <3>2, <4>1, <4>2
    <3> QED BY <1>0, <2>1, <3>1, <3>2, AppendRange
  <2> QED BY <2>2 DEF QueuedOnce
<1>3. ASSUME NEW w \in Workers, Dequeues(w) PROVE QueuedOnce'
  <2>1. q' = Tail(q) /\ q # <<>>
    BY <1>3 DEF Dequeues
  <2> SUFFICES ASSUME NEW i \in DOMAIN q', NEW j \in DOMAIN q', q'[i] = q'[j] PROVE i = j
    BY DEF QueuedOnce
  <2>2. i + 1 \in DOMAIN q /\ q'[i] = q[i + 1] /\ j + 1 \in DOMAIN q
          /\ q'[j] = q[j + 1] /\ i \in Nat /\ j \in Nat
    BY <1>0, <2>1, TailRange
  <2>3. i + 1 = j + 1
    BY <2>2 DEF QueuedOnce
  <2> QED BY <2>2, <2>3
<1>4. CASE q' = <<>>
  BY <1>4 DEF QueuedOnce
<1> QED BY <1>1, <1>2, <1>3, <1>4 DEF Move, Unmoved, Accepts, Loses, Closes, Flushes,
     ShutsDown

\* Every move keeps each connection in at most one place, and the open ones
\* in one.
LEMMA PlaceStep ==
    TypeOK /\ QueuedOnce /\ OnePlace /\ OpenPlaced /\ Move => OnePlace' /\ OpenPlaced'
<1> SUFFICES ASSUME TypeOK, QueuedOnce, OnePlace, OpenPlaced, Move
             PROVE  OnePlace' /\ OpenPlaced'
  OBVIOUS
<1>0. q \in Seq(Clients) /\ sock \in [Clients -> {"none", "open", "shut", "closed", "lost"}]
  BY DEF TypeOK, Queue!TypeOK
<1> USE DEF OnePlace, OpenPlaced, Placed, KeepWorkers
<1>1. CASE Unmoved
  BY <1>1 DEF Unmoved, Queued
<1>2. ASSUME NEW c \in Clients, Accepts(c) PROVE OnePlace' /\ OpenPlaced'
  <2>1. Queued' = Queued
    BY <1>2 DEF Accepts, Queued
  <2>2. ~Placed(c)
    BY <1>2 DEF Accepts
  <2>3. OnePlace'
    BY <1>2, <2>1, <2>2 DEF Accepts
  <2>4. OpenPlaced'
    BY <1>0, <1>2, <2>1, <2>2 DEF Accepts
  <2> QED BY <2>3, <2>4
<1>3. ASSUME NEW c \in Clients, Enqueues(c) PROVE OnePlace' /\ OpenPlaced'
  <2>1. Queued' = Queued \cup {c}
    BY <1>0, <1>3, AppendQueued DEF Enqueues
  <2> QED BY <1>3, <2>1 DEF Enqueues
<1>4. ASSUME NEW c \in Clients, NEW w \in Workers, Closes(w, c) PROVE OnePlace'
        /\ OpenPlaced'
  <2>1. Queued' = Queued
    BY <1>4 DEF Closes, Queued
  <2>2. OnePlace'
    BY <1>4, <2>1 DEF Closes
  <2>3. sock[c] = "open" /\ sock' = [sock EXCEPT ![c] = "closed"]
    BY <1>0, <1>4 DEF Closes, Close
  <2>4. OpenPlaced'
    BY <1>0, <1>4, <2>1, <2>3 DEF Closes
  <2> QED BY <2>2, <2>4
<1>5. ASSUME NEW w \in Workers, Dequeues(w) PROVE OnePlace' /\ OpenPlaced'
  <2>1. Head(q) \in Clients /\ Queued = Queued' \cup {Head(q)} /\ Head(q) \notin Queued'
    BY <1>0, <1>5, TailQueued DEF Dequeues
  <2>2. OnePlace'
    BY <1>5, <2>1 DEF Dequeues
  <2>3. ASSUME NEW c \in Clients PROVE (sock[c] = "open" <=> Placed(c))'
    <3>1. (\E v \in Workers : c \in WorkerHas(v)')
             <=> (\E v \in Workers : c \in WorkerHas(v)) \/ c = Head(q)
      BY <1>5 DEF Dequeues
    <3> QED BY <1>5, <2>1, <3>1 DEF Dequeues
  <2> QED BY <2>2, <2>3
<1>6. CASE Flushes
  <2>1. Queued' = {}
    BY <1>6 DEF Flushes, Queued
  <2> QED BY <1>6, <2>1 DEF Flushes
<1>7. CASE ShutsDown
  <2>1. Queued' = Queued
    BY <1>7 DEF ShutsDown, Queued
  <2>2. OnePlace'
    BY <1>7, <2>1 DEF ShutsDown
  <2>3. ASSUME NEW c \in Clients PROVE (sock[c] = "open" <=> Placed(c))'
    <3>1. Placed(c)' <=> Placed(c) /\ c \notin MainHas
      BY <1>7, <2>1 DEF ShutsDown, Queued
    <3> QED BY <1>0, <1>7, <3>1 DEF ShutsDown, Shutdown
  <2> QED BY <2>2, <2>3
<1>8. ASSUME NEW c \in Clients, Loses(c) PROVE OnePlace' /\ OpenPlaced'
  <2>1. Queued' = Queued
    BY <1>8 DEF Loses, Queued
  <2>2. OnePlace'
    BY <1>8, <2>1 DEF Loses
  <2>3. ASSUME NEW d \in Clients
        PROVE  (sock'[d] = "open" <=> sock[d] = "open") /\ (Placed(d)' <=> Placed(d))
    BY <1>0, <1>8, <2>1 DEF Loses
  <2> QED BY <2>2, <2>3
<1> QED BY <1>1, <1>2, <1>3, <1>4, <1>5, <1>6, <1>7, <1>8 DEF Move

-----------------------------------------------------------------------------
(* Theorems.                                                               *)

LEMMA InitIInv == Init => IInv
<1> SUFFICES ASSUME Init PROVE IInv
  OBVIOUS
<1>1. Control
  BY InitControl
<1>2. Queued = {} /\ ListenerHas = {} /\ MainHas = {}
        /\ \A w \in Workers : WorkerHas(w) = {}
  BY DEF Init, Queue!Init, Queued, ListenerHas, MainHas, WorkerHas
<1>3. QueuedOnce /\ OnePlace /\ OpenPlaced
  BY <1>2 DEF Init, Queue!Init, QueuedOnce, OnePlace, OpenPlaced, Placed
<1> QED BY <1>1, <1>3 DEF IInv

LEMMA Invariance == Spec => []IInv
<1>1. IInv /\ [Next]_vars => IInv'
  <2>1. IInv /\ [Next]_vars => Control' /\ Move
    BY ControlStep, MoveStep DEF IInv
  <2> QED BY <2>1, QueuedOnceStep, PlaceStep DEF IInv, Control
<1> QED BY InitIInv, <1>1, PTL DEF Spec

\* The variables of the server and of its queue keep their types.
THEOREM TypeCorrect == Spec => []TypeOK
<1>1. IInv => TypeOK
  BY DEF IInv, Control
<1> QED BY Invariance, <1>1, PTL

\* start(), stop(), the listener and the workers use the queue as its own
\* specification allows, so everything shown of SynchronizedQueue holds of
\* the server's queue of connections.
THEOREM UsesQueue == Spec => Queue!Spec
<1>1. Init => Queue!Init
  BY DEF Init
<1>2. IInv /\ [Next]_vars => [Queue!Next]_(Queue!vars)
  BY QueueStep DEF IInv
<1> QED BY Invariance, <1>1, <1>2, PTL DEF Spec, Queue!Spec

\* A connection that a worker serves is open and in nobody else's hands,
\* whatever the listener, the other workers and stop() do meanwhile.
THEOREM ServiceIsExclusive == Spec => []ExclusiveService
<1>1. IInv => ExclusiveService
  <2> SUFFICES ASSUME IInv, NEW w \in Workers, cur[w] # None
               PROVE  /\ sock[cur[w]] = "open" /\ cur[w] \notin Queued
                      /\ \A v \in Workers \ {w} : cur[v] # cur[w]
    BY DEF ExclusiveService
  <2> USE DEF IInv, Control
  <2>1. \A v \in Workers : cur[v] # None => cur[v] \in Clients /\ WorkerHas(v) = {cur[v]}
    BY DEF WorkerCalls, WorkerHas
  <2>2. cur[w] \in Clients /\ cur[w] \in WorkerHas(w)
    BY <2>1
  <2>3. sock[cur[w]] = "open" /\ cur[w] \notin Queued
    BY <2>2 DEF OpenPlaced, Placed, OnePlace
  <2>4. ASSUME NEW v \in Workers \ {w} PROVE cur[v] # cur[w]
    BY <2>1, <2>2 DEF OnePlace
  <2> QED BY <2>3, <2>4
<1> QED BY Invariance, <1>1, PTL

\* When stop() has returned, no connection that was ever accepted is open.
THEOREM StopReleases == Spec => []StopReleasesConnections
<1>1. IInv => StopReleasesConnections
  <2> SUFFICES ASSUME IInv, mpc = "stopped", NEW c \in Clients PROVE sock[c] # "open"
    BY DEF StopReleasesConnections
  <2>1. lpc = "exited" /\ q = <<>> /\ \A w \in Workers : wpc[w] = "exited"
    BY DEF IInv, Control, StopOrder
  <2>2. ListenerHas = {} /\ MainHas = {} /\ Queued = {}
          /\ \A w \in Workers : WorkerHas(w) = {}
    BY <2>1 DEF ListenerHas, MainHas, Queued, WorkerHas
  <2> QED BY <2>2 DEF IInv, OpenPlaced, Placed
<1> QED BY Invariance, <1>1, PTL
=============================================================================
