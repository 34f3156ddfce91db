------------------------------ MODULE KvServer ------------------------------
(***************************************************************************)
(* kvstore/server/server.cpp: the threads of a key-value server and its    *)
(* life from start() to the end of stop(). The listener thread accepts     *)
(* connections and pushes them on the queue, the workers pop them and      *)
(* serve each until the client closes it, a querier polls the shardmaster  *)
(* and the main thread runs start() and stop().                            *)
(*                                                                         *)
(* The queue is SynchronizedQueue itself, step by step: its variables are  *)
(* variables of this module and the threads call its actions. What a       *)
(* request does to the store is the subject of KvStore and its             *)
(* implementations, not of this module.                                    *)
(*                                                                         *)
(* Clients are external: they connect, send requests and close when they   *)
(* like.                                                                   *)
(***************************************************************************)
EXTENDS Naturals, Sequences, FiniteSets

CONSTANTS
    Workers,        \* the worker threads
    Listener,       \* the client_listener thread
    Main,           \* the thread that calls start() and stop()
    None,           \* no thread, no connection
    Clients,        \* the connections clients may make
    HasShardmaster, \* shardmaster_address is not empty
    MaxRequests,    \* bound: the requests sent on one connection
    MaxCalls        \* the bound of SynchronizedQueue on the calls of a thread

\* The threads and the connections are different objects, and None is neither.
ASSUME DistinctAssumption ==
    /\ Listener \notin Workers /\ Main \notin Workers /\ Listener # Main
    /\ None \notin Workers \cup {Listener, Main} \cup Clients

ASSUME HasShardmasterAssumption == HasShardmaster \in BOOLEAN
ASSUME MaxRequestsAssumption == MaxRequests \in Nat

\* No thread ever runs out of calls: a worker pops each connection at most once
\* and "stopped" once, the listener pushes each connection once, and the main
\* thread calls stop and flush.
ASSUME MaxCallsAssumption ==
    MaxCalls \in Nat /\ MaxCalls >= 2 /\ MaxCalls > Cardinality(Clients)

Threads == Workers \cup {Listener, Main}

VARIABLES
    \* The connection queue: the variables of SynchronizedQueue.
    q, mtx, qstopped, qpc, calls, pushed, arg, got, late,
    \* The server.
    is_stopped, \* the atomic flag of the server
    lsock,      \* the listening socket: "none", "open", "shut" or "closed"
    mpc,        \* where the main thread is
    lpc,        \* where the listener is
    lcur,       \* the connection the listener has accepted last
    wpc,        \* wpc[w]: where worker w is
    cur,        \* cur[w]: the connection w serves
    spc,        \* where the shardmaster querier is
    sock,       \* sock[c]: the server's end: "none", "open", "shut", "closed",
                \* or "lost", an open descriptor that nobody knows
    \* The clients.
    peer,       \* peer[c]: the client's end: "none", "open" or "closed"
    pending,    \* pending[c]: the requests sent and not yet received
    sent        \* sent[c]: the requests sent (bound)

queue == <<q, mtx, qstopped, qpc, calls, pushed, arg, got, late>>
main == <<is_stopped, mpc, lsock>>
listener == <<lpc, lcur>>
workers == <<wpc, cur>>
clients == <<peer, pending, sent>>
vars == <<queue, main, listener, workers, spc, sock, clients>>

\* The queue of accepted connections.
Queue == INSTANCE SynchronizedQueue WITH
    Elts <- Clients,
    is_stopped <- qstopped,
    pc <- qpc

MPCs == {"init", "connect", "running", "failed", "stop_listener",
         "join_listener", "queue_stop", "queue_stopping", "flush", "flushing",
         "join_workers", "join_querier", "stopped"}

TypeOK ==
    /\ Queue!TypeOK
    /\ is_stopped \in BOOLEAN
    /\ lsock \in {"none", "open", "shut", "closed"}
    /\ mpc \in MPCs
    /\ lpc \in {"none", "loop", "accept", "push", "pushing", "exited"}
    /\ lcur \in Clients \cup {None}
    /\ wpc \in [Workers -> {"none", "loop", "pop", "popping", "recv", "send", "exited"}]
    /\ cur \in [Workers -> Clients \cup {None}]
    /\ spc \in {"none", "loop", "exited"}
    /\ sock \in [Clients -> {"none", "open", "shut", "closed", "lost"}]
    /\ peer \in [Clients -> {"none", "open", "closed"}]
    /\ pending \in [Clients -> 0..MaxRequests]
    /\ sent \in [Clients -> 0..MaxRequests]

Init ==
    /\ Queue!Init
    /\ is_stopped = FALSE
    /\ lsock = "none"
    /\ mpc = "init"
    /\ lpc = "none"
    /\ lcur = None
    /\ wpc = [w \in Workers |-> "none"]
    /\ cur = [w \in Workers |-> None]
    /\ spc = "none"
    /\ sock = [c \in Clients |-> "none"]
    /\ peer = [c \in Clients |-> "none"]
    /\ pending = [c \in Clients |-> 0]
    /\ sent = [c \in Clients |-> 0]

-----------------------------------------------------------------------------
(* start(), run by the main thread *)

\* open_listener_socket fails: start() returns -1 and the program exits.
StartFails ==
    /\ mpc = "init"
    /\ mpc' = "failed"
    /\ UNCHANGED <<queue, is_stopped, lsock, listener, workers, spc, sock, clients>>

\* The listener and the workers are started.
Start ==
    /\ mpc = "init"
    /\ is_stopped' = FALSE
    /\ lsock' = "open"
    /\ lpc' = "loop"
    /\ wpc' = [w \in Workers |-> "loop"]
    /\ mpc' = IF HasShardmaster THEN "connect" ELSE "running"
    /\ UNCHANGED <<queue, lcur, cur, spc, sock, clients>>

\* The shardmaster is reached and the querier started, or start() returns -1
\* with the other threads running, and the program exits.
ConnectShardmaster ==
    /\ mpc = "connect"
    /\ \/ /\ mpc' = "running"
          /\ spc' = "loop"
          /\ UNCHANGED lsock
       \/ /\ mpc' = "failed"
          /\ lsock' = "closed"
          /\ UNCHANGED spc
    /\ UNCHANGED <<queue, is_stopped, listener, workers, sock, clients>>

-----------------------------------------------------------------------------
(* stop(), run by the main thread when its user asks for it *)

StopFlag ==
    /\ mpc = "running"
    /\ is_stopped' = TRUE
    /\ mpc' = "stop_listener"
    /\ UNCHANGED <<queue, lsock, listener, workers, spc, sock, clients>>

\* shutdown(listener_fd): a blocked accept returns.
MutantStopListenerKeepsSocket ==
    /\ mpc = "stop_listener"
    /\ mpc' = "join_listener"
    /\ UNCHANGED <<queue, is_stopped, lsock, listener, workers, spc, sock, clients>>

StopListener ==
    /\ mpc = "stop_listener"
    /\ lsock' = "shut"
    /\ mpc' = "join_listener"
    /\ UNCHANGED <<queue, is_stopped, listener, workers, spc, sock, clients>>

\* client_listener.join().
MutantJoinListenerLate ==
    /\ mpc = "join_listener"
    /\ mpc' = "queue_stop"
    /\ UNCHANGED <<queue, is_stopped, lsock, listener, workers, spc, sock, clients>>

JoinListener ==
    /\ mpc = "join_listener"
    /\ lpc = "exited"
    /\ mpc' = "queue_stop"
    /\ UNCHANGED <<queue, is_stopped, lsock, listener, workers, spc, sock, clients>>

\* conn_queue.stop() begins, and conn_queue.flush() once it has returned.
StopQueue ==
    \/ /\ mpc = "queue_stop"
       /\ Queue!StopSet(Main)
       /\ mpc' = "queue_stopping"
       /\ UNCHANGED <<is_stopped, lsock, listener, workers, spc, sock, clients>>
    \/ /\ mpc = "queue_stopping"
       /\ qpc[Main] = "idle"
       /\ mpc' = "flush"
       /\ UNCHANGED <<queue, is_stopped, lsock, listener, workers, spc, sock, clients>>

FlushQueue ==
    /\ mpc = "flush"
    /\ Queue!FlushLock(Main)
    /\ mpc' = "flushing"
    /\ UNCHANGED <<is_stopped, lsock, listener, workers, spc, sock, clients>>

\* ClientConn::shutdown and ClientConn::close: nothing unless is_connected.
Shutdown(cs) ==
    sock' = [c \in Clients |-> IF c \in cs /\ sock[c] = "open" THEN "shut" ELSE sock[c]]
Close(c) ==
    sock' = [sock EXCEPT ![c] = IF @ = "open" THEN "closed" ELSE @]

MutantShutdownEveryone ==
    /\ mpc = "flushing"
    /\ qpc[Main] = "idle"
    /\ Shutdown(Clients)
    /\ mpc' = "join_workers"
    /\ UNCHANGED <<queue, is_stopped, lsock, listener, workers, spc, clients>>

\* Flush has returned: shut down every connection it delivered.
ShutdownFlushed ==
    /\ mpc = "flushing"
    /\ qpc[Main] = "idle"
    /\ Shutdown({got[Main][i] : i \in DOMAIN got[Main]})
    /\ mpc' = "join_workers"
    /\ UNCHANGED <<queue, is_stopped, lsock, listener, workers, spc, clients>>

JoinWorkers ==
    /\ mpc = "join_workers"
    /\ \A w \in Workers : wpc[w] = "exited"
    /\ mpc' = IF HasShardmaster THEN "join_querier" ELSE "stopped"
    /\ UNCHANGED <<queue, is_stopped, lsock, listener, workers, spc, sock, clients>>

JoinQuerier ==
    /\ mpc = "join_querier"
    /\ spc = "exited"
    /\ mpc' = "stopped"
    /\ UNCHANGED <<queue, is_stopped, lsock, listener, workers, spc, sock, clients>>

-----------------------------------------------------------------------------
(* accept_clients_loop() *)

ListenerLoop ==
    /\ lpc = "loop"
    /\ lpc' = IF is_stopped THEN "exited" ELSE "accept"
    /\ UNCHANGED <<queue, main, lcur, workers, spc, sock, clients>>

\* A connection that the listening socket has not handed out yet.
Waiting(c) == lsock = "open" /\ peer[c] # "none" /\ sock[c] = "none"

Accept(c) ==
    /\ lpc = "accept"
    /\ Waiting(c)
    /\ sock' = [sock EXCEPT ![c] = "open"]
    /\ lcur' = c
    /\ lpc' = "push"
    /\ UNCHANGED <<queue, main, workers, spc, clients>>

\* accept_client returns null and the loop ends: the listening socket is shut
\* down or accept failed for a reason of its own, or getnameinfo failed after
\* accept and the new descriptor is forgotten, open.
AcceptFails ==
    /\ lpc = "accept"
    /\ lpc' = "exited"
    /\ UNCHANGED <<queue, main, lcur, workers, spc, clients>>
    /\ \/ UNCHANGED sock
       \/ \E c \in Clients : Waiting(c) /\ sock' = [sock EXCEPT ![c] = "lost"]

ListenerPush ==
    \/ /\ lpc = "push"
       /\ Queue!PushLock(Listener, lcur)
       /\ lpc' = "pushing"
       /\ UNCHANGED <<main, lcur, workers, spc, sock, clients>>
    \/ /\ lpc = "pushing"
       /\ qpc[Listener] = "idle"
       /\ lpc' = "loop"
       /\ UNCHANGED <<queue, main, lcur, workers, spc, sock, clients>>

-----------------------------------------------------------------------------
(* work_loop() *)

WorkerLoop(w) ==
    /\ wpc[w] = "loop"
    /\ wpc' = [wpc EXCEPT ![w] = IF is_stopped THEN "exited" ELSE "pop"]
    /\ UNCHANGED <<queue, main, listener, cur, spc, sock, clients>>

WorkerPop(w) ==
    /\ wpc[w] = "pop"
    /\ Queue!PopLock(w)
    /\ wpc' = [wpc EXCEPT ![w] = "popping"]
    /\ UNCHANGED <<main, listener, cur, spc, sock, clients>>

\* pop has returned: true, and the worker exits, or false with a connection.
WorkerPopped(w) ==
    /\ wpc[w] = "popping"
    /\ qpc[w] = "idle"
    /\ IF got[w] = <<>>
       THEN wpc' = [wpc EXCEPT ![w] = "exited"] /\ UNCHANGED cur
       ELSE wpc' = [wpc EXCEPT ![w] = "recv"] /\ cur' = [cur EXCEPT ![w] = Head(got[w])]
    /\ UNCHANGED <<queue, main, listener, spc, sock, clients>>

\* recv_request returns a request.
WorkerRecv(w) ==
    /\ wpc[w] = "recv"
    /\ pending[cur[w]] > 0
    /\ pending' = [pending EXCEPT ![cur[w]] = @ - 1]
    /\ wpc' = [wpc EXCEPT ![w] = "send"]
    /\ UNCHANGED <<queue, main, listener, cur, spc, sock, peer, sent>>

\* The worker closes the connection and goes on to the next.
WorkerClose(w) ==
    /\ Close(cur[w])
    /\ cur' = [cur EXCEPT ![w] = None]
    /\ wpc' = [wpc EXCEPT ![w] = "loop"]
    /\ UNCHANGED <<queue, main, listener, spc, clients>>

\* recv_request returns nothing: the client has closed, or what it sent cannot
\* be received or parsed.
MutantWaitsAfterEof(w) ==
    /\ wpc[w] = "recv"
    /\ pending[cur[w]] > 0
    /\ WorkerClose(w)

WorkerRecvFails(w) ==
    /\ wpc[w] = "recv"
    /\ peer[cur[w]] = "closed" \/ pending[cur[w]] > 0
    /\ WorkerClose(w)

\* process_request answers; sending the answer succeeds, or fails (the client
\* has closed, or takes longer than the timeout of the body) and the worker
\* closes the connection.
WorkerSend(w) ==
    /\ wpc[w] = "send"
    /\ \/ /\ wpc' = [wpc EXCEPT ![w] = "recv"]
          /\ UNCHANGED <<queue, main, listener, cur, spc, sock, clients>>
       \/ WorkerClose(w)

-----------------------------------------------------------------------------
(* query_shardmaster_loop(): query_shardmaster is a stub that returns true. *)

Querier ==
    /\ spc = "loop"
    /\ is_stopped
    /\ spc' = "exited"
    /\ UNCHANGED <<queue, main, listener, workers, sock, clients>>

-----------------------------------------------------------------------------
(* The clients, external *)

Connect(c) ==
    /\ peer[c] = "none"
    /\ lsock = "open"
    /\ peer' = [peer EXCEPT ![c] = "open"]
    /\ UNCHANGED <<queue, main, listener, workers, spc, sock, pending, sent>>

Send(c) ==
    /\ peer[c] = "open"
    /\ sent[c] < MaxRequests
    /\ sent' = [sent EXCEPT ![c] = @ + 1]
    /\ pending' = [pending EXCEPT ![c] = @ + 1]
    /\ UNCHANGED <<queue, main, listener, workers, spc, sock, peer>>

Hangup(c) ==
    /\ peer[c] = "open"
    /\ peer' = [peer EXCEPT ![c] = "closed"]
    /\ UNCHANGED <<queue, main, listener, workers, spc, sock, pending, sent>>

-----------------------------------------------------------------------------
\* A queue call in progress goes on inside the queue.
QueueCall(t) ==
    /\ Queue!Step(t)
    /\ UNCHANGED <<main, listener, workers, spc, sock, clients>>

QueueWake(t) ==
    /\ Queue!SpuriousWake(t)
    /\ UNCHANGED <<main, listener, workers, spc, sock, clients>>

WorkerStep(w) ==
    \/ WorkerLoop(w) \/ WorkerPop(w) \/ WorkerPopped(w)
    \/ WorkerRecv(w) \/ WorkerRecvFails(w) \/ WorkerSend(w)

ListenerStep ==
    ListenerLoop \/ (\E c \in Clients : Accept(c)) \/ AcceptFails \/ ListenerPush

StartStep == StartFails \/ Start \/ ConnectShardmaster

StopStep ==
    \/ StopListener \/ JoinListener \/ StopQueue \/ FlushQueue
    \/ ShutdownFlushed \/ JoinWorkers \/ JoinQuerier

ClientStep == \E c \in Clients : Connect(c) \/ Send(c) \/ Hangup(c)

\* Once start() has failed, the program exits and takes all threads with it.
Next ==
    /\ mpc # "failed"
    /\ \/ StartStep \/ StopFlag \/ StopStep
       \/ ListenerStep
       \/ \E w \in Workers : WorkerStep(w)
       \/ \E t \in Threads : QueueCall(t) \/ QueueWake(t)
       \/ Querier
       \/ ClientStep

Spec == Init /\ [][Next]_vars

(* Every thread that can run does run, and a shut down listening socket    *)
(* makes accept return. A thread that waits for the queue's mutex gets it  *)
(* if it is free again and again: the steps that take it are strongly      *)
(* fair, because spurious wakeups of sleeping workers can take it          *)
(* infinitely often. Nobody need call stop(), and no client need send or   *)
(* close.                                                                  *)
FairSpec ==
    /\ Spec
    /\ WF_vars(StopStep) /\ SF_vars(FlushQueue)
    /\ WF_vars(ListenerLoop \/ \E c \in Clients : Accept(c))
    /\ SF_vars(ListenerPush)
    /\ WF_vars(lsock = "shut" /\ AcceptFails)
    /\ \A w \in Workers : WF_vars(WorkerStep(w)) /\ SF_vars(WorkerPop(w))
    /\ \A t \in Threads : SF_vars(QueueCall(t))
    /\ WF_vars(Querier)

\* In addition, every client hangs up in the end.
CooperativeSpec == FairSpec /\ \A c \in Clients : WF_vars(Hangup(c))

-----------------------------------------------------------------------------
(* Properties *)

Queued == {q[i] : i \in DOMAIN q}

\* A worker serves an open connection, and it alone: no other worker serves
\* it, it is not in the queue, and stop() does not shut it down in passing.
ExclusiveService ==
    \A w \in Workers :
        cur[w] # None =>
            /\ sock[cur[w]] = "open"
            /\ cur[w] \notin Queued
            /\ \A v \in Workers \ {w} : cur[v] # cur[w]

\* When stop() returns, every connection the listener ever accepted has been
\* closed by its worker or shut down by stop(): joining the listener before
\* the queue is stopped and flushed leaves none behind. The one that is lost
\* because getnameinfo failed was never handed to the server and is not counted.
StopReleasesConnections ==
    mpc = "stopped" => \A c \in Clients : sock[c] # "open"

\* A worker sleeps in pop although the queue is stopped and its stop() is over:
\* nothing will wake it. See StopReleasesAll of SynchronizedQueue.
WorkerStranded ==
    /\ qstopped
    /\ qpc[Main] # "stop_notify"
    /\ \E w \in Workers : qpc[w] = "asleep"

\* If the clients hang up, stop() returns, unless the queue's stop() has left
\* a worker asleep.
StopReturns ==
    (mpc = "stop_listener") ~> (mpc = "stopped" \/ WorkerStranded)

\* If the clients hang up, every accepted connection is released in the end,
\* whether a worker serves it or stop() finds it in the queue.
ConnectionsReleased ==
    \A c \in Clients :
        (sock[c] = "open") ~> (sock[c] # "open" \/ mpc = "failed")
=============================================================================
