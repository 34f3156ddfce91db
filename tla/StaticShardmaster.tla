------------------------- MODULE StaticShardmaster -------------------------
(***************************************************************************)
(* kvstore/shardmaster/static_shardmaster.cpp: the threads of the          *)
(* shardmaster and its life from start() to the end of stop(). The         *)
(* listener spawns one detached handler thread per connection and records  *)
(* the connection in current_conns; a handler removes it when it ends;     *)
(* stop() waits on conns_cv until current_conns is empty, which stands in  *)
(* for joining the handlers. Join, Leave, Move and Query are stubs that    *)
(* change nothing.                                                         *)
(*                                                                         *)
(* Handler c is the thread that serves connection c. A critical section of *)
(* conns_mtx is one step, except the listener's, because the thread it     *)
(* spawns there starts to run before the section ends.                     *)
(*                                                                         *)
(* Clients are external: they connect, send requests and close when they   *)
(* like.                                                                   *)
(***************************************************************************)
EXTENDS Naturals

CONSTANTS
    Clients,        \* the connections clients may make
    None,           \* no connection
    MaxRequests     \* bound: the requests sent on one connection

ASSUME NoneAssumption == None \notin Clients
ASSUME MaxRequestsAssumption == MaxRequests \in Nat

VARIABLES
    is_stopped,     \* the atomic flag
    lsock,          \* the listening socket: "none", "open" or "shut"
    mpc,            \* where the main thread is
    lpc,            \* where the listener is
    lcur,           \* the connection the listener has accepted last
    conns_mtx,      \* the owner of the mutex between steps: "none", "listener" or "main"
    current_conns,  \* the connections in the vector
    hpc,            \* hpc[c]: where handler c is
    is_connected,   \* is_connected[c]: the flag of the ClientConn
    sock,           \* sock[c]: the server's end: "none", "open", "shut" or "closed"
    peer,           \* peer[c]: the client's end: "none", "open" or "closed"
    pending,        \* pending[c]: the requests sent and not yet received
    sent            \* sent[c]: the requests sent (bound)

main == <<is_stopped, lsock, mpc>>
listener == <<lpc, lcur>>
conns == <<is_connected, sock>>
clients == <<peer, pending, sent>>
vars == <<main, listener, conns_mtx, current_conns, hpc, conns, clients>>

TypeOK ==
    /\ is_stopped \in BOOLEAN
    /\ lsock \in {"none", "open", "shut"}
    /\ mpc \in {"init", "running", "failed", "stop_listener", "join_listener",
                "close_conns", "check", "asleep", "relock", "stopped"}
    /\ lpc \in {"none", "loop", "accept", "lock", "spawn", "add", "exited"}
    /\ lcur \in Clients \cup {None}
    /\ conns_mtx \in {"none", "listener", "main"}
    /\ current_conns \in SUBSET Clients
    /\ hpc \in [Clients -> {"none", "loop", "recv", "send", "shutdown", "remove", "exited"}]
    /\ is_connected \in [Clients -> BOOLEAN]
    /\ sock \in [Clients -> {"none", "open", "shut", "closed"}]
    /\ peer \in [Clients -> {"none", "open", "closed"}]
    /\ pending \in [Clients -> 0..MaxRequests]
    /\ sent \in [Clients -> 0..MaxRequests]

Init ==
    /\ is_stopped = FALSE
    /\ lsock = "none"
    /\ mpc = "init"
    /\ lpc = "none"
    /\ lcur = None
    /\ conns_mtx = "none"
    /\ current_conns = {}
    /\ hpc = [c \in Clients |-> "none"]
    /\ is_connected = [c \in Clients |-> FALSE]
    /\ sock = [c \in Clients |-> "none"]
    /\ peer = [c \in Clients |-> "none"]
    /\ pending = [c \in Clients |-> 0]
    /\ sent = [c \in Clients |-> 0]

-----------------------------------------------------------------------------
(* ClientConn *)

\* ClientConn::shutdown of the connections cs: nothing unless is_connected.
Shutdown(cs) ==
    /\ sock' = [c \in Clients |-> IF c \in cs /\ is_connected[c] THEN "shut" ELSE sock[c]]
    /\ is_connected' = [c \in Clients |-> IF c \in cs THEN FALSE ELSE is_connected[c]]

\* The destructor, run by the last owner: it closes only a connection that is
\* still connected.
Destroy(c) ==
    /\ sock' = [sock EXCEPT ![c] = IF is_connected[c] THEN "closed" ELSE @]
    /\ is_connected' = [is_connected EXCEPT ![c] = FALSE]

-----------------------------------------------------------------------------
(* start() and stop(), run by the main thread *)

\* open_listener_socket fails: start() returns -1 and the program exits.
StartFails ==
    /\ mpc = "init"
    /\ mpc' = "failed"
    /\ UNCHANGED <<is_stopped, lsock, listener, conns_mtx, current_conns, hpc, conns, clients>>

Start ==
    /\ mpc = "init"
    /\ is_stopped' = FALSE
    /\ lsock' = "open"
    /\ lpc' = "loop"
    /\ mpc' = "running"
    /\ UNCHANGED <<lcur, conns_mtx, current_conns, hpc, conns, clients>>

StopFlag ==
    /\ mpc = "running"
    /\ is_stopped' = TRUE
    /\ mpc' = "stop_listener"
    /\ UNCHANGED <<lsock, listener, conns_mtx, current_conns, hpc, conns, clients>>

\* shutdown(listener_fd): a blocked accept returns.
StopListener ==
    /\ mpc = "stop_listener"
    /\ lsock' = "shut"
    /\ mpc' = "join_listener"
    /\ UNCHANGED <<is_stopped, listener, conns_mtx, current_conns, hpc, conns, clients>>

\* client_listener.join().
MutantJoinForgotten ==
    /\ mpc = "join_listener"
    /\ mpc' = "close_conns"
    /\ UNCHANGED <<is_stopped, lsock, listener, conns_mtx, current_conns, hpc, conns, clients>>

JoinListener ==
    /\ mpc = "join_listener"
    /\ lpc = "exited"
    /\ mpc' = "close_conns"
    /\ UNCHANGED <<is_stopped, lsock, listener, conns_mtx, current_conns, hpc, conns, clients>>

\* Take conns_mtx and shut down every connection; conns_mtx is kept.
CloseConns ==
    /\ mpc = "close_conns"
    /\ conns_mtx = "none"
    /\ conns_mtx' = "main"
    /\ Shutdown(current_conns)
    /\ mpc' = "check"
    /\ UNCHANGED <<is_stopped, lsock, listener, current_conns, hpc, clients>>

\* conns_cv.wait tests its predicate: stop() returns, or waits. Both release
\* conns_mtx.
WaitCheck ==
    /\ mpc = "check"
    /\ conns_mtx' = "none"
    /\ mpc' = IF current_conns = {} THEN "stopped" ELSE "asleep"
    /\ UNCHANGED <<is_stopped, lsock, listener, current_conns, hpc, conns, clients>>

WaitRelock ==
    /\ mpc = "relock"
    /\ conns_mtx = "none"
    /\ conns_mtx' = "main"
    /\ mpc' = "check"
    /\ UNCHANGED <<is_stopped, lsock, listener, current_conns, hpc, conns, clients>>

\* The condition variable may let a waiter go without a notification.
SpuriousWake ==
    /\ mpc = "asleep"
    /\ mpc' = "relock"
    /\ UNCHANGED <<is_stopped, lsock, listener, conns_mtx, current_conns, hpc, conns, clients>>

-----------------------------------------------------------------------------
(* accept_clients_loop() *)

ListenerLoop ==
    /\ lpc = "loop"
    /\ lpc' = IF is_stopped THEN "exited" ELSE "accept"
    /\ UNCHANGED <<main, lcur, conns_mtx, current_conns, hpc, conns, clients>>

Accept(c) ==
    /\ lpc = "accept"
    /\ lsock = "open"
    /\ peer[c] # "none"
    /\ sock[c] = "none"
    /\ sock' = [sock EXCEPT ![c] = "open"]
    /\ is_connected' = [is_connected EXCEPT ![c] = TRUE]
    /\ lcur' = c
    /\ lpc' = "lock"
    /\ UNCHANGED <<main, conns_mtx, current_conns, hpc, clients>>

\* accept_client returns null: the listening socket is shut down, or accept or
\* getnameinfo failed for a reason of its own. The loop ends in either case.
AcceptFails ==
    /\ lpc = "accept"
    /\ lpc' = "exited"
    /\ UNCHANGED <<main, lcur, conns_mtx, current_conns, hpc, conns, clients>>

ListenerLock ==
    /\ lpc = "lock"
    /\ conns_mtx = "none"
    /\ conns_mtx' = "listener"
    /\ lpc' = "spawn"
    /\ UNCHANGED <<main, lcur, current_conns, hpc, conns, clients>>

\* The handler thread is created and detached; it may run at once.
MutantSpawnUnlocked ==
    /\ lpc = "spawn"
    /\ hpc' = [hpc EXCEPT ![lcur] = "loop"]
    /\ conns_mtx' = "none"
    /\ lpc' = "add"
    /\ UNCHANGED <<main, lcur, current_conns, conns, clients>>

ListenerSpawn ==
    /\ lpc = "spawn"
    /\ hpc' = [hpc EXCEPT ![lcur] = "loop"]
    /\ lpc' = "add"
    /\ UNCHANGED <<main, lcur, conns_mtx, current_conns, conns, clients>>

\* push_back, and the end of the iteration releases conns_mtx.
ListenerAdd ==
    /\ lpc = "add"
    /\ current_conns' = current_conns \cup {lcur}
    /\ conns_mtx' = "none"
    /\ lcur' = None
    /\ lpc' = "loop"
    /\ UNCHANGED <<main, hpc, conns, clients>>

-----------------------------------------------------------------------------
(* handle_client() *)

HandlerGoto(c, where) == hpc' = [hpc EXCEPT ![c] = where]

HandlerLoop(c) ==
    /\ hpc[c] = "loop"
    /\ HandlerGoto(c, IF ~is_stopped /\ is_connected[c] THEN "recv" ELSE "shutdown")
    /\ UNCHANGED <<main, listener, conns_mtx, current_conns, conns, clients>>

\* recv_request returns a request, also one that was received before the socket
\* was shut down.
MutantRecvUnsent(c) ==
    /\ hpc[c] = "recv"
    /\ pending' = [pending EXCEPT ![c] = @ - 1]
    /\ HandlerGoto(c, "send")
    /\ UNCHANGED <<main, listener, conns_mtx, current_conns, conns, peer, sent>>

HandlerRecv(c) ==
    /\ hpc[c] = "recv"
    /\ pending[c] > 0
    /\ pending' = [pending EXCEPT ![c] = @ - 1]
    /\ HandlerGoto(c, "send")
    /\ UNCHANGED <<main, listener, conns_mtx, current_conns, conns, peer, sent>>

\* recv_request returns nothing: either end is closed, or what the client sent
\* cannot be received or parsed.
HandlerRecvFails(c) ==
    /\ hpc[c] = "recv"
    /\ peer[c] = "closed" \/ sock[c] = "shut" \/ pending[c] > 0
    /\ HandlerGoto(c, "shutdown")
    /\ UNCHANGED <<main, listener, conns_mtx, current_conns, conns, clients>>

\* process_request answers; the answer is sent, or either end is closed.
HandlerSend(c) ==
    /\ hpc[c] = "send"
    /\ \/ sock[c] = "open" /\ HandlerGoto(c, "loop")
       \/ (peer[c] = "closed" \/ sock[c] = "shut") /\ HandlerGoto(c, "shutdown")
    /\ UNCHANGED <<main, listener, conns_mtx, current_conns, conns, clients>>

HandlerShutdown(c) ==
    /\ hpc[c] = "shutdown"
    /\ Shutdown({c})
    /\ HandlerGoto(c, "remove")
    /\ UNCHANGED <<main, listener, conns_mtx, current_conns, clients>>

\* Under conns_mtx: erase the connection if it is in the vector, notify if the
\* vector is empty. The thread ends and drops its reference to the
\* connection.
MutantRemoveSilently(c) ==
    /\ hpc[c] = "remove"
    /\ conns_mtx = "none"
    /\ current_conns' = current_conns \ {c}
    /\ HandlerGoto(c, "exited")
    /\ Destroy(c)
    /\ UNCHANGED <<main, listener, conns_mtx, clients>>

HandlerRemove(c) ==
    /\ hpc[c] = "remove"
    /\ conns_mtx = "none"
    /\ current_conns' = current_conns \ {c}
    /\ mpc' = IF current_conns' = {} /\ mpc = "asleep" THEN "relock" ELSE mpc
    /\ HandlerGoto(c, "exited")
    /\ Destroy(c)
    /\ UNCHANGED <<is_stopped, lsock, listener, conns_mtx, clients>>

-----------------------------------------------------------------------------
(* The clients, external *)

Connect(c) ==
    /\ peer[c] = "none"
    /\ lsock = "open"
    /\ peer' = [peer EXCEPT ![c] = "open"]
    /\ UNCHANGED <<main, listener, conns_mtx, current_conns, hpc, conns, pending, sent>>

Send(c) ==
    /\ peer[c] = "open"
    /\ sent[c] < MaxRequests
    /\ sent' = [sent EXCEPT ![c] = @ + 1]
    /\ pending' = [pending EXCEPT ![c] = @ + 1]
    /\ UNCHANGED <<main, listener, conns_mtx, current_conns, hpc, conns, peer>>

Hangup(c) ==
    /\ peer[c] = "open"
    /\ peer' = [peer EXCEPT ![c] = "closed"]
    /\ UNCHANGED <<main, listener, conns_mtx, current_conns, hpc, conns, pending, sent>>

-----------------------------------------------------------------------------
StopStep ==
    \/ StopListener \/ JoinListener \/ CloseConns \/ WaitCheck \/ WaitRelock

ListenerStep ==
    \/ ListenerLoop \/ (\E c \in Clients : Accept(c))
    \/ ListenerLock \/ ListenerSpawn \/ ListenerAdd

HandlerStep(c) ==
    \/ HandlerLoop(c) \/ HandlerRecv(c) \/ HandlerRecvFails(c) \/ HandlerSend(c)
    \/ HandlerShutdown(c) \/ HandlerRemove(c)

ClientStep(c) == Connect(c) \/ Send(c) \/ Hangup(c)

\* Once start() has failed the program exits.
Next ==
    /\ mpc # "failed"
    /\ \/ StartFails \/ Start \/ StopFlag \/ StopStep \/ SpuriousWake
       \/ ListenerStep \/ AcceptFails
       \/ \E c \in Clients : HandlerStep(c) \/ ClientStep(c)

Spec == Init /\ [][Next]_vars

(* Every thread that can run does run, and a shut down listening socket    *)
(* makes accept return. The steps that take conns_mtx are strongly fair:   *)
(* spurious wakeups of the main thread can take it again and again. The    *)
(* clients need do nothing.                                                *)
FairSpec ==
    /\ Spec
    /\ WF_vars(StopStep) /\ SF_vars(WaitRelock)
    /\ WF_vars(ListenerStep) /\ WF_vars(lsock = "shut" /\ AcceptFails)
    /\ \A c \in Clients : WF_vars(HandlerStep(c)) /\ SF_vars(HandlerRemove(c))

-----------------------------------------------------------------------------
(* Properties *)

\* The handler's branch "Connection should not already be removed"
\* (static_shardmaster.cpp:110-115) is never taken: whenever a handler may
\* enter its critical section, its connection is in current_conns, because the
\* listener spawned the handler and recorded the connection under conns_mtx.
RemovalFindsConnection ==
    \A c \in Clients :
        (hpc[c] = "remove" /\ conns_mtx = "none") => c \in current_conns

\* When stop() returns, and the shardmaster may be destroyed, no thread still
\* uses it: the listener has ended, every handler it spawned, although
\* detached, has left its critical section, and no connection is left open.
NoThreadOutlivesStop ==
    mpc = "stopped" =>
        /\ lpc = "exited"
        /\ \A c \in Clients : hpc[c] \in {"none", "exited"} /\ sock[c] # "open"

\* stop() returns, whatever the clients do: shutting down the connections makes
\* the handlers end, and the last of them wakes stop().
StopReturns == (mpc = "stop_listener") ~> (mpc = "stopped")
=============================================================================
