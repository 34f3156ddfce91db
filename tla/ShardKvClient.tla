---------------------------- MODULE ShardKvClient ----------------------------
(***************************************************************************)
(* The sharded client (client/shardkv_client.cpp): a call asks the         *)
(* shardmaster for the configuration, groups its keys by responsible       *)
(* server and makes one request per server (client/simple_client.cpp), in  *)
(* the order of the servers' addresses, until one fails.  Servers may run  *)
(* requests without the client ever hearing of it, even after it has       *)
(* given up: a server that stops shuts the connection of a request that a  *)
(* worker has just received and goes on to process.                        *)
(* A configuration may change at any moment: the shardmaster is external,  *)
(* for Join, Leave, Move and Query are not implemented in it.              *)
(*                                                                         *)
(* A value is a sequence of words, so that an Append that is executed      *)
(* twice, and a value of another key, can be told.                         *)
(***************************************************************************)
EXTENDS ClientCommands, FiniteSets

CONSTANTS Clients,
          Keys,
          Servers,   \* addresses, ordered as std::map orders strings
          ShardOf,   \* ShardOf[k]: the shard of to_upper(k)
          Configs,   \* sequences of [server, shards]
          Lines,     \* what users type: sequences of words
          MaxCalls,  \* bound on the number of calls
          Absent,    \* the value of a key that is not in a store
          NoServer

ASSUME ClientConstants ==
    /\ Servers \subseteq Nat /\ NoServer \notin Servers
    /\ \A cfg \in Configs : DOMAIN cfg \subseteq Nat
                            /\ \A i \in DOMAIN cfg : cfg[i].server \in Servers
    /\ MaxCalls \in Nat
    /\ \A l \in Lines : l \in Seq(STRING)

VARIABLES config,  \* the shardmaster's configuration
          past,    \* history: the configurations that have been in force
          store,   \* store[s][k]: the stores of the servers
          call,    \* the call of each client
          late,    \* requests a server still holds, of calls that have returned
          hits,    \* history: how often each key of the call was executed
          ncalls

vars == <<config, past, store, call, late, hits, ncalls>>

\* The calls that users can make.
Requests == {process_line(l) : l \in Lines} \ {Refused}

ASSUME KeysNamed == \A r \in Requests : \A i \in DOMAIN r.keys : r.keys[i] \in Keys

Kv == INSTANCE KvStore WITH
    Threads <- Clients, None <- NoServer, kv <- store, reply <- hits

-----------------------------------------------------------------------------
(* The responsible server: the first one with a shard containing the key.  *)

get_server(cfg, key) ==
    LET I == {i \in DOMAIN cfg : ShardOf[key] \in cfg[i].shards}
    IN IF I = {} THEN NoServer
       ELSE cfg[CHOOSE i \in I : \A j \in I : i <= j].server

-----------------------------------------------------------------------------
(* Messages: the type of a message names the variant that its body holds.  *)

serialize_request(r)    == [type |-> r.op, body |-> r]
deserialize_request(m)  == m.body
serialize_response(res) == [type |-> IF res.ok THEN res.op ELSE "Error", body |-> res]
deserialize_response(m) == [m.body EXCEPT !.ok = m.type # "Error", !.op = m.type]

\* A server is responsible for every key: the test is a stub.
responsible_for(s, keys) == TRUE

\* KvServer::process_request: the store's reply, or an error.
process_request(s, m) ==
    LET r == deserialize_request(m)
        reply == Kv!Reply(store[s], r)
    IN serialize_response([op |-> r.op, ok |-> responsible_for(s, r.keys) /\ reply.ok,
                           vals |-> reply.vals])

-----------------------------------------------------------------------------
(* A call.                                                                 *)

\* The call of a client: where it is, its number, its request, the server of
\* each of its keys, the servers still to ask, the values got so far, what it
\* has reported.
At(pc, id, req, owner, todo, got, res, vals) ==
    [pc |-> pc, id |-> id, req |-> req, owner |-> owner, todo |-> todo, got |-> got,
     res |-> res, vals |-> vals]

Nothing == [k \in {} |-> <<>>]

Return(c, res, vals) ==
    call' = [call EXCEPT ![c] =
                At("idle", call[c].id, call[c].req, call[c].owner, {}, Nothing, res, vals)]

\* The user types a line that names a call.
Invoke(c) ==
    /\ call[c].pc = "idle" /\ ncalls < MaxCalls
    /\ \E r \in Requests :
          /\ call' = [call EXCEPT ![c] =
                         At("query", ncalls + 1, r, <<>>, {}, Nothing, "none", <<>>)]
          /\ hits' = [hits EXCEPT ![c] = [i \in DOMAIN r.keys |-> 0]]
    /\ ncalls' = ncalls + 1
    /\ UNCHANGED <<config, past, store, late>>

\* The shardmaster does not answer.
QueryFails(c) ==
    /\ call[c].pc = "query"
    /\ Return(c, "fail", <<>>)
    /\ UNCHANGED <<config, past, store, late, hits, ncalls>>

\* The n-th of a set of positions.
Nth(S, n) == CHOOSE i \in S : Cardinality({j \in S : j < i}) = n - 1

\* Mutant: every server is sent all the keys.
MutantAllKeys(owner, s) == DOMAIN owner

\* The positions of the keys that server s is responsible for.
Positions(owner, s) == {i \in DOMAIN owner : owner[i] = s}

\* The part of request r for the keys at positions P, in their order.
SubRequest(r, P) ==
    [op |-> r.op, at |-> P,
     keys |-> [n \in 1..Cardinality(P) |-> r.keys[Nth(P, n)]],
     vals |-> IF r.vals = <<>> THEN <<>>
              ELSE [n \in 1..Cardinality(P) |-> r.vals[Nth(P, n)]]]

\* The request for server s: its keys, grouped by server.
Part(c, s) == SubRequest(call[c].req, Positions(call[c].owner, s))

\* With the configuration, every key gets its server; all must have one.
Query(c) ==
    /\ call[c].pc = "query"
    /\ LET r     == call[c].req
           owner == [i \in DOMAIN r.keys |-> get_server(config, r.keys[i])]
       IN IF \E i \in DOMAIN owner : owner[i] = NoServer
          THEN Return(c, "fail", <<>>)
          ELSE call' = [call EXCEPT ![c] =
                  At("request", call[c].id, r, owner, {owner[i] : i \in DOMAIN owner},
                     Nothing, "none", <<>>)]
    /\ UNCHANGED <<config, past, store, late, hits, ncalls>>

\* Mutant: the servers are taken in no particular order.
MutantGreatestFirst(c) == CHOOSE s \in call[c].todo : \A t \in call[c].todo : t <= s

NextServer(c) == CHOOSE s \in call[c].todo : \A t \in call[c].todo : s <= t

\* Request r, of a call whose execution is counted in h, reaches server s.
Execute(h, s, r) ==
    /\ store' = [store EXCEPT ![s] = Kv!Effect(@, r)]
    /\ hits' = IF ~Kv!Succeeds(store[s], r) THEN hits
               ELSE [hits EXCEPT ![h] =
                  [i \in DOMAIN @ |-> @[i] + (IF i \in r.at THEN 1 ELSE 0)]]

\* The values of an answer are kept with their keys.
Collect(got, keys, vals) ==
    [k \in DOMAIN got \cup {keys[n] : n \in DOMAIN vals} |->
        IF \E n \in DOMAIN vals : keys[n] = k
        THEN vals[CHOOSE n \in DOMAIN vals : keys[n] = k]
        ELSE got[k]]

\* One request of SimpleClient: connect, send, receive.  An answer of the
\* request's own type goes on; an error answer ends the call.
Request(c) ==
    /\ call[c].pc = "request" /\ call[c].todo # {}
    /\ LET s   == NextServer(c)
           r   == Part(c, s)
           res == deserialize_response(process_request(s, serialize_request(r)))
       IN /\ Execute(c, s, r)
          /\ IF res.op = r.op
             THEN call' = [call EXCEPT ![c] =
                    At("request", call[c].id, call[c].req, call[c].owner, call[c].todo \ {s},
                       Collect(call[c].got, r.keys, res.vals), "none", <<>>)]
             ELSE Return(c, "fail", <<>>)
    /\ UNCHANGED <<config, past, late, ncalls>>

\* Connecting or sending fails.
RequestFails(c) ==
    /\ call[c].pc = "request" /\ call[c].todo # {}
    /\ Return(c, "fail", <<>>)
    /\ UNCHANGED <<config, past, store, late, hits, ncalls>>

\* Mutant: a lost answer makes the client send the request again.
MutantResend(c) ==
    /\ call[c].pc = "request" /\ call[c].todo # {}
    /\ Execute(c, NextServer(c), Part(c, NextServer(c)))
    /\ UNCHANGED <<config, past, call, late, ncalls>>

\* The server has executed the request, and its answer does not arrive.
AnswerLost(c) ==
    /\ call[c].pc = "request" /\ call[c].todo # {}
    /\ Execute(c, NextServer(c), Part(c, NextServer(c)))
    /\ Return(c, "fail", <<>>)
    /\ UNCHANGED <<config, past, late, ncalls>>

\* The connection is shut while the server holds the request.
AnswerGivenUp(c) ==
    /\ call[c].pc = "request" /\ call[c].todo # {}
    /\ LET s == NextServer(c)
       IN late' = late \cup {[client |-> c, id |-> call[c].id, server |-> s,
                              req |-> Part(c, s)]}
    /\ Return(c, "fail", <<>>)
    /\ UNCHANGED <<config, past, store, hits, ncalls>>

\* The server processes a request whose client has given up.
LateExecute ==
    \E l \in late :
        /\ late' = late \ {l}
        /\ IF call[l.client].id = l.id
           THEN Execute(l.client, l.server, l.req)
           ELSE /\ store' = [store EXCEPT ![l.server] = Kv!Effect(@, l.req)]
                /\ UNCHANGED hits
        /\ UNCHANGED <<config, past, call, ncalls>>

\* Mutant: the values are returned in the order of the servers.
MutantServerOrder(c) ==
    LET r == call[c].req
        Rank(i) == Cardinality({j \in DOMAIN r.keys :
                       call[c].owner[j] < call[c].owner[i]
                       \/ (call[c].owner[j] = call[c].owner[i] /\ j < i)})
    IN [n \in DOMAIN r.keys |->
            call[c].got[r.keys[CHOOSE i \in DOMAIN r.keys : Rank(i) = n - 1]]]

\* The values of a read, in the order of the keys.
Answer(c) == [i \in DOMAIN call[c].req.keys |-> call[c].got[call[c].req.keys[i]]]

Finish(c) ==
    /\ call[c].pc = "request" /\ call[c].todo = {}
    /\ Return(c, "ok", IF Kv!Reads(call[c].req) THEN Answer(c) ELSE <<>>)
    /\ UNCHANGED <<config, past, store, late, hits, ncalls>>

\* A Join, Leave or Move reaches the shardmaster, which answers with another
\* configuration from then on; whether its client hears of it changes nothing.
Reconfigure ==
    /\ \E cfg \in Configs \ {config} : config' = cfg
    /\ past' = past \cup {config'}
    /\ UNCHANGED <<store, call, late, hits, ncalls>>

Init ==
    /\ config \in Configs
    /\ past = {config}
    /\ store = [s \in Servers |-> [k \in Keys |-> Absent]]
    /\ call = [c \in Clients |-> At("idle", 0, Refused, <<>>, {}, Nothing, "none", <<>>)]
    /\ late = {}
    /\ hits = [c \in Clients |-> <<>>]
    /\ ncalls = 0

Progress(c) ==
    \/ QueryFails(c) \/ Query(c) \/ Request(c) \/ RequestFails(c)
    \/ AnswerLost(c) \/ AnswerGivenUp(c) \/ Finish(c)

Next == (\E c \in Clients : Invoke(c) \/ Progress(c)) \/ LateExecute \/ Reconfigure

Spec == Init /\ [][Next]_vars

-----------------------------------------------------------------------------
(* Properties.                                                             *)

Values == Seq(Keys \cup {Blank})

\* Calls, stores and answers have the types of the client and store interfaces.
TypeOK ==
    /\ config \in Configs /\ past \subseteq Configs /\ ncalls \in 0..MaxCalls
    /\ \A s \in Servers, k \in Keys : store[s][k] = Absent \/ store[s][k] \in Values
    /\ \A c \in Clients :
          /\ call[c].pc \in {"idle", "query", "request"}
          /\ call[c].pc # "idle" => call[c].req \in Requests
          /\ call[c].todo \subseteq Servers
          /\ call[c].res \in {"none", "ok", "fail"}
          /\ \A i \in DOMAIN call[c].vals : call[c].vals[i] \in Values

\* No key of a call is ever executed twice; a call that reports success has
\* been executed for every one of its keys; a call that found a key without
\* a server has been executed for none.
ExecutedAsReported ==
    \A c \in Clients : \A i \in DOMAIN hits[c] :
        /\ hits[c][i] <= 1
        /\ call[c].res = "ok" => hits[c][i] = 1
        /\ call[c].owner = <<>> => hits[c][i] = 0

\* A call that stops half way (a MultiPut whose later server fails) has been
\* executed by a first part of the servers in address order, nowhere else.
PartialIsPrefix ==
    \A c \in Clients : call[c].owner # <<>> =>
        \A i, j \in DOMAIN hits[c] :
            hits[c][i] = 1 /\ call[c].owner[j] < call[c].owner[i] => hits[c][j] = 1

\* Users give every key its own name as value.
SelfNamed ==
    \A r \in Requests : \A i \in DOMAIN r.vals : r.vals[i] \in Seq({r.keys[i], Blank})

\* Where users give every key its own name as value: each server stores with
\* a key what was typed beside it, however a MultiPut was divided, and a
\* MultiGet puts the answers of several servers back in the order of its keys.
AnswersAligned ==
    /\ \A s \in Servers, k \in Keys : store[s][k] # Absent =>
           \A n \in DOMAIN store[s][k] : store[s][k][n] \in {k, Blank}
    /\ \A c \in Clients : \A i \in DOMAIN call[c].vals :
           \A n \in DOMAIN call[c].vals[i] : call[c].vals[i][n] \in {call[c].req.keys[i], Blank}

\* A server keeps a key only if a configuration that has been in force gave it
\* to that server, and all keys of a call go where one such configuration has
\* them: a configuration that changes between the query and the requests, or
\* before a server executes one, never mixes two configurations in a call.
OneHome ==
    /\ \A s \in Servers, k \in Keys :
           store[s][k] # Absent => \E cfg \in past : get_server(cfg, k) = s
    /\ \A c \in Clients : \E cfg \in past :
           \A i \in DOMAIN call[c].owner :
               call[c].owner[i] = get_server(cfg, call[c].req.keys[i])
=============================================================================
