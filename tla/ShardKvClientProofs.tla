------------------------ MODULE ShardKvClientProofs ------------------------
(***************************************************************************)
(* Proofs about ShardKvClient, for any clients, servers, configurations,   *)
(* typed lines and number of calls.                                        *)
(***************************************************************************)
EXTENDS ShardKvClient, FiniteSetTheorems, SequenceTheorems, WellFoundedInduction, TLAPS

-----------------------------------------------------------------------------
(* Sets of numbers.  Induction goes by the least counterexample.           *)

LEMMA LessWellFounded == IsWellFoundedOn({p \in Nat \X Nat : p[1] < p[2]}, Nat)
BY NatLessThanWellFounded DEF OpToRel

LEMMA Least ==
    ASSUME NEW S \in SUBSET Nat, S # {}
    PROVE  \E n \in S : \A m \in S : n <= m
<1>1. PICK n \in S : \A m \in S : <<m, n>> \notin {p \in Nat \X Nat : p[1] < p[2]}
  BY LessWellFounded, WFMin
<1>2. ASSUME NEW m \in S PROVE n <= m
  <2>1. m \in Nat /\ n \in Nat /\ <<m, n>> \in Nat \X Nat
    OBVIOUS
  <2>2. ~(m < n)
    BY <1>1, <2>1
  <2> QED BY <2>1, <2>2
<1> QED BY <1>2

\* The elements of S below i.
Below(S, i) == {j \in S : j < i}

LEMMA NthExists ==
    ASSUME NEW S \in SUBSET Nat, IsFiniteSet(S), NEW n \in 1..Cardinality(S)
    PROVE  \E i \in S : Cardinality(Below(S, i)) = n - 1
<1> DEFINE Bad == {m \in 1..Cardinality(S) : ~ \E i \in S : Cardinality(Below(S, i)) = m - 1}
<1>1. Cardinality(S) \in Nat
  BY FS_CardinalityType
<1>2. SUFFICES ASSUME Bad # {} PROVE FALSE
  OBVIOUS
<1>3. PICK m \in Bad : \A k \in Bad : m <= k
  <2>1. Bad \in SUBSET Nat
    BY <1>1
  <2> QED BY <1>2, <2>1, Least
<1>4. m \in 1..Cardinality(S) /\ ~ \E i \in S : Cardinality(Below(S, i)) = m - 1
  BY <1>3
<1>5. \A j \in S : j \in Nat
  OBVIOUS
<1>6. CASE m = 1
  <2>1. S # {}
    BY <1>1, <1>4, FS_EmptySet
  <2>2. PICK i \in S : \A j \in S : i <= j
    BY <2>1, Least
  <2>3. Below(S, i) = {}
    <3>1. ASSUME NEW j \in S PROVE ~(j < i)
      BY <2>2, <1>5
    <3> QED BY <3>1 DEF Below
  <2>4. Cardinality(Below(S, i)) = 0
    BY <2>3, FS_EmptySet
  <2> QED BY <1>4, <1>6, <2>4
<1>7. CASE m # 1
  <2>1. m - 1 \in 1..Cardinality(S) /\ m - 1 \notin Bad
    BY <1>1, <1>3, <1>4, <1>7
  <2>2. PICK i \in S : Cardinality(Below(S, i)) = (m - 1) - 1
    BY <2>1
  <2> DEFINE Low == Below(S, i) \cup {i}
             High == {j \in S : i < j}
  <2>3. IsFiniteSet(Below(S, i)) /\ i \notin Below(S, i)
    BY FS_Subset DEF Below
  <2>4. IsFiniteSet(Low) /\ Cardinality(Low) = m - 1
    <3>1. IsFiniteSet(Low) /\ Cardinality(Low) = Cardinality(Below(S, i)) + 1
      BY <2>3, FS_AddElement
    <3> QED BY <1>1, <1>4, <2>2, <3>1
  <2>5. High # {}
    <3>1. ASSUME High = {} PROVE FALSE
      <4>1. S = Low
        <5>1. ASSUME NEW j \in S PROVE j \in Low
          <6>1. j < i \/ j = i
            BY <1>5, <3>1
          <6> QED BY <6>1 DEF Below
        <5> QED BY <5>1 DEF Below
      <4>2. Cardinality(S) = m - 1
        BY <2>4, <4>1
      <4> QED BY <1>1, <1>4, <4>2
    <3> QED BY <3>1
  <2>6. PICK k \in High : \A j \in High : k <= j
    <3>1. High \in SUBSET Nat
      OBVIOUS
    <3> QED BY <2>5, <3>1, Least
  <2>7. Below(S, k) = Low
    <3>1. ASSUME NEW j \in S PROVE j < k <=> j < i \/ j = i
      <4>1. j \in Nat /\ i \in Nat /\ k \in Nat /\ i < k
        BY <1>5
      <4>2. i < j => k <= j
        BY <2>6
      <4> QED BY <4>1, <4>2
    <3> QED BY <3>1 DEF Below
  <2> QED BY <1>4, <2>4, <2>6, <2>7
<1> QED BY <1>6, <1>7

\* A position of a sub-request is one of the positions of its server.
LEMMA NthIn ==
    ASSUME NEW S \in SUBSET Nat, IsFiniteSet(S), NEW n \in 1..Cardinality(S)
    PROVE  Nth(S, n) \in S /\ Cardinality(Below(S, Nth(S, n))) = n - 1
<1>1. \E i \in S : Cardinality({j \in S : j < i}) = n - 1
  BY NthExists DEF Below
<1> QED BY <1>1 DEF Nth, Below

-----------------------------------------------------------------------------
(* What has been executed, of call k whose executions are h.               *)

\* Every key has its server.
Owned(k) ==
    /\ DOMAIN k.owner = DOMAIN k.req.keys
    /\ \A i \in DOMAIN k.owner : k.owner[i] \in Servers

\* While the call is under way, the servers still to ask come after the
\* others, and exactly the keys of those others have been executed.
UnderWay(k, h) ==
    /\ Owned(k)
    /\ k.todo \subseteq {k.owner[i] : i \in DOMAIN k.owner}
    /\ \A i, j \in DOMAIN k.owner :
          k.owner[i] \in k.todo /\ k.owner[i] < k.owner[j] => k.owner[j] \in k.todo
    /\ \A i \in DOMAIN h : h[i] = IF k.owner[i] \in k.todo THEN 0 ELSE 1

\* A first part of the servers has executed its keys, once.
Prefix(k, h) ==
    /\ Owned(k)
    /\ \A i \in DOMAIN h : h[i] \in {0, 1}
    /\ \A i, j \in DOMAIN h : h[i] = 1 /\ k.owner[j] < k.owner[i] => h[j] = 1

\* Nothing has been executed.
Untouched(k, h) == k.owner = <<>> /\ \A i \in DOMAIN h : h[i] = 0

CallOK(k, h) ==
    /\ k.id \in 0..ncalls /\ DOMAIN h = DOMAIN k.req.keys
    /\ k.pc \in {"idle", "query", "request"}
    /\ k.pc # "idle" => k.req \in Requests /\ k.res = "none"
    /\ k.pc = "query" => Untouched(k, h)
    /\ k.pc = "request" => UnderWay(k, h)
    /\ k.pc = "idle" => Untouched(k, h) \/ Prefix(k, h)
    /\ k.res = "ok" => \A i \in DOMAIN h : h[i] = 1

\* Of a call that was given up, a server holds the request for its keys, and
\* the servers before it, and no others, have executed theirs.
LateOK(l, k, h) ==
    /\ l.client \in Clients /\ l.server \in Servers /\ l.id \in 0..ncalls
    /\ k.id = l.id =>
          /\ k.pc = "idle" /\ k.res # "ok" /\ Owned(k)
          /\ l.req.at = Positions(k.owner, l.server)
          /\ \A i \in DOMAIN h : h[i] = IF k.owner[i] < l.server THEN 1 ELSE 0

LateOnce == \A l, m \in late : l.client = m.client /\ l.id = m.id => l = m

Executions ==
    /\ DOMAIN call = Clients /\ DOMAIN hits = Clients /\ ncalls \in Nat
    /\ \A c \in Clients : CallOK(call[c], hits[c])
    /\ \A l \in late : LateOK(l, call[l.client], hits[l.client])
    /\ LateOnce

-----------------------------------------------------------------------------
(* Where keys are kept.                                                    *)

\* Request r for server s names only keys that configuration cfg gives it.
HomedBy(cfg, r, s) ==
    /\ \A n \in DOMAIN r.keys : get_server(cfg, r.keys[n]) = s
    /\ r.op = "Append" => 1 \in DOMAIN r.keys

\* A configuration that has been in force gives them to it.
HomedAt(r, s) == \E cfg \in past : HomedBy(cfg, r, s)

Stores == DOMAIN store = Servers /\ \A s \in Servers : DOMAIN store[s] = Keys

KeysHomed ==
    \A s \in Servers, k \in Keys :
        store[s][k] # Absent => \E cfg \in past : get_server(cfg, k) = s

\* The servers of call k are those of configuration cfg.
OwnersBy(cfg, k) ==
    \A i \in DOMAIN k.owner : k.owner[i] = get_server(cfg, k.req.keys[i])

CallsHomed == \A c \in Clients : \E cfg \in past : OwnersBy(cfg, call[c])

Homes ==
    /\ config \in past /\ KeysHomed /\ CallsHomed
    /\ \A l \in late : HomedAt(l.req, l.server)

IInv == config \in Configs /\ Stores /\ Executions /\ Homes
-----------------------------------------------------------------------------
(* Requests.                                                               *)

LEMMA RequestShape ==
    ASSUME NEW r \in Requests
    PROVE  /\ r.op \in {"Get", "Put", "Append", "Delete", "MultiGet", "MultiPut"}
           /\ DOMAIN r.keys \in SUBSET Nat /\ IsFiniteSet(DOMAIN r.keys)
<1>1. PICK l \in Lines : r = process_line(l) /\ r # Refused
  BY DEF Requests
<1>2. l \in Seq(STRING) /\ l # <<>>
  BY <1>1, ClientConstants DEF process_line
<1>3. PICK t \in Seq(STRING) : t = Tail(l)
  <2>1. Tail(l) \in Seq(STRING)
    BY <1>2, HeadTailProperties
  <2> QED BY <2>1
<1>4. \/ r = GetCommand(t) \/ r = PutCommand(t) \/ r = AppendCommand(t)
      \/ r = DeleteCommand(t) \/ r = MultiGetCommand(t) \/ r = MultiPutCommand(t)
  BY <1>1, <1>2, <1>3 DEF process_line
<1>5. /\ r.op \in {"Get", "Put", "Append", "Delete", "MultiGet", "MultiPut"}
      /\ \E n \in Nat : DOMAIN r.keys = 1..n
  <2>1. CASE r = GetCommand(t)
    BY <1>1, <2>1 DEF GetCommand, Call
  <2>2. CASE r = PutCommand(t)
    <3>1. PICK v : r = [op |-> "Put", keys |-> <<t[1]>>, vals |-> v]
      BY <1>1, <2>2 DEF PutCommand, Call
    <3> QED BY <3>1
  <2>3. CASE r = AppendCommand(t)
    BY <1>1, <2>3 DEF AppendCommand, Call
  <2>4. CASE r = DeleteCommand(t)
    BY <1>1, <2>4 DEF DeleteCommand, Call
  <2>5. CASE r = MultiGetCommand(t)
    BY <1>1, <2>5 DEF MultiGetCommand, Call
  <2>6. CASE r = MultiPutCommand(t)
    BY <1>1, <2>6 DEF MultiPutCommand, Call
  <2> QED BY <1>4, <2>1, <2>2, <2>3, <2>4, <2>5, <2>6
<1>6. PICK n \in Nat : DOMAIN r.keys = 1..n
  BY <1>5
<1>7. IsFiniteSet(1..n)
  BY FS_Interval
<1> QED BY <1>5, <1>6, <1>7

\* std::map gives the least address first.
LEMMA NextLeast ==
    ASSUME NEW c \in Clients, call[c].todo \subseteq Servers, call[c].todo # {}
    PROVE  /\ NextServer(c) \in call[c].todo
           /\ \A t \in call[c].todo : NextServer(c) <= t
<1>1. call[c].todo \in SUBSET Nat
  BY ClientConstants
<1>2. \E s \in call[c].todo : \A t \in call[c].todo : s <= t
  BY <1>1, Least
<1> QED BY <1>2 DEF NextServer

-----------------------------------------------------------------------------
(* Executions of one call.                                                 *)

\* Every key at a position of P is executed once more.
Bump(h, P) == [i \in DOMAIN h |-> h[i] + (IF i \in P THEN 1 ELSE 0)]

LEMMA ExecuteCounts ==
    ASSUME DOMAIN hits = Clients, NEW c \in Clients, NEW s, NEW r, Execute(c, s, r)
    PROVE  /\ DOMAIN hits' = Clients
           /\ \A d \in Clients \ {c} : hits'[d] = hits[d]
           /\ \/ ~Kv!Succeeds(store[s], r) /\ hits'[c] = hits[c]
              \/ Kv!Succeeds(store[s], r) /\ hits'[c] = Bump(hits[c], r.at)
BY DEF Execute, Bump

\* The next server executes its keys: that server is done.
LEMMA ServerDone ==
    ASSUME NEW k, NEW h, NEW s, UnderWay(k, h), DOMAIN h = DOMAIN k.req.keys,
           s \in k.todo, \A t \in k.todo : s <= t
    PROVE  /\ DOMAIN Bump(h, Positions(k.owner, s)) = DOMAIN h
           /\ \A i \in DOMAIN h : Bump(h, Positions(k.owner, s))[i] =
                                     IF k.owner[i] \in k.todo \ {s} THEN 0 ELSE 1
           /\ \A i, j \in DOMAIN k.owner :
                 k.owner[i] \in k.todo \ {s} /\ k.owner[i] < k.owner[j]
                     => k.owner[j] \in k.todo \ {s}
<1>1. \A i \in DOMAIN k.owner : k.owner[i] \in Nat
  BY ClientConstants DEF UnderWay, Owned
<1>2. s \in Nat
  BY <1>1 DEF UnderWay
<1>3. DOMAIN Bump(h, Positions(k.owner, s)) = DOMAIN h
  BY DEF Bump
<1>4. ASSUME NEW i \in DOMAIN h
      PROVE  Bump(h, Positions(k.owner, s))[i] = IF k.owner[i] \in k.todo \ {s} THEN 0 ELSE 1
  <2>1. i \in Positions(k.owner, s) <=> k.owner[i] = s
    BY DEF UnderWay, Owned, Positions
  <2>2. h[i] = IF k.owner[i] \in k.todo THEN 0 ELSE 1
    BY DEF UnderWay
  <2>3. Bump(h, Positions(k.owner, s))[i] = h[i] + (IF i \in Positions(k.owner, s) THEN 1 ELSE 0)
    BY DEF Bump
  <2> QED BY <2>1, <2>2, <2>3
<1>5. ASSUME NEW i \in DOMAIN k.owner, NEW j \in DOMAIN k.owner,
             k.owner[i] \in k.todo \ {s}, k.owner[i] < k.owner[j]
      PROVE  k.owner[j] \in k.todo \ {s}
  <2>1. k.owner[j] \in k.todo
    BY <1>5 DEF UnderWay
  <2>2. s <= k.owner[i]
    BY <1>5
  <2> QED BY <1>1, <1>2, <1>5, <2>1, <2>2
<1> QED BY <1>3, <1>4, <1>5

\* A call that stops between two requests has been executed by a prefix.
LEMMA UnderWayIsPrefix ==
    ASSUME NEW k, NEW h, UnderWay(k, h), DOMAIN h = DOMAIN k.req.keys
    PROVE  Prefix(k, h)
<1>1. \A i \in DOMAIN h : h[i] \in {0, 1} /\ i \in DOMAIN k.owner
  BY DEF UnderWay, Owned
<1>2. ASSUME NEW i \in DOMAIN h, NEW j \in DOMAIN h, h[i] = 1, k.owner[j] < k.owner[i]
      PROVE  h[j] = 1
  <2>1. k.owner[i] \notin k.todo
    BY <1>2 DEF UnderWay
  <2>2. k.owner[j] \notin k.todo
    BY <1>1, <1>2, <2>1 DEF UnderWay
  <2> QED BY <2>2 DEF UnderWay
<1> QED BY <1>1, <1>2 DEF Prefix, UnderWay

\* So has one whose next server has executed its keys too.
LEMMA DoneIsPrefix ==
    ASSUME NEW k, NEW h, NEW s, UnderWay(k, h), DOMAIN h = DOMAIN k.req.keys,
           s \in k.todo, \A t \in k.todo : s <= t
    PROVE  Prefix(k, Bump(h, Positions(k.owner, s)))
<1>1. PICK g : g = Bump(h, Positions(k.owner, s))
  OBVIOUS
<1>2. /\ DOMAIN g = DOMAIN h
      /\ \A i \in DOMAIN g : g[i] = IF k.owner[i] \in k.todo \ {s} THEN 0 ELSE 1
      /\ \A i, j \in DOMAIN k.owner :
            k.owner[i] \in k.todo \ {s} /\ k.owner[i] < k.owner[j]
                => k.owner[j] \in k.todo \ {s}
  BY <1>1, ServerDone
<1>3. \A i \in DOMAIN h : i \in DOMAIN k.owner
  BY DEF UnderWay, Owned
<1>4. ASSUME NEW i \in DOMAIN g, NEW j \in DOMAIN g, g[i] = 1, k.owner[j] < k.owner[i]
      PROVE  g[j] = 1
  <2>1. k.owner[i] \notin k.todo \ {s}
    BY <1>2, <1>4
  <2>2. k.owner[j] \notin k.todo \ {s}
    BY <1>2, <1>3, <1>4, <2>1
  <2> QED BY <1>2, <2>2
<1> QED BY <1>1, <1>2, <1>4 DEF Prefix, UnderWay
-----------------------------------------------------------------------------
(* Each step keeps Executions.                                             *)

\* Only the call of c, and late requests of c, have changed.
Moves(c) ==
    /\ DOMAIN call' = Clients /\ DOMAIN hits' = Clients
    /\ \A d \in Clients \ {c} : call'[d] = call[d] /\ hits'[d] = hits[d]
    /\ \A l \in late' : l \in late \/ l.client = c
    /\ ncalls' \in Nat /\ ncalls <= ncalls'

LEMMA MovesKeeps ==
    ASSUME Executions, NEW c \in Clients, Moves(c), CallOK(call[c], hits[c])',
           \A l \in late' : l.client = c => LateOK(l, call[c], hits[c])',
           LateOnce'
    PROVE  Executions'
<1>1. ASSUME NEW d \in Clients PROVE CallOK(call[d], hits[d])'
  <2>1. CASE d = c
    BY <2>1
  <2>2. CASE d # c
    <3>1. call'[d] = call[d] /\ hits'[d] = hits[d] /\ CallOK(call[d], hits[d])
      BY <2>2 DEF Moves, Executions
    <3>2. ncalls \in Nat /\ ncalls' \in Nat /\ ncalls <= ncalls'
      BY DEF Moves, Executions
    <3>3. call[d].id \in 0..ncalls'
      BY <3>1, <3>2 DEF CallOK
    <3> QED BY <3>1, <3>3 DEF CallOK
  <2> QED BY <2>1, <2>2
<1>2. ASSUME NEW l \in late' PROVE LateOK(l, call[l.client], hits[l.client])'
  <2>1. CASE l.client = c
    BY <2>1
  <2>2. CASE l.client # c
    <3>1. l \in late /\ LateOK(l, call[l.client], hits[l.client])
      BY <2>2 DEF Moves, Executions
    <3>2. call'[l.client] = call[l.client] /\ hits'[l.client] = hits[l.client]
      BY <2>2, <3>1 DEF Moves, LateOK
    <3>3. ncalls \in Nat /\ ncalls' \in Nat /\ ncalls <= ncalls'
      BY DEF Moves, Executions
    <3>4. l.id \in 0..ncalls'
      BY <3>1, <3>3 DEF LateOK
    <3> QED BY <3>1, <3>2, <3>4 DEF LateOK
  <2> QED BY <2>1, <2>2
<1> QED BY <1>1, <1>2 DEF Executions, Moves

\* A server holds no request of a call that its client still waits for.
LEMMA NotLate ==
    ASSUME Executions, NEW c \in Clients, call[c].pc # "idle",
           NEW l \in late, l.client = c
    PROVE  l.id # call[c].id /\ l.id \in 0..ncalls /\ l.server \in Servers
BY DEF Executions, LateOK

LEMMA InvokeCounts ==
    ASSUME Executions, NEW c \in Clients, Invoke(c)
    PROVE  Executions'
<1>1. PICK r \in Requests :
        /\ call' = [call EXCEPT ![c] = At("query", ncalls + 1, r, <<>>, {}, Nothing, "none", <<>>)]
        /\ hits' = [hits EXCEPT ![c] = [i \in DOMAIN r.keys |-> 0]]
  BY DEF Invoke
<1>2. /\ DOMAIN call = Clients /\ DOMAIN hits = Clients /\ ncalls \in Nat
      /\ ncalls' = ncalls + 1 /\ late' = late
  BY DEF Executions, Invoke
<1>3. Moves(c)
  BY <1>1, <1>2 DEF Moves
<1>4. /\ call'[c] = At("query", ncalls + 1, r, <<>>, {}, Nothing, "none", <<>>)
      /\ hits'[c] = [i \in DOMAIN r.keys |-> 0]
  BY <1>1, <1>2
<1>5. CallOK(call[c], hits[c])'
  BY <1>2, <1>4 DEF CallOK, Untouched, At
<1>6. ASSUME NEW l \in late', l.client = c PROVE LateOK(l, call[c], hits[c])'
  <2>1. /\ l.client \in Clients /\ l.server \in Servers /\ l.id \in 0..ncalls
    BY <1>2 DEF Executions, LateOK
  <2> QED BY <1>2, <1>4, <2>1 DEF LateOK, At
<1> QED BY <1>2, <1>3, <1>5, <1>6, MovesKeeps DEF Executions, LateOnce

\* The call of c fails; its executions are g.
Ends(c, g) ==
    /\ \E vals : Return(c, "fail", vals)
    /\ DOMAIN hits' = Clients /\ hits'[c] = g
    /\ \A d \in Clients \ {c} : hits'[d] = hits[d]
    /\ UNCHANGED ncalls

LEMMA EndsShape ==
    ASSUME Executions, NEW c \in Clients, NEW g, Ends(c, g), call[c].pc # "idle",
           \A l \in late' : l \in late \/ l.client = c,
           DOMAIN g = DOMAIN hits[c], Untouched(call[c], g) \/ Prefix(call[c], g)
    PROVE  /\ Moves(c) /\ CallOK(call[c], hits[c])'
           /\ call'[c].pc = "idle" /\ call'[c].id = call[c].id /\ call'[c].req = call[c].req
           /\ call'[c].owner = call[c].owner /\ call'[c].res = "fail" /\ hits'[c] = g
<1>1. /\ DOMAIN call = Clients /\ ncalls \in Nat /\ CallOK(call[c], hits[c])
  BY DEF Executions
<1>2. PICK vals :
        call' = [call EXCEPT ![c] =
           At("idle", call[c].id, call[c].req, call[c].owner, {}, Nothing, "fail", vals)]
  BY DEF Ends, Return
<1>3. Moves(c)
  BY <1>1, <1>2 DEF Moves, Ends
<1>4. call'[c] = At("idle", call[c].id, call[c].req, call[c].owner, {}, Nothing, "fail", vals)
  BY <1>1, <1>2
<1>5. /\ call'[c].pc = "idle" /\ call'[c].id = call[c].id /\ call'[c].req = call[c].req
      /\ call'[c].owner = call[c].owner /\ call'[c].res = "fail" /\ hits'[c] = g
  BY <1>4 DEF At, Ends
<1>6. CallOK(call[c], hits[c])'
  BY <1>1, <1>5 DEF CallOK, Untouched, Prefix, Owned, Ends
<1> QED BY <1>3, <1>5, <1>6

\* Ending a call that has been executed by a prefix of its servers.
LEMMA EndsKeeps ==
    ASSUME Executions, NEW c \in Clients, NEW g, Ends(c, g), late' = late,
           call[c].pc # "idle", DOMAIN g = DOMAIN hits[c],
           Untouched(call[c], g) \/ Prefix(call[c], g)
    PROVE  Executions'
<1>1. /\ Moves(c) /\ CallOK(call[c], hits[c])' /\ call'[c].id = call[c].id
  BY EndsShape
<1>2. ASSUME NEW l \in late', l.client = c PROVE LateOK(l, call[c], hits[c])'
  <2>1. l.id # call[c].id /\ l.id \in 0..ncalls /\ l.server \in Servers
    BY <1>2, NotLate
  <2> QED BY <1>1, <1>2, <2>1 DEF LateOK, Ends
<1> QED BY <1>1, <1>2, MovesKeeps DEF Executions, LateOnce

\* What a call under way may be left with.
LEMMA MayStop ==
    ASSUME Executions, NEW c \in Clients, call[c].pc # "idle"
    PROVE  Untouched(call[c], hits[c]) \/ Prefix(call[c], hits[c])
<1>1. CallOK(call[c], hits[c])
  BY DEF Executions
<1>2. CASE call[c].pc = "query"
  BY <1>1, <1>2 DEF CallOK
<1>3. CASE call[c].pc = "request"
  BY <1>1, <1>3, UnderWayIsPrefix DEF CallOK
<1> QED BY <1>1, <1>2, <1>3 DEF CallOK

LEMMA FailCounts ==
    ASSUME Executions, NEW c \in Clients, call[c].pc # "idle", NEW vals,
           Return(c, "fail", vals), UNCHANGED <<late, hits, ncalls>>
    PROVE  Executions'
<1>1. Ends(c, hits[c])
  BY DEF Ends, Executions
<1> QED BY <1>1, MayStop, EndsKeeps
\* get_server finds a server of the configuration.
LEMMA GetServer ==
    ASSUME config \in Configs, NEW key, get_server(config, key) # NoServer
    PROVE  get_server(config, key) \in Servers
<1>1. PICK I : I = {i \in DOMAIN config : ShardOf[key] \in config[i].shards}
  OBVIOUS
<1>2. I # {} /\ get_server(config, key) = config[CHOOSE i \in I : \A j \in I : i <= j].server
  BY <1>1 DEF get_server
<1>3. I \in SUBSET Nat
  BY <1>1, ClientConstants
<1>4. \E i \in I : \A j \in I : i <= j
  BY <1>2, <1>3, Least
<1>5. PICK n : n = CHOOSE i \in I : \A j \in I : i <= j
  OBVIOUS
<1>6. n \in DOMAIN config
  BY <1>1, <1>4, <1>5
<1> QED BY <1>2, <1>5, <1>6, ClientConstants

LEMMA QueryCounts ==
    ASSUME Executions, config \in Configs, NEW c \in Clients, Query(c)
    PROVE  Executions'
<1>1. PICK r : r = call[c].req
  OBVIOUS
<1>2. PICK owner : owner = [i \in DOMAIN r.keys |-> get_server(config, r.keys[i])]
  OBVIOUS
<1>3. /\ call[c].pc = "query" /\ UNCHANGED <<late, hits, ncalls>>
      /\ IF \E i \in DOMAIN owner : owner[i] = NoServer
         THEN Return(c, "fail", <<>>)
         ELSE call' = [call EXCEPT ![c] =
                  At("request", call[c].id, r, owner, {owner[i] : i \in DOMAIN owner},
                     Nothing, "none", <<>>)]
  BY <1>1, <1>2 DEF Query
<1>4. CASE \E i \in DOMAIN owner : owner[i] = NoServer
  BY <1>3, <1>4, FailCounts
<1>5. CASE ~ \E i \in DOMAIN owner : owner[i] = NoServer
  <2>1. DOMAIN call = Clients /\ DOMAIN hits = Clients /\ ncalls \in Nat
        /\ CallOK(call[c], hits[c]) /\ LateOnce
    BY DEF Executions
  <2>2. /\ call' = [call EXCEPT ![c] =
                  At("request", call[c].id, r, owner, {owner[i] : i \in DOMAIN owner},
                     Nothing, "none", <<>>)]
        /\ call'[c] = At("request", call[c].id, r, owner, {owner[i] : i \in DOMAIN owner},
                         Nothing, "none", <<>>)
    BY <1>3, <1>5, <2>1
  <2>3. Moves(c)
    BY <1>3, <2>1, <2>2 DEF Moves
  <2>4. /\ call'[c].pc = "request" /\ call'[c].id = call[c].id /\ call'[c].req = r
        /\ call'[c].owner = owner /\ call'[c].todo = {owner[i] : i \in DOMAIN owner}
        /\ call'[c].res = "none"
    BY <2>2 DEF At
  <2>5. \A i \in DOMAIN owner : owner[i] \in Servers
    <3>1. ASSUME NEW i \in DOMAIN owner PROVE owner[i] \in Servers
      <4>1. owner[i] = get_server(config, r.keys[i]) /\ owner[i] # NoServer
        BY <1>2, <1>5
      <4> QED BY <4>1, GetServer
    <3> QED BY <3>1
  <2>6. UnderWay(call[c], hits[c])'
    <3>1. DOMAIN owner = DOMAIN r.keys /\ DOMAIN hits[c] = DOMAIN owner
          /\ \A i \in DOMAIN hits[c] : hits[c][i] = 0
      BY <1>1, <1>2, <1>3, <2>1 DEF CallOK, Untouched
    <3>2. \A i \in DOMAIN owner : owner[i] \in call'[c].todo
      BY <2>4
    <3>3. hits'[c] = hits[c]
      BY <1>3
    <3>4. Owned(call[c])'
      BY <2>4, <2>5, <3>1 DEF Owned
    <3>5. \A i \in DOMAIN hits'[c] :
             hits'[c][i] = IF call'[c].owner[i] \in call'[c].todo THEN 0 ELSE 1
      BY <2>4, <3>1, <3>2, <3>3
    <3> QED BY <2>4, <3>2, <3>4, <3>5 DEF UnderWay
  <2>7. CallOK(call[c], hits[c])'
    BY <1>1, <1>3, <2>1, <2>4, <2>6 DEF CallOK
  <2>8. ASSUME NEW l \in late', l.client = c PROVE LateOK(l, call[c], hits[c])'
    <3>1. l.id # call[c].id /\ l.id \in 0..ncalls /\ l.server \in Servers
      BY <1>3, <2>8, NotLate
    <3> QED BY <1>3, <2>4, <2>8, <3>1 DEF LateOK
  <2>9. LateOnce'
    BY <1>3, <2>1 DEF LateOnce
  <2> QED BY <2>3, <2>7, <2>8, <2>9, MovesKeeps
<1> QED BY <1>4, <1>5

\* A server answers with the type of the request if and only if it has
\* executed it.
LEMMA Answered ==
    ASSUME NEW s, NEW r, r.op # "Error"
    PROVE  LET res == deserialize_response(process_request(s, serialize_request(r)))
           IN res.op = r.op <=> Kv!Succeeds(store[s], r)
BY DEF deserialize_response, process_request, serialize_request, deserialize_request,
       serialize_response, responsible_for, Kv!Reply

\* What a call that is between two requests is about to do.
LEMMA Asking ==
    ASSUME Executions, NEW c \in Clients, call[c].pc = "request", call[c].todo # {}
    PROVE  /\ DOMAIN call = Clients /\ DOMAIN hits = Clients /\ ncalls \in Nat
           /\ CallOK(call[c], hits[c]) /\ UnderWay(call[c], hits[c])
           /\ DOMAIN hits[c] = DOMAIN call[c].req.keys
           /\ NextServer(c) \in call[c].todo /\ NextServer(c) \in Servers
           /\ \A t \in call[c].todo : NextServer(c) <= t
           /\ Part(c, NextServer(c)).at = Positions(call[c].owner, NextServer(c))
           /\ Part(c, NextServer(c)).op = call[c].req.op /\ call[c].req.op # "Error"
<1>1. CallOK(call[c], hits[c]) /\ UnderWay(call[c], hits[c])
  BY DEF Executions, CallOK
<1>2. call[c].todo \subseteq Servers
  BY <1>1 DEF UnderWay, Owned
<1>3. call[c].req.op # "Error"
  BY <1>1, RequestShape DEF CallOK
<1> QED BY <1>1, <1>2, <1>3, NextLeast DEF Executions, CallOK, Part, SubRequest

\* The next server is done, and the call goes on.
LEMMA AdvanceCounts ==
    ASSUME Executions, NEW c \in Clients, call[c].pc = "request", call[c].todo # {},
           NEW got, UNCHANGED <<late, ncalls>>,
           call' = [call EXCEPT ![c] =
              At("request", call[c].id, call[c].req, call[c].owner, call[c].todo \ {NextServer(c)},
                 got, "none", <<>>)],
           DOMAIN hits' = Clients, \A d \in Clients \ {c} : hits'[d] = hits[d],
           hits'[c] = Bump(hits[c], Positions(call[c].owner, NextServer(c)))
    PROVE  Executions'
<1>1. PICK s : s = NextServer(c)
  OBVIOUS
<1>2. /\ DOMAIN call = Clients /\ CallOK(call[c], hits[c]) /\ UnderWay(call[c], hits[c])
      /\ DOMAIN hits[c] = DOMAIN call[c].req.keys
      /\ s \in call[c].todo /\ \A t \in call[c].todo : s <= t
  BY <1>1, Asking
<1>3. call'[c] = At("request", call[c].id, call[c].req, call[c].owner, call[c].todo \ {s},
                    got, "none", <<>>)
  BY <1>1, <1>2
<1>4. Moves(c)
  BY <1>2 DEF Moves, Executions
<1>5. /\ call'[c].pc = "request" /\ call'[c].id = call[c].id /\ call'[c].req = call[c].req
      /\ call'[c].owner = call[c].owner /\ call'[c].todo = call[c].todo \ {s}
      /\ call'[c].res = "none"
  BY <1>3 DEF At
<1>6. /\ DOMAIN hits'[c] = DOMAIN hits[c]
      /\ \A i \in DOMAIN hits[c] :
            hits'[c][i] = IF call[c].owner[i] \in call[c].todo \ {s} THEN 0 ELSE 1
      /\ \A i, j \in DOMAIN call[c].owner :
            call[c].owner[i] \in call[c].todo \ {s} /\ call[c].owner[i] < call[c].owner[j]
                => call[c].owner[j] \in call[c].todo \ {s}
  BY <1>1, <1>2, ServerDone
<1>7. UnderWay(call[c], hits[c])'
  <2>1. Owned(call[c])'
    BY <1>2, <1>5 DEF UnderWay, Owned
  <2>2. call'[c].todo \subseteq {call'[c].owner[i] : i \in DOMAIN call'[c].owner}
    <3>1. PICK O : O = {call[c].owner[i] : i \in DOMAIN call[c].owner}
      OBVIOUS
    <3>2. call[c].todo \subseteq O
      BY <1>2, <3>1 DEF UnderWay
    <3>3. {call'[c].owner[i] : i \in DOMAIN call'[c].owner} = O
      BY <1>5, <3>1
    <3> QED BY <1>5, <3>2, <3>3
  <2>3. \A i \in DOMAIN hits'[c] :
           hits'[c][i] = IF call'[c].owner[i] \in call'[c].todo THEN 0 ELSE 1
    BY <1>5, <1>6
  <2>4. \A i, j \in DOMAIN call'[c].owner :
           call'[c].owner[i] \in call'[c].todo /\ call'[c].owner[i] < call'[c].owner[j]
               => call'[c].owner[j] \in call'[c].todo
    BY <1>5, <1>6
  <2> QED BY <2>1, <2>2, <2>3, <2>4 DEF UnderWay
<1>8. CallOK(call[c], hits[c])'
  BY <1>2, <1>5, <1>6, <1>7 DEF CallOK
<1>9. ASSUME NEW l \in late', l.client = c PROVE LateOK(l, call[c], hits[c])'
  <2>1. l.id # call[c].id /\ l.id \in 0..ncalls /\ l.server \in Servers
    BY <1>9, NotLate
  <2> QED BY <1>5, <1>9, <2>1 DEF LateOK
<1> QED BY <1>4, <1>8, <1>9, MovesKeeps DEF Executions, LateOnce

\* The next server has executed its keys, or not, and the call fails.
LEMMA AbandonCounts ==
    ASSUME Executions, NEW c \in Clients, call[c].pc = "request", call[c].todo # {},
           Return(c, "fail", <<>>), UNCHANGED <<late, ncalls>>,
           DOMAIN hits' = Clients, \A d \in Clients \ {c} : hits'[d] = hits[d],
           hits'[c] = hits[c] \/
               hits'[c] = Bump(hits[c], Positions(call[c].owner, NextServer(c)))
    PROVE  Executions'
<1>1. CASE hits'[c] = hits[c]
  <2>1. Ends(c, hits[c])
    BY <1>1 DEF Ends
  <2> QED BY <2>1, MayStop, EndsKeeps
<1>2. CASE hits'[c] = Bump(hits[c], Positions(call[c].owner, NextServer(c)))
  <2>1. PICK s : s = NextServer(c)
    OBVIOUS
  <2>2. PICK g : g = Bump(hits[c], Positions(call[c].owner, s))
    OBVIOUS
  <2>3. Ends(c, g)
    BY <1>2, <2>1, <2>2 DEF Ends
  <2>4. Prefix(call[c], g)
    <3>1. /\ UnderWay(call[c], hits[c]) /\ DOMAIN hits[c] = DOMAIN call[c].req.keys
          /\ s \in call[c].todo /\ \A t \in call[c].todo : s <= t
      BY <2>1, Asking
    <3> QED BY <2>2, <3>1, DoneIsPrefix
  <2>5. DOMAIN g = DOMAIN hits[c]
    BY <2>2 DEF Bump
  <2> QED BY <2>3, <2>4, <2>5, EndsKeeps
<1> QED BY <1>1, <1>2
LEMMA RequestCounts ==
    ASSUME Executions, NEW c \in Clients, Request(c)
    PROVE  Executions'
<1>1. PICK s : s = NextServer(c)
  OBVIOUS
<1>2. PICK r : r = Part(c, s)
  OBVIOUS
<1>3. PICK res : res = deserialize_response(process_request(s, serialize_request(r)))
  OBVIOUS
<1>4. /\ call[c].pc = "request" /\ call[c].todo # {} /\ UNCHANGED <<late, ncalls>>
      /\ Execute(c, s, r)
      /\ IF res.op = r.op
         THEN call' = [call EXCEPT ![c] =
                 At("request", call[c].id, call[c].req, call[c].owner, call[c].todo \ {s},
                    Collect(call[c].got, r.keys, res.vals), "none", <<>>)]
         ELSE Return(c, "fail", <<>>)
  BY <1>1, <1>2, <1>3 DEF Request
<1>5. r.at = Positions(call[c].owner, s) /\ r.op # "Error" /\ DOMAIN hits = Clients
  BY <1>1, <1>2, <1>4, Asking
<1>6. res.op = r.op <=> Kv!Succeeds(store[s], r)
  BY <1>3, <1>5, Answered
<1>7. /\ DOMAIN hits' = Clients /\ \A d \in Clients \ {c} : hits'[d] = hits[d]
      /\ \/ ~Kv!Succeeds(store[s], r) /\ hits'[c] = hits[c]
         \/ Kv!Succeeds(store[s], r) /\ hits'[c] = Bump(hits[c], Positions(call[c].owner, s))
  BY <1>4, <1>5, ExecuteCounts
<1>8. CASE res.op = r.op
  <2>1. PICK got : got = Collect(call[c].got, r.keys, res.vals)
    OBVIOUS
  <2> QED BY <1>1, <1>4, <1>6, <1>7, <1>8, <2>1, AdvanceCounts
<1>9. CASE res.op # r.op
  BY <1>1, <1>4, <1>6, <1>7, <1>9, AbandonCounts
<1> QED BY <1>8, <1>9

LEMMA AnswerLostCounts ==
    ASSUME Executions, NEW c \in Clients, AnswerLost(c)
    PROVE  Executions'
<1>1. PICK s : s = NextServer(c)
  OBVIOUS
<1>2. PICK r : r = Part(c, s)
  OBVIOUS
<1>3. /\ call[c].pc = "request" /\ call[c].todo # {} /\ UNCHANGED <<late, ncalls>>
      /\ Execute(c, s, r) /\ Return(c, "fail", <<>>)
  BY <1>1, <1>2 DEF AnswerLost
<1>4. r.at = Positions(call[c].owner, s) /\ DOMAIN hits = Clients
  BY <1>1, <1>2, <1>3, Asking
<1>5. /\ DOMAIN hits' = Clients /\ \A d \in Clients \ {c} : hits'[d] = hits[d]
      /\ hits'[c] = hits[c] \/ hits'[c] = Bump(hits[c], Positions(call[c].owner, s))
  BY <1>3, <1>4, ExecuteCounts
<1> QED BY <1>1, <1>3, <1>5, AbandonCounts

LEMMA GivenUpCounts ==
    ASSUME Executions, NEW c \in Clients, AnswerGivenUp(c)
    PROVE  Executions'
<1>1. PICK s : s = NextServer(c)
  OBVIOUS
<1>2. PICK new : new = [client |-> c, id |-> call[c].id, server |-> s, req |-> Part(c, s)]
  OBVIOUS
<1>3. /\ call[c].pc = "request" /\ call[c].todo # {} /\ UNCHANGED <<hits, ncalls>>
      /\ late' = late \cup {new} /\ Return(c, "fail", <<>>)
  BY <1>1, <1>2 DEF AnswerGivenUp
<1>4. /\ DOMAIN hits = Clients /\ UnderWay(call[c], hits[c])
      /\ DOMAIN hits[c] = DOMAIN call[c].req.keys /\ CallOK(call[c], hits[c])
      /\ s \in call[c].todo /\ s \in Servers /\ \A t \in call[c].todo : s <= t
      /\ Part(c, s).at = Positions(call[c].owner, s)
  BY <1>1, <1>3, Asking
<1>5. new.client = c /\ new.id = call[c].id /\ new.server = s /\ new.req = Part(c, s)
  BY <1>2
<1>6. Ends(c, hits[c])
  BY <1>3, <1>4 DEF Ends
<1>7. \A l \in late' : l \in late \/ l.client = c
  BY <1>3, <1>5
<1>8. /\ Moves(c) /\ CallOK(call[c], hits[c])'
      /\ call'[c].pc = "idle" /\ call'[c].id = call[c].id /\ call'[c].req = call[c].req
      /\ call'[c].owner = call[c].owner /\ call'[c].res = "fail" /\ hits'[c] = hits[c]
  BY <1>3, <1>6, <1>7, MayStop, EndsShape
<1>9. ASSUME NEW i \in DOMAIN hits[c]
      PROVE  hits[c][i] = IF call[c].owner[i] < s THEN 1 ELSE 0
  <2>1. i \in DOMAIN call[c].owner /\ call[c].owner[i] \in Nat /\ s \in Nat
    BY <1>4, ClientConstants DEF UnderWay, Owned
  <2>2. hits[c][i] = IF call[c].owner[i] \in call[c].todo THEN 0 ELSE 1
    BY <1>4 DEF UnderWay
  <2>3. PICK j \in DOMAIN call[c].owner : call[c].owner[j] = s
    BY <1>4 DEF UnderWay
  <2>4. s < call[c].owner[i] => call[c].owner[i] \in call[c].todo
    BY <1>4, <2>1, <2>3 DEF UnderWay
  <2>5. call[c].owner[i] \in call[c].todo => s <= call[c].owner[i]
    BY <1>4
  <2>6. call[c].owner[i] = s => call[c].owner[i] \in call[c].todo
    BY <1>4
  <2> QED BY <2>1, <2>2, <2>4, <2>5, <2>6
<1>10. LateOK(new, call[c], hits[c])'
  <2>1. Owned(call[c])'
    BY <1>4, <1>8 DEF UnderWay, Owned
  <2>2. new.id \in 0..ncalls'
    BY <1>3, <1>4, <1>5 DEF CallOK, Executions
  <2>3. new.req.at = Positions(call'[c].owner, s)
    BY <1>4, <1>5, <1>8
  <2> QED BY <1>4, <1>5, <1>8, <1>9, <2>1, <2>2, <2>3 DEF LateOK
<1>11. ASSUME NEW l \in late', l.client = c PROVE LateOK(l, call[c], hits[c])'
  <2>1. CASE l = new
    BY <1>10, <2>1
  <2>2. CASE l \in late
    <3>1. l.id # call[c].id /\ l.id \in 0..ncalls /\ l.server \in Servers
      BY <1>3, <1>11, <2>2, NotLate
    <3> QED BY <1>3, <1>8, <1>11, <3>1 DEF LateOK
  <2> QED BY <1>3, <2>1, <2>2
<1>12. LateOnce'
  <2>1. ASSUME NEW l \in late, l.client = c PROVE l.id # call[c].id
    BY <1>3, <2>1, NotLate
  <2>2. ASSUME NEW l \in late', NEW m \in late', l.client = m.client, l.id = m.id
        PROVE  l = m
    BY <1>3, <1>5, <2>1, <2>2 DEF Executions, LateOnce
  <2> QED BY <2>2 DEF LateOnce
<1> QED BY <1>8, <1>11, <1>12, MovesKeeps

LEMMA FinishCounts ==
    ASSUME Executions, NEW c \in Clients, Finish(c)
    PROVE  Executions'
<1>1. PICK vals : Return(c, "ok", vals)
  BY DEF Finish
<1>2. /\ call[c].pc = "request" /\ call[c].todo = {} /\ UNCHANGED <<late, hits, ncalls>>
      /\ DOMAIN call = Clients /\ DOMAIN hits = Clients /\ CallOK(call[c], hits[c])
  BY DEF Finish, Executions
<1>3. UnderWay(call[c], hits[c]) /\ Prefix(call[c], hits[c])
  BY <1>2, UnderWayIsPrefix DEF CallOK
<1>4. call'[c] = At("idle", call[c].id, call[c].req, call[c].owner, {}, Nothing, "ok", vals)
  BY <1>1, <1>2 DEF Return
<1>5. /\ call'[c].pc = "idle" /\ call'[c].id = call[c].id /\ call'[c].req = call[c].req
      /\ call'[c].owner = call[c].owner /\ call'[c].res = "ok" /\ hits'[c] = hits[c]
  BY <1>2, <1>4 DEF At
<1>6. Moves(c)
  BY <1>1, <1>2 DEF Moves, Return, Executions
<1>7. \A i \in DOMAIN hits[c] : hits[c][i] = 1
  BY <1>2, <1>3 DEF UnderWay
<1>8. CallOK(call[c], hits[c])'
  BY <1>2, <1>3, <1>5, <1>7 DEF CallOK, Prefix, Owned
<1>9. ASSUME NEW l \in late', l.client = c PROVE LateOK(l, call[c], hits[c])'
  <2>1. l.id # call[c].id /\ l.id \in 0..ncalls /\ l.server \in Servers
    BY <1>2, <1>9, NotLate
  <2> QED BY <1>2, <1>5, <1>9, <2>1 DEF LateOK
<1> QED BY <1>2, <1>6, <1>8, <1>9, MovesKeeps DEF Executions, LateOnce

\* A request of a call that has been given up is executed.
LEMMA LateCounts ==
    ASSUME Executions, LateExecute
    PROVE  Executions'
<1>1. PICK l \in late :
        /\ late' = late \ {l} /\ UNCHANGED <<call, ncalls>>
        /\ IF call[l.client].id = l.id
           THEN Execute(l.client, l.server, l.req)
           ELSE UNCHANGED hits
  BY DEF LateExecute
<1>2. PICK c \in Clients : c = l.client
  BY DEF Executions, LateOK
<1>3. /\ DOMAIN call = Clients /\ DOMAIN hits = Clients /\ ncalls \in Nat /\ LateOnce
      /\ CallOK(call[c], hits[c]) /\ LateOK(l, call[c], hits[c])
  BY <1>2 DEF Executions
<1>4. LateOnce'
  BY <1>1, <1>3 DEF LateOnce
<1>5. CASE hits' = hits
  <2>1. Moves(c)
    BY <1>1, <1>3, <1>5 DEF Moves
  <2>2. CallOK(call[c], hits[c])'
    BY <1>1, <1>3, <1>5 DEF CallOK
  <2>3. ASSUME NEW m \in late', m.client = c PROVE LateOK(m, call[c], hits[c])'
    BY <1>1, <1>5, <2>3 DEF Executions, LateOK
  <2> QED BY <1>4, <2>1, <2>2, <2>3, MovesKeeps
<1>6. CASE call[c].id = l.id /\ hits'[c] = Bump(hits[c], l.req.at)
           /\ DOMAIN hits' = Clients /\ \A d \in Clients \ {c} : hits'[d] = hits[d]
  <2>1. /\ call[c].pc = "idle" /\ call[c].res # "ok" /\ Owned(call[c]) /\ l.server \in Servers
        /\ l.req.at = Positions(call[c].owner, l.server)
        /\ \A i \in DOMAIN hits[c] : hits[c][i] = IF call[c].owner[i] < l.server THEN 1 ELSE 0
    BY <1>3, <1>6 DEF LateOK
  <2>2. PICK g : g = hits'[c]
    OBVIOUS
  <2>3. /\ DOMAIN g = DOMAIN hits[c] /\ DOMAIN g = DOMAIN call[c].req.keys
        /\ \A i \in DOMAIN g : g[i] = hits[c][i] + (IF i \in l.req.at THEN 1 ELSE 0)
    BY <1>3, <1>6, <2>2 DEF Bump, CallOK
  <2>4. ASSUME NEW i \in DOMAIN g
        PROVE  /\ i \in DOMAIN call[c].owner /\ call[c].owner[i] \in Nat /\ l.server \in Nat
               /\ g[i] = IF call[c].owner[i] <= l.server THEN 1 ELSE 0
    <3>1. i \in DOMAIN call[c].owner /\ call[c].owner[i] \in Nat /\ l.server \in Nat
      BY <2>1, <2>3, ClientConstants DEF Owned
    <3>2. i \in l.req.at <=> call[c].owner[i] = l.server
      BY <2>1, <3>1 DEF Positions
    <3>3. hits[c][i] = IF call[c].owner[i] < l.server THEN 1 ELSE 0
      BY <2>1, <2>3
    <3>4. g[i] = hits[c][i] + (IF i \in l.req.at THEN 1 ELSE 0)
      BY <2>3
    <3> QED BY <3>1, <3>2, <3>3, <3>4
  <2>5. Prefix(call[c], g)
    BY <2>1, <2>4 DEF Prefix
  <2>6. Moves(c)
    BY <1>1, <1>3, <1>6 DEF Moves
  <2>7. CallOK(call[c], hits[c])'
    BY <1>1, <1>3, <2>1, <2>2, <2>3, <2>5 DEF CallOK, Prefix, Owned
  <2>8. ASSUME NEW m \in late', m.client = c PROVE LateOK(m, call[c], hits[c])'
    <3>1. m \in late /\ m # l /\ LateOK(m, call[c], hits[c])
      BY <1>1, <2>8 DEF Executions
    <3>2. m.id # l.id
      BY <1>2, <1>3, <2>8, <3>1 DEF LateOnce
    <3> QED BY <1>1, <1>6, <3>1, <3>2 DEF LateOK
  <2> QED BY <1>4, <2>6, <2>7, <2>8, MovesKeeps
<1>7. CASE call[c].id = l.id
  <2>1. Execute(c, l.server, l.req)
    BY <1>1, <1>2, <1>7
  <2>2. CASE Kv!Succeeds(store[l.server], l.req)
    BY <1>3, <1>6, <1>7, <2>1, <2>2, ExecuteCounts
  <2>3. CASE ~Kv!Succeeds(store[l.server], l.req)
    BY <1>5, <2>1, <2>3 DEF Execute
  <2> QED BY <2>2, <2>3
<1> QED BY <1>1, <1>2, <1>5, <1>7
-----------------------------------------------------------------------------
(* Each step keeps Homes and Stores.                                       *)

LEMMA EffectDomain ==
    ASSUME NEW m, DOMAIN m = Keys, NEW r
    PROVE  DOMAIN Kv!Effect(m, r) = Keys
<1>1. CASE r.op = "Put" \/ (r.op = "MultiPut" /\ Kv!WellFormed(r))
  BY <1>1 DEF Kv!Effect, Kv!Assign
<1>2. CASE r.op = "Append"
  <2>1. PICK v : Kv!Effect(m, r) = [m EXCEPT ![r.keys[1]] = v]
    BY <1>2 DEF Kv!Effect
  <2> QED BY <2>1
<1>3. CASE r.op = "Delete"
  BY <1>3 DEF Kv!Effect
<1>4. CASE /\ r.op \notin {"Put", "Append", "Delete"}
           /\ ~(r.op = "MultiPut" /\ Kv!WellFormed(r))
  BY <1>4 DEF Kv!Effect
<1> QED BY <1>1, <1>2, <1>3, <1>4

\* A request writes no key but those it names.
LEMMA EffectHomes ==
    ASSUME NEW m, DOMAIN m = Keys, NEW r, NEW s, NEW cfg, HomedBy(cfg, r, s)
    PROVE  \A k \in Keys : Kv!Effect(m, r)[k] # Absent =>
               m[k] # Absent \/ get_server(cfg, k) = s
<1>1. CASE r.op = "Put" \/ (r.op = "MultiPut" /\ Kv!WellFormed(r))
  <2>1. Kv!Effect(m, r) = Kv!Assign(m, r.keys, r.vals)
    BY <1>1 DEF Kv!Effect
  <2>2. \A k \in Keys : (\E i \in DOMAIN r.keys : r.keys[i] = k) => get_server(cfg, k) = s
    BY DEF HomedBy
  <2> QED BY <2>1, <2>2 DEF Kv!Assign
<1>2. CASE r.op = "Append"
  <2>1. PICK v : Kv!Effect(m, r) = [m EXCEPT ![r.keys[1]] = v]
    BY <1>2 DEF Kv!Effect
  <2>2. get_server(cfg, r.keys[1]) = s
    BY <1>2 DEF HomedBy
  <2> QED BY <2>1, <2>2
<1>3. CASE r.op = "Delete"
  <2>1. Kv!Effect(m, r) = [m EXCEPT ![r.keys[1]] = Absent]
    BY <1>3 DEF Kv!Effect
  <2> QED BY <2>1
<1>4. CASE /\ r.op \notin {"Put", "Append", "Delete"}
           /\ ~(r.op = "MultiPut" /\ Kv!WellFormed(r))
  BY <1>4 DEF Kv!Effect
<1> QED BY <1>1, <1>2, <1>3, <1>4

\* The request that a server gets is for keys of its own.
LEMMA PartHomed ==
    ASSUME Executions, CallsHomed, NEW c \in Clients, call[c].pc = "request",
           NEW s \in call[c].todo
    PROVE  HomedAt(Part(c, s), s)
<1>1. PICK P : P = Positions(call[c].owner, s)
  OBVIOUS
<1>2. PICK r \in Requests : r = call[c].req
  BY DEF Executions, CallOK
<1>3. UnderWay(call[c], hits[c])
  BY DEF Executions, CallOK
<1>4. PICK cfg \in past : OwnersBy(cfg, call[c])
  BY DEF CallsHomed
<1>5. /\ P \subseteq DOMAIN r.keys /\ P # {}
      /\ \A i \in P : get_server(cfg, r.keys[i]) = s
  <2>1. PICK i \in DOMAIN call[c].owner : call[c].owner[i] = s
    BY <1>3 DEF UnderWay
  <2>2. i \in P
    BY <1>1, <2>1 DEF Positions
  <2> QED BY <1>1, <1>2, <1>3, <1>4, <2>2 DEF Positions, UnderWay, Owned, OwnersBy
<1>6. P \in SUBSET Nat /\ IsFiniteSet(P) /\ Cardinality(P) \in Nat /\ Cardinality(P) # 0
  <2>1. P \in SUBSET Nat /\ IsFiniteSet(P)
    BY <1>2, <1>5, RequestShape, FS_Subset
  <2> QED BY <1>5, <2>1, FS_CardinalityType, FS_EmptySet
<1>7. Part(c, s).keys = [n \in 1..Cardinality(P) |-> r.keys[Nth(P, n)]]
  BY <1>1, <1>2 DEF Part, SubRequest
<1>8. ASSUME NEW n \in 1..Cardinality(P) PROVE get_server(cfg, Part(c, s).keys[n]) = s
  <2>1. Nth(P, n) \in P
    BY <1>6, NthIn
  <2> QED BY <1>5, <1>7, <2>1
<1>9. 1 \in 1..Cardinality(P)
  BY <1>6
<1>10. HomedBy(cfg, Part(c, s), s)
  BY <1>7, <1>8, <1>9 DEF HomedBy
<1> QED BY <1>4, <1>10 DEF HomedAt

\* Steps of a call that leave configurations and stores alone.
LEMMA CallHomes ==
    ASSUME Homes, NEW c \in Clients, DOMAIN call = Clients, NEW k,
           call' = [call EXCEPT ![c] = k], UNCHANGED <<config, past, store>>,
           \E cfg \in past : OwnersBy(cfg, k),
           \A l \in late' : l \in late \/ HomedAt(l.req, l.server)
    PROVE  Homes'
<1>1. ASSUME NEW d \in Clients PROVE \E cfg \in past : OwnersBy(cfg, call'[d])
  <2>1. CASE d = c
    BY <2>1
  <2>2. CASE d # c
    BY <2>2 DEF Homes, CallsHomed
  <2> QED BY <2>1, <2>2
<1>2. CallsHomed'
  BY <1>1 DEF CallsHomed, OwnersBy
<1>3. ASSUME NEW l \in late' PROVE HomedAt(l.req, l.server)'
  <2>1. HomedAt(l.req, l.server)
    BY <1>3 DEF Homes
  <2> QED BY <2>1 DEF HomedAt, HomedBy
<1> QED BY <1>2, <1>3 DEF Homes, KeysHomed

\* A server executes a request for its own keys.
LEMMA ExecuteHomes ==
    ASSUME Stores, KeysHomed, NEW s \in Servers, NEW r, HomedAt(r, s),
           store' = [store EXCEPT ![s] = Kv!Effect(@, r)], past' = past
    PROVE  KeysHomed'
<1>1. PICK cfg \in past : HomedBy(cfg, r, s)
  BY DEF HomedAt
<1>2. /\ store'[s] = Kv!Effect(store[s], r) /\ \A t \in Servers \ {s} : store'[t] = store[t]
      /\ DOMAIN store[s] = Keys
  BY DEF Stores
<1>3. \A k \in Keys : store'[s][k] # Absent => store[s][k] # Absent \/ get_server(cfg, k) = s
  BY <1>1, <1>2, EffectHomes
<1> QED BY <1>1, <1>2, <1>3 DEF KeysHomed

\* Of a step that executes: the server and request, which are those of a call
\* under way or of a late request.
Executes(s, r) ==
    /\ store' = [store EXCEPT ![s] = Kv!Effect(@, r)]
    /\ UNCHANGED <<config, past>>
    /\ late' \subseteq late
    /\ \A c \in Clients :
          call'[c].owner = call[c].owner /\ call'[c].req = call[c].req

LEMMA ExecutesKeeps ==
    ASSUME Stores, Homes, NEW s \in Servers, NEW r, Executes(s, r), HomedAt(r, s)
    PROVE  Stores' /\ Homes'
<1>1. Stores'
  <2>1. ASSUME NEW t \in Servers PROVE DOMAIN store'[t] = Keys
    <3>1. CASE t = s
      BY <3>1, EffectDomain DEF Executes, Stores
    <3>2. CASE t # s
      BY <3>2 DEF Executes, Stores
    <3> QED BY <3>1, <3>2
  <2> QED BY <2>1 DEF Executes, Stores
<1>2. KeysHomed'
  BY ExecuteHomes DEF Executes, Homes
<1>3. CallsHomed'
  BY DEF Homes, CallsHomed, OwnersBy, Executes
<1>4. ASSUME NEW l \in late' PROVE HomedAt(l.req, l.server)'
  BY <1>4 DEF Homes, Executes, HomedAt, HomedBy
<1> QED BY <1>1, <1>2, <1>3, <1>4 DEF Homes, Executes

LEMMA ReturnHomes ==
    ASSUME IInv, NEW c \in Clients, NEW res, NEW vals, Return(c, res, vals),
           UNCHANGED <<config, past, store>>,
           \A l \in late' : l \in late \/ HomedAt(l.req, l.server)
    PROVE  Stores' /\ Homes'
<1>1. PICK k : k = At("idle", call[c].id, call[c].req, call[c].owner, {}, Nothing, res, vals)
  OBVIOUS
<1>2. k.owner = call[c].owner /\ k.req = call[c].req /\ call' = [call EXCEPT ![c] = k]
  BY <1>1 DEF At, Return
<1>3. \E cfg \in past : OwnersBy(cfg, k)
  BY <1>2 DEF IInv, Homes, CallsHomed, OwnersBy
<1> QED BY <1>2, <1>3, CallHomes DEF IInv, Executions, Stores

LEMMA InvokeHomes ==
    ASSUME IInv, NEW c \in Clients, Invoke(c)
    PROVE  Stores' /\ Homes'
<1>1. PICK r : call' = [call EXCEPT ![c] =
                  At("query", ncalls + 1, r, <<>>, {}, Nothing, "none", <<>>)]
  BY DEF Invoke
<1>2. PICK k : k = At("query", ncalls + 1, r, <<>>, {}, Nothing, "none", <<>>)
  OBVIOUS
<1>3. k.owner = <<>> /\ call' = [call EXCEPT ![c] = k]
  BY <1>1, <1>2 DEF At
<1>4. config \in past /\ OwnersBy(config, k)
  BY <1>3 DEF IInv, Homes, OwnersBy
<1> QED BY <1>3, <1>4, CallHomes DEF IInv, Executions, Stores, Invoke

LEMMA QueryHomes ==
    ASSUME IInv, NEW c \in Clients, Query(c)
    PROVE  Stores' /\ Homes'
<1>1. PICK r : r = call[c].req
  OBVIOUS
<1>2. PICK owner : owner = [i \in DOMAIN r.keys |-> get_server(config, r.keys[i])]
  OBVIOUS
<1>3. PICK k : k = At("request", call[c].id, r, owner, {owner[i] : i \in DOMAIN owner},
                      Nothing, "none", <<>>)
  OBVIOUS
<1>4. UNCHANGED <<config, past, store, late>>
  BY DEF Query
<1>5. Return(c, "fail", <<>>) \/ call' = [call EXCEPT ![c] = k]
  BY <1>1, <1>2, <1>3 DEF Query
<1>6. config \in past /\ OwnersBy(config, k)
  BY <1>2, <1>3 DEF At, OwnersBy, IInv, Homes
<1> QED BY <1>4, <1>5, <1>6, ReturnHomes, CallHomes DEF IInv, Executions, Stores

LEMMA RequestHomes ==
    ASSUME IInv, NEW c \in Clients, Request(c) \/ AnswerLost(c)
    PROVE  Stores' /\ Homes'
<1>1. PICK s : s = NextServer(c)
  OBVIOUS
<1>2. PICK r : r = Part(c, s)
  OBVIOUS
<1>3. /\ call[c].pc = "request" /\ call[c].todo # {} /\ UNCHANGED <<config, past, late>>
      /\ Execute(c, s, r)
  BY <1>1, <1>2 DEF Request, AnswerLost
<1>4. s \in call[c].todo /\ s \in Servers /\ DOMAIN call = Clients
  BY <1>1, <1>3, Asking DEF IInv
<1>5. \/ Return(c, "fail", <<>>)
      \/ \E todo, got :
            call' = [call EXCEPT ![c] = At("request", call[c].id, call[c].req, call[c].owner,
                                           todo, got, "none", <<>>)]
  BY DEF Request, AnswerLost
<1>6. ASSUME NEW d \in Clients
      PROVE  call'[d].owner = call[d].owner /\ call'[d].req = call[d].req
  <2>1. CASE d = c
    BY <1>4, <1>5, <2>1 DEF Return, At
  <2>2. CASE d # c
    BY <1>4, <1>5, <2>2 DEF Return
  <2> QED BY <2>1, <2>2
<1>7. Executes(s, r)
  BY <1>3, <1>6 DEF Executes, Execute
<1>8. HomedAt(r, s)
  BY <1>2, <1>3, <1>4, PartHomed DEF IInv, Homes
<1> QED BY <1>4, <1>7, <1>8, ExecutesKeeps DEF IInv

LEMMA LateHomes ==
    ASSUME IInv, LateExecute
    PROVE  Stores' /\ Homes'
<1>1. PICK l \in late :
        /\ late' = late \ {l} /\ UNCHANGED <<config, past, call>>
        /\ store' = [store EXCEPT ![l.server] = Kv!Effect(@, l.req)]
  BY DEF LateExecute, Execute
<1>2. l.server \in Servers
  BY DEF IInv, Executions, LateOK
<1>3. Executes(l.server, l.req)
  BY <1>1 DEF Executes
<1>4. HomedAt(l.req, l.server)
  BY DEF IInv, Homes
<1> QED BY <1>2, <1>3, <1>4, ExecutesKeeps DEF IInv

LEMMA GivenUpHomes ==
    ASSUME IInv, NEW c \in Clients, AnswerGivenUp(c)
    PROVE  Stores' /\ Homes'
<1>1. PICK s : s = NextServer(c)
  OBVIOUS
<1>2. PICK new : new = [client |-> c, id |-> call[c].id, server |-> s, req |-> Part(c, s)]
  OBVIOUS
<1>3. /\ call[c].pc = "request" /\ call[c].todo # {} /\ UNCHANGED <<config, past, store>>
      /\ late' = late \cup {new} /\ Return(c, "fail", <<>>)
  BY <1>1, <1>2 DEF AnswerGivenUp
<1>4. s \in call[c].todo /\ DOMAIN call = Clients
  BY <1>1, <1>3, Asking DEF IInv
<1>5. new.server = s /\ new.req = Part(c, s)
  BY <1>2
<1>6. HomedAt(new.req, new.server)
  BY <1>3, <1>4, <1>5, PartHomed DEF IInv, Homes
<1> QED BY <1>3, <1>6, ReturnHomes

-----------------------------------------------------------------------------
(* Invariance.                                                             *)

LEMMA InitIInv == Init => IInv
<1> SUFFICES ASSUME Init PROVE IInv
  OBVIOUS
<1>1. ASSUME NEW c \in Clients PROVE CallOK(call[c], hits[c])
  <2>1. call[c] = At("idle", 0, Refused, <<>>, {}, Nothing, "none", <<>>) /\ hits[c] = <<>>
        /\ ncalls = 0
    BY DEF Init
  <2> QED BY <2>1 DEF At, CallOK, Untouched, Refused
<1>2. Executions
  BY <1>1 DEF Init, Executions, LateOnce
<1>3. Stores /\ KeysHomed
  BY DEF Init, Stores, KeysHomed
<1>4. config \in past /\ CallsHomed
  BY DEF Init, At, CallsHomed, OwnersBy
<1> QED BY <1>2, <1>3, <1>4 DEF Init, IInv, Homes

LEMMA NextIInv == IInv /\ [Next]_vars => IInv'
<1> SUFFICES ASSUME IInv, [Next]_vars PROVE IInv'
  OBVIOUS
<1>1. Executions /\ config \in Configs
  BY DEF IInv
<1>2. ASSUME NEW c \in Clients, Invoke(c) PROVE IInv'
  BY <1>1, <1>2, InvokeCounts, InvokeHomes DEF IInv, Invoke
<1>3. ASSUME NEW c \in Clients, QueryFails(c) PROVE IInv'
  BY <1>1, <1>3, FailCounts, ReturnHomes DEF IInv, QueryFails
<1>4. ASSUME NEW c \in Clients, Query(c) PROVE IInv'
  BY <1>1, <1>4, QueryCounts, QueryHomes DEF IInv, Query
<1>5. ASSUME NEW c \in Clients, Request(c) PROVE IInv'
  BY <1>1, <1>5, RequestCounts, RequestHomes DEF IInv, Request
<1>6. ASSUME NEW c \in Clients, RequestFails(c) PROVE IInv'
  BY <1>1, <1>6, FailCounts, ReturnHomes DEF IInv, RequestFails
<1>7. ASSUME NEW c \in Clients, AnswerLost(c) PROVE IInv'
  BY <1>1, <1>7, AnswerLostCounts, RequestHomes DEF IInv, AnswerLost
<1>8. ASSUME NEW c \in Clients, AnswerGivenUp(c) PROVE IInv'
  BY <1>1, <1>8, GivenUpCounts, GivenUpHomes DEF IInv, AnswerGivenUp
<1>9. ASSUME NEW c \in Clients, Finish(c) PROVE IInv'
  <2>1. PICK vals : Return(c, "ok", vals)
    BY <1>9 DEF Finish
  <2> QED BY <1>1, <1>9, <2>1, FinishCounts, ReturnHomes DEF IInv, Finish
<1>10. ASSUME LateExecute PROVE IInv'
  <2>1. config' = config
    BY <1>10 DEF LateExecute
  <2> QED BY <1>1, <1>10, <2>1, LateCounts, LateHomes DEF IInv
<1>11. ASSUME Reconfigure PROVE IInv'
  <2>1. /\ config' \in Configs /\ past' = past \cup {config'}
        /\ UNCHANGED <<store, call, late, hits, ncalls>>
    BY <1>11 DEF Reconfigure
  <2>2. Stores' /\ Executions'
    BY <1>1, <2>1 DEF IInv, Stores, Executions, CallOK, Untouched, UnderWay, Prefix, Owned,
                      LateOK, LateOnce
  <2>3. KeysHomed' /\ CallsHomed'
    BY <2>1 DEF IInv, Homes, KeysHomed, CallsHomed, OwnersBy
  <2>4. \A l \in late' : HomedAt(l.req, l.server)'
    BY <2>1 DEF IInv, Homes, HomedAt, HomedBy
  <2> QED BY <2>1, <2>2, <2>3, <2>4 DEF IInv, Homes
<1>12. ASSUME UNCHANGED vars PROVE IInv'
  BY <1>12 DEF IInv, vars, Stores, Executions, CallOK, Untouched, UnderWay, Prefix, Owned,
               LateOK, LateOnce, Homes, KeysHomed, CallsHomed, OwnersBy, HomedAt, HomedBy
<1> QED BY <1>2, <1>3, <1>4, <1>5, <1>6, <1>7, <1>8, <1>9, <1>10, <1>11, <1>12
        DEF Next, Progress

LEMMA Invariance == Spec => []IInv
BY InitIInv, NextIInv, PTL DEF Spec

\* Whatever fails and whenever it is executed, a call is executed at most once
\* for each key, for all of them if it reports success, for none if it found
\* a key without a server.
THEOREM ReportsTrue == Spec => []ExecutedAsReported
<1>1. IInv => ExecutedAsReported
  <2> SUFFICES ASSUME IInv, NEW c \in Clients, NEW i \in DOMAIN hits[c]
               PROVE  /\ hits[c][i] <= 1
                      /\ call[c].res = "ok" => hits[c][i] = 1
                      /\ call[c].owner = <<>> => hits[c][i] = 0
    BY DEF ExecutedAsReported
  <2>1. CallOK(call[c], hits[c])
    BY DEF IInv, Executions
  <2>2. hits[c][i] \in {0, 1}
    BY <2>1 DEF CallOK, Untouched, UnderWay, Prefix
  <2>3. ASSUME call[c].owner = <<>> PROVE hits[c][i] = 0
    <3>1. CASE Untouched(call[c], hits[c])
      BY <3>1 DEF Untouched
    <3>2. CASE Owned(call[c])
      <4>1. DOMAIN call[c].owner = {}
        BY <2>3
      <4> QED BY <2>1, <3>2, <4>1 DEF CallOK, Owned
    <3> QED BY <2>1, <3>1, <3>2 DEF CallOK, UnderWay, Prefix
  <2> QED BY <2>1, <2>2, <2>3 DEF CallOK
<1> QED BY <1>1, Invariance, PTL

\* A call that stops half way, or is still going on, has been executed by a
\* first part of its servers, in the order of their addresses.
THEOREM PrefixExecuted == Spec => []PartialIsPrefix
<1>1. IInv => PartialIsPrefix
  <2> SUFFICES ASSUME IInv, NEW c \in Clients, call[c].owner # <<>>,
                      NEW i \in DOMAIN hits[c], NEW j \in DOMAIN hits[c],
                      hits[c][i] = 1, call[c].owner[j] < call[c].owner[i]
               PROVE  hits[c][j] = 1
    BY DEF PartialIsPrefix
  <2>1. CallOK(call[c], hits[c])
    BY DEF IInv, Executions
  <2>2. CASE Prefix(call[c], hits[c])
    BY <2>2 DEF Prefix
  <2>3. CASE Untouched(call[c], hits[c])
    BY <2>3 DEF Untouched
  <2> QED BY <2>1, <2>2, <2>3, UnderWayIsPrefix DEF CallOK
<1> QED BY <1>1, Invariance, PTL

\* Whenever the configuration changes, a key is kept only by servers that a
\* configuration in force gave it to, and a call follows one configuration.
THEOREM KeysAtHome == Spec => []OneHome
<1>1. IInv => OneHome
  BY DEF IInv, Homes, KeysHomed, CallsHomed, OwnersBy, OneHome
<1> QED BY <1>1, Invariance, PTL
-----------------------------------------------------------------------------
(* Keys and values stay together: AnswersAligned, of users who give every  *)
(* key its own name as value.                                              *)

Writes(r) == r.op \in {"Put", "Append", "MultiPut"}

\* Every value of a writing request names the key beside it.
Tagged(r) ==
    Writes(r) =>
        /\ DOMAIN r.keys \subseteq Nat /\ IsFiniteSet(DOMAIN r.keys)
        /\ 1 \in DOMAIN r.keys /\ DOMAIN r.vals = DOMAIN r.keys
        /\ \A i \in DOMAIN r.keys : r.vals[i] \in Seq({r.keys[i], Blank})

\* What a call has gathered names its keys, and is complete for the servers
\* that have answered.
Gathered(k) ==
    /\ \A key \in DOMAIN k.got : k.got[key] \in Seq({key, Blank})
    /\ Kv!Reads(k.req) => \A i \in DOMAIN k.owner :
          k.owner[i] \notin k.todo => k.req.keys[i] \in DOMAIN k.got

Reported(k) == \A i \in DOMAIN k.vals : k.vals[i] \in Seq({k.req.keys[i], Blank})

StoresTagged ==
    \A s \in Servers, k \in Keys : store[s][k] # Absent => store[s][k] \in Seq({k, Blank})

Aligned ==
    /\ StoresTagged
    /\ \A c \in Clients : /\ call[c].pc = "request" => Gathered(call[c])
                          /\ Reported(call[c])
    /\ \A l \in late : Tagged(l.req)

\* The positions before one of S are fewer than S.
LEMMA BelowSmaller ==
    ASSUME NEW S \in SUBSET Nat, IsFiniteSet(S), NEW i \in S
    PROVE  /\ IsFiniteSet(Below(S, i)) /\ Cardinality(Below(S, i)) \in Nat
           /\ Cardinality(S) \in Nat /\ Cardinality(Below(S, i)) < Cardinality(S)
<1>1. Below(S, i) \in SUBSET (S \ {i}) /\ IsFiniteSet(S \ {i}) /\ Cardinality(S) \in Nat
      /\ Cardinality(S \ {i}) = Cardinality(S) - 1
  <2>1. Below(S, i) \in SUBSET (S \ {i})
    <3>1. \A j \in S : j \in Nat
      OBVIOUS
    <3> QED BY <3>1 DEF Below
  <2> QED BY <2>1, FS_RemoveElement, FS_CardinalityType
<1>2. /\ IsFiniteSet(Below(S, i)) /\ Cardinality(Below(S, i)) \in Nat
      /\ Cardinality(Below(S, i)) <= Cardinality(S \ {i})
  BY <1>1, FS_Subset, FS_CardinalityType
<1> QED BY <1>1, <1>2

LEMMA BelowBelow ==
    ASSUME NEW S \in SUBSET Nat, NEW a \in S, NEW b \in S, a < b
    PROVE  Below(Below(S, b), a) = Below(S, a)
<1>1. ASSUME NEW j \in S, j < a PROVE j < b
  <2>1. j \in Nat /\ a \in Nat /\ b \in Nat
    OBVIOUS
  <2> QED BY <1>1, <2>1
<1> QED BY <1>1 DEF Below

\* Every position of a server is sent to it.
LEMMA NthOnto ==
    ASSUME NEW S \in SUBSET Nat, IsFiniteSet(S), NEW i \in S
    PROVE  \E n \in 1..Cardinality(S) : Nth(S, n) = i
<1>1. \A j \in S : j \in Nat
  OBVIOUS
<1>2. PICK n : n = Cardinality(Below(S, i)) + 1
  OBVIOUS
<1>3. n \in 1..Cardinality(S) /\ n - 1 = Cardinality(Below(S, i))
  BY <1>2, BelowSmaller
<1>4. PICK k : k = Nth(S, n)
  OBVIOUS
<1>5. k \in S /\ Cardinality(Below(S, k)) = Cardinality(Below(S, i))
  BY <1>3, <1>4, NthIn
<1>6. ASSUME NEW a \in S, NEW b \in S, a < b
      PROVE  Cardinality(Below(S, a)) < Cardinality(Below(S, b))
  <2>1. PICK T : T = Below(S, b)
    OBVIOUS
  <2>2. T \in SUBSET Nat /\ IsFiniteSet(T) /\ a \in T
    BY <1>1, <1>6, <2>1, BelowSmaller DEF Below
  <2>3. Below(T, a) = Below(S, a)
    BY <1>6, <2>1, BelowBelow
  <2> QED BY <2>1, <2>2, <2>3, BelowSmaller
<1>7. i \in Nat /\ k \in Nat /\ Cardinality(Below(S, i)) \in Nat
  BY <1>1, <1>5, BelowSmaller
<1>8. ~(i < k) /\ ~(k < i)
  BY <1>5, <1>6, <1>7
<1> QED BY <1>3, <1>4, <1>7, <1>8

LEMMA Greatest ==
    ASSUME NEW S \in SUBSET Nat, IsFiniteSet(S), S # {}
    PROVE  \E n \in S : \A m \in S : m <= n
<1>1. Cardinality(S) \in Nat /\ Cardinality(S) # 0
  BY FS_CardinalityType, FS_EmptySet
<1>2. Cardinality(S) \in 1..Cardinality(S)
  BY <1>1
<1>3. PICK n \in S : Cardinality(Below(S, n)) = Cardinality(S) - 1
  BY <1>2, NthExists
<1>4. ASSUME NEW m \in S, n < m PROVE FALSE
  <2>1. PICK T : T = Below(S, m)
    OBVIOUS
  <2>2. T \in SUBSET Nat /\ IsFiniteSet(T) /\ n \in T /\ Cardinality(T) < Cardinality(S)
        /\ Cardinality(T) \in Nat
    BY <1>4, <2>1, BelowSmaller DEF Below
  <2>3. Below(T, n) = Below(S, n)
    BY <1>4, <2>1, BelowBelow
  <2>4. Cardinality(Below(S, n)) < Cardinality(T) /\ Cardinality(Below(S, n)) \in Nat
    BY <2>2, <2>3, BelowSmaller
  <2> QED BY <1>1, <1>3, <2>2, <2>4
<1>5. ASSUME NEW m \in S PROVE m <= n
  <2>1. m \in Nat /\ n \in Nat
    OBVIOUS
  <2> QED BY <1>4, <2>1
<1> QED BY <1>5

\* What users type: a writing request has a value for every key.
LEMMA RequestTagged ==
    ASSUME SelfNamed, NEW r \in Requests
    PROVE  Tagged(r) /\ (Writes(r) => r.vals # <<>>)
<1>1. PICK l \in Lines : r = process_line(l) /\ r # Refused
  BY DEF Requests
<1>2. l \in Seq(STRING) /\ l # <<>>
  BY <1>1, ClientConstants DEF process_line
<1>3. PICK t \in Seq(STRING) : t = Tail(l)
  <2>1. Tail(l) \in Seq(STRING)
    BY <1>2, HeadTailProperties
  <2> QED BY <2>1
<1>4. \/ r = GetCommand(t) \/ r = PutCommand(t) \/ r = AppendCommand(t)
      \/ r = DeleteCommand(t) \/ r = MultiGetCommand(t) \/ r = MultiPutCommand(t)
  BY <1>1, <1>2, <1>3 DEF process_line
<1>5. Writes(r) => \E n \in Nat \ {0} : DOMAIN r.keys = 1..n /\ DOMAIN r.vals = 1..n
  <2>1. CASE r = GetCommand(t)
    BY <1>1, <2>1 DEF GetCommand, Call, Writes
  <2>2. CASE r = PutCommand(t)
    <3>1. PICK v : r = [op |-> "Put", keys |-> <<t[1]>>, vals |-> <<v>>]
      BY <1>1, <2>2 DEF PutCommand, Call
    <3> QED BY <3>1
  <2>3. CASE r = AppendCommand(t)
    BY <1>1, <2>3, SMTT(30) DEF AppendCommand, Call
  <2>4. CASE r = DeleteCommand(t)
    BY <1>1, <2>4 DEF DeleteCommand, Call, Writes
  <2>5. CASE r = MultiGetCommand(t)
    BY <1>1, <2>5 DEF MultiGetCommand, Call, Writes
  <2>6. CASE r = MultiPutCommand(t)
    <3>1. Len(t) \in Nat /\ ~(Len(t) < 2)
      BY <1>1, <2>6 DEF MultiPutCommand
    <3>2. Len(t) \div 2 \in Nat \ {0}
      BY <3>1
    <3>3. DOMAIN r.keys = 1..(Len(t) \div 2) /\ DOMAIN r.vals = 1..(Len(t) \div 2)
      BY <1>1, <2>6 DEF MultiPutCommand, Call
    <3> QED BY <3>2, <3>3
  <2> QED BY <1>4, <2>1, <2>2, <2>3, <2>4, <2>5, <2>6
<1>6. SUFFICES ASSUME Writes(r) PROVE Tagged(r) /\ r.vals # <<>>
  BY DEF Tagged
<1>7. PICK n \in Nat \ {0} : DOMAIN r.keys = 1..n /\ DOMAIN r.vals = 1..n
  BY <1>5, <1>6
<1>8. 1 \in DOMAIN r.keys /\ r.vals # <<>>
  BY <1>7
<1> QED BY <1>7, <1>8, RequestShape DEF Tagged, SelfNamed
\* A writing request leaves every value with a key that it names.
LEMMA EffectTagged ==
    ASSUME NEW m, DOMAIN m = Keys, NEW r, Tagged(r),
           \A k \in Keys : m[k] # Absent => m[k] \in Seq({k, Blank})
    PROVE  \A k \in Keys : Kv!Effect(m, r)[k] # Absent =>
               Kv!Effect(m, r)[k] \in Seq({k, Blank})
<1>1. CASE r.op = "Put" \/ (r.op = "MultiPut" /\ Kv!WellFormed(r))
  <2>1. Kv!Effect(m, r) = Kv!Assign(m, r.keys, r.vals)
    BY <1>1 DEF Kv!Effect
  <2>2. /\ DOMAIN r.keys \subseteq Nat /\ IsFiniteSet(DOMAIN r.keys)
        /\ \A i \in DOMAIN r.keys : r.vals[i] \in Seq({r.keys[i], Blank})
    BY <1>1 DEF Tagged, Writes
  <2>3. ASSUME NEW k \in Keys, NEW j \in DOMAIN r.keys, r.keys[j] = k
        PROVE  Kv!Assign(m, r.keys, r.vals)[k] \in Seq({k, Blank})
    <3>1. PICK I : I = {i \in DOMAIN r.keys : r.keys[i] = k}
      OBVIOUS
    <3>2. I \in SUBSET Nat /\ IsFiniteSet(I) /\ I # {}
      BY <2>2, <2>3, <3>1, FS_Subset
    <3>3. PICK g \in I : \A i \in I : i <= g
      BY <3>2, Greatest
    <3>4. PICK h : h = CHOOSE i \in DOMAIN r.keys :
                          r.keys[i] = k /\ \A n \in DOMAIN r.keys : r.keys[n] = k => n <= i
      OBVIOUS
    <3>5. \E i \in DOMAIN r.keys :
             r.keys[i] = k /\ \A n \in DOMAIN r.keys : r.keys[n] = k => n <= i
      BY <3>1, <3>3
    <3>6. h \in DOMAIN r.keys /\ r.keys[h] = k
      BY <3>4, <3>5
    <3>7. Kv!Assign(m, r.keys, r.vals)[k] = r.vals[h]
      BY <2>3, <3>4 DEF Kv!Assign
    <3> QED BY <2>2, <3>6, <3>7
  <2>4. ASSUME NEW k \in Keys, ~ \E j \in DOMAIN r.keys : r.keys[j] = k
        PROVE  Kv!Assign(m, r.keys, r.vals)[k] = m[k]
    BY <2>4 DEF Kv!Assign
  <2> QED BY <2>1, <2>3, <2>4
<1>2. CASE r.op = "Append"
  <2>1. PICK a : a = r.keys[1]
    OBVIOUS
  <2>2. PICK w : w = r.vals[1] /\ w \in Seq({a, Blank})
    BY <1>2, <2>1 DEF Tagged, Writes
  <2>3. PICK v : v = IF m[a] = Absent THEN w ELSE m[a] \o w
    OBVIOUS
  <2>4. Kv!Effect(m, r) = [m EXCEPT ![a] = v]
    BY <1>2, <2>1, <2>2, <2>3 DEF Kv!Effect
  <2>5. ASSUME a \in Keys PROVE v \in Seq({a, Blank})
    <3>1. CASE m[a] = Absent
      BY <2>2, <2>3, <3>1
    <3>2. CASE m[a] # Absent
      <4>1. m[a] \in Seq({a, Blank})
        BY <2>5, <3>2
      <4>2. m[a] \o w \in Seq({a, Blank})
        BY <2>2, <4>1, ConcatProperties
      <4> QED BY <2>3, <3>2, <4>2
    <3> QED BY <3>1, <3>2
  <2> QED BY <2>4, <2>5
<1>3. CASE r.op = "Delete"
  <2>1. Kv!Effect(m, r) = [m EXCEPT ![r.keys[1]] = Absent]
    BY <1>3 DEF Kv!Effect
  <2> QED BY <2>1
<1>4. CASE /\ r.op \notin {"Put", "Append", "Delete"}
           /\ ~(r.op = "MultiPut" /\ Kv!WellFormed(r))
  BY <1>4 DEF Kv!Effect
<1> QED BY <1>1, <1>2, <1>3, <1>4

LEMMA ExecuteTagged ==
    ASSUME Stores, StoresTagged, NEW s \in Servers, NEW r, Tagged(r),
           store' = [store EXCEPT ![s] = Kv!Effect(@, r)]
    PROVE  StoresTagged'
<1>1. /\ store'[s] = Kv!Effect(store[s], r) /\ \A t \in Servers \ {s} : store'[t] = store[t]
      /\ DOMAIN store[s] = Keys
  BY DEF Stores
<1>2. \A k \in Keys : store'[s][k] # Absent => store'[s][k] \in Seq({k, Blank})
  BY <1>1, EffectTagged DEF StoresTagged
<1> QED BY <1>1, <1>2 DEF StoresTagged

\* The positions of a server's keys.
LEMMA PartShape ==
    ASSUME Executions, NEW c \in Clients, call[c].pc = "request", NEW s \in call[c].todo
    PROVE  LET P == Positions(call[c].owner, s)
           IN /\ P \in SUBSET Nat /\ IsFiniteSet(P) /\ P # {}
              /\ P \subseteq DOMAIN call[c].req.keys
              /\ Cardinality(P) \in Nat /\ 1 \in 1..Cardinality(P)
<1>1. PICK P : P = Positions(call[c].owner, s)
  OBVIOUS
<1>2. UnderWay(call[c], hits[c]) /\ call[c].req \in Requests
  BY DEF Executions, CallOK
<1>3. P \subseteq DOMAIN call[c].req.keys /\ P # {}
  <2>1. PICK i \in DOMAIN call[c].owner : call[c].owner[i] = s
    BY <1>2 DEF UnderWay
  <2> QED BY <1>1, <1>2, <2>1 DEF Positions, UnderWay, Owned
<1>4. P \in SUBSET Nat /\ IsFiniteSet(P)
  BY <1>2, <1>3, RequestShape, FS_Subset
<1>5. Cardinality(P) \in Nat /\ Cardinality(P) # 0
  BY <1>3, <1>4, FS_CardinalityType, FS_EmptySet
<1> QED BY <1>1, <1>3, <1>4, <1>5

\* Keys and values are divided alike.
LEMMA PartTagged ==
    ASSUME SelfNamed, Executions, NEW c \in Clients, call[c].pc = "request",
           NEW s \in call[c].todo
    PROVE  Tagged(Part(c, s))
<1>1. PICK P : P = Positions(call[c].owner, s)
  OBVIOUS
<1>2. /\ P \in SUBSET Nat /\ IsFiniteSet(P) /\ P \subseteq DOMAIN call[c].req.keys
      /\ Cardinality(P) \in Nat /\ 1 \in 1..Cardinality(P)
  BY <1>1, PartShape
<1>3. PICK r \in Requests : r = call[c].req
  BY DEF Executions, CallOK
<1>4. PICK p : p = Part(c, s)
  OBVIOUS
<1>5. /\ p.op = r.op /\ p.keys = [n \in 1..Cardinality(P) |-> r.keys[Nth(P, n)]]
      /\ p.vals = IF r.vals = <<>> THEN <<>> ELSE [n \in 1..Cardinality(P) |-> r.vals[Nth(P, n)]]
  BY <1>1, <1>3, <1>4 DEF Part, SubRequest
<1>6. SUFFICES ASSUME Writes(p) PROVE Tagged(p)
  BY <1>4 DEF Tagged
<1>7. Writes(r) /\ Tagged(r) /\ r.vals # <<>>
  BY <1>5, <1>6, RequestTagged DEF Writes
<1>8. p.vals = [n \in 1..Cardinality(P) |-> r.vals[Nth(P, n)]]
  BY <1>5, <1>7
<1>9. ASSUME NEW n \in 1..Cardinality(P)
      PROVE  p.vals[n] \in Seq({p.keys[n], Blank})
  <2>1. Nth(P, n) \in DOMAIN r.keys
    BY <1>2, <1>3, NthIn
  <2>2. r.vals[Nth(P, n)] \in Seq({r.keys[Nth(P, n)], Blank})
    BY <1>7, <2>1 DEF Tagged
  <2> QED BY <1>5, <1>8, <2>2
<1>10. DOMAIN p.keys = 1..Cardinality(P) /\ DOMAIN p.vals = 1..Cardinality(P)
       /\ IsFiniteSet(1..Cardinality(P)) /\ 1..Cardinality(P) \subseteq Nat
  BY <1>2, <1>5, <1>8, FS_Interval
<1> QED BY <1>2, <1>9, <1>10 DEF Tagged
\* An answer has the value of each key that was asked for, from the store.
LEMMA AnswerVals ==
    ASSUME NEW s, NEW r, r.op # "Error", Kv!Succeeds(store[s], r)
    PROVE  deserialize_response(process_request(s, serialize_request(r))).vals =
             IF Kv!Reads(r) THEN [i \in DOMAIN r.keys |-> store[s][r.keys[i]]] ELSE <<>>
BY DEF deserialize_response, process_request, serialize_request, deserialize_request,
       serialize_response, responsible_for, Kv!Reply

\* The next server has answered.
LEMMA CollectGathers ==
    ASSUME Executions, StoresTagged, NEW c \in Clients, call[c].pc = "request",
           call[c].todo # {}, Gathered(call[c]), NEW s, s = NextServer(c),
           NEW r, r = Part(c, s), NEW k, Kv!Succeeds(store[s], r), NEW vals,
           vals = IF Kv!Reads(r) THEN [i \in DOMAIN r.keys |-> store[s][r.keys[i]]] ELSE <<>>,
           k.req = call[c].req, k.owner = call[c].owner, k.todo = call[c].todo \ {s},
           k.got = Collect(call[c].got, r.keys, vals)
    PROVE  Gathered(k)
<1>1. s \in call[c].todo /\ s \in Servers /\ r.op = call[c].req.op
  BY Asking
<1>2. PICK P : P = Positions(call[c].owner, s)
  OBVIOUS
<1>3. /\ P \in SUBSET Nat /\ IsFiniteSet(P) /\ P \subseteq DOMAIN call[c].req.keys
  BY <1>1, <1>2, PartShape
<1>4. r.keys = [n \in 1..Cardinality(P) |-> call[c].req.keys[Nth(P, n)]]
  BY <1>2 DEF Part, SubRequest
<1>5. call[c].req \in Requests
  BY DEF Executions, CallOK
<1>6. \A n \in DOMAIN r.keys : r.keys[n] \in Keys
  <2>1. ASSUME NEW n \in 1..Cardinality(P) PROVE r.keys[n] \in Keys
    <3>1. Nth(P, n) \in DOMAIN call[c].req.keys
      BY <1>3, NthIn
    <3> QED BY <1>4, <1>5, <3>1, KeysNamed
  <2> QED BY <1>4, <2>1
<1>7. CASE ~Kv!Reads(r)
  <2>1. vals = <<>> /\ DOMAIN vals = {}
    BY <1>7
  <2>2. k.got = [key \in DOMAIN call[c].got |-> call[c].got[key]]
    BY <2>1, SMTT(30) DEF Collect
  <2>3. ~Kv!Reads(k.req)
    BY <1>1, <1>7 DEF Kv!Reads
  <2> QED BY <2>2, <2>3 DEF Gathered
<1>8. CASE Kv!Reads(r)
  <2>1. vals = [i \in DOMAIN r.keys |-> store[s][r.keys[i]]]
    BY <1>8
  <2>2. \A i \in DOMAIN r.keys : vals[i] = store[s][r.keys[i]] /\ store[s][r.keys[i]] # Absent
    BY <1>8, <2>1 DEF Kv!Succeeds
  <2>3. DOMAIN k.got = DOMAIN call[c].got \cup {r.keys[n] : n \in DOMAIN vals}
    BY DEF Collect
  <2>4. ASSUME NEW key \in DOMAIN k.got PROVE k.got[key] \in Seq({key, Blank})
    <3>1. CASE \E n \in DOMAIN vals : r.keys[n] = key
      <4>1. PICK n : n = CHOOSE m \in DOMAIN vals : r.keys[m] = key
        OBVIOUS
      <4>2. n \in DOMAIN vals /\ r.keys[n] = key
        BY <3>1, <4>1
      <4>3. k.got[key] = vals[n]
        BY <2>4, <2>3, <3>1, <4>1, SMTT(30) DEF Collect
      <4>4. k.got[key] = store[s][key] /\ store[s][key] # Absent /\ key \in Keys
        BY <1>6, <2>1, <2>2, <4>2, <4>3
      <4> QED BY <1>1, <4>4 DEF StoresTagged
    <3>2. CASE ~ \E n \in DOMAIN vals : r.keys[n] = key
      <4>1. key \in DOMAIN call[c].got /\ k.got[key] = call[c].got[key]
        BY <2>3, <2>4, <3>2, SMTT(30) DEF Collect
      <4> QED BY <4>1 DEF Gathered
    <3> QED BY <3>1, <3>2
  <2>5. ASSUME NEW i \in DOMAIN k.owner, k.owner[i] \notin k.todo
        PROVE  k.req.keys[i] \in DOMAIN k.got
    <3>1. CASE k.owner[i] = s
      <4>1. i \in P
        BY <1>2, <2>5, <3>1 DEF Positions
      <4>2. PICK n \in 1..Cardinality(P) : Nth(P, n) = i
        BY <1>3, <4>1, NthOnto
      <4>3. r.keys[n] = k.req.keys[i] /\ n \in DOMAIN vals
        <5>1. r.keys[n] = call[c].req.keys[Nth(P, n)] /\ DOMAIN r.keys = 1..Cardinality(P)
          BY <1>4
        <5>2. DOMAIN vals = DOMAIN r.keys
          BY <2>1
        <5> QED BY <4>2, <5>1, <5>2
      <4> QED BY <2>3, <4>3
    <3>2. CASE k.owner[i] # s
      <4>1. k.owner[i] \notin call[c].todo
        BY <2>5, <3>2
      <4>2. Kv!Reads(call[c].req)
        BY <1>1, <1>8 DEF Kv!Reads
      <4> QED BY <2>3, <2>5, <4>1, <4>2 DEF Gathered
    <3> QED BY <3>1, <3>2
  <2> QED BY <2>4, <2>5 DEF Gathered
<1> QED BY <1>7, <1>8

\* The steps of one client.
LEMMA CallAligned ==
    ASSUME Aligned, NEW c \in Clients, DOMAIN call = Clients, NEW k,
           call' = [call EXCEPT ![c] = k], StoresTagged', \A l \in late' : Tagged(l.req),
           k.pc = "request" => Gathered(k), Reported(k)
    PROVE  Aligned'
<1>1. call'[c] = k /\ \A d \in Clients \ {c} : call'[d] = call[d]
  OBVIOUS
<1>2. ASSUME NEW d \in Clients
      PROVE  (call'[d].pc = "request" => Gathered(call'[d])) /\ Reported(call'[d])
  <2>1. CASE d = c
    BY <1>1, <2>1
  <2>2. CASE d # c
    BY <1>1, <2>2 DEF Aligned
  <2> QED BY <2>1, <2>2
<1> QED BY <1>2 DEF Aligned, Gathered, Reported, Tagged, Writes

LEMMA ReturnAligned ==
    ASSUME Aligned, NEW c \in Clients, DOMAIN call = Clients, NEW res, NEW vals,
           Return(c, res, vals), StoresTagged', \A l \in late' : Tagged(l.req),
           \A i \in DOMAIN vals : vals[i] \in Seq({call[c].req.keys[i], Blank})
    PROVE  Aligned'
<1>1. PICK k : k = At("idle", call[c].id, call[c].req, call[c].owner, {}, Nothing, res, vals)
  OBVIOUS
<1>2. /\ k.pc = "idle" /\ k.req = call[c].req /\ k.vals = vals
      /\ call' = [call EXCEPT ![c] = k]
  BY <1>1 DEF At, Return
<1>3. Reported(k)
  BY <1>2 DEF Reported
<1> QED BY <1>2, <1>3, CallAligned

LEMMA FailAligned ==
    ASSUME Aligned, NEW c \in Clients, DOMAIN call = Clients, Return(c, "fail", <<>>),
           StoresTagged', \A l \in late' : Tagged(l.req)
    PROVE  Aligned'
<1>1. PICK vals : vals = <<>>
  OBVIOUS
<1>2. DOMAIN vals = {}
  BY <1>1
<1> QED BY <1>1, <1>2, ReturnAligned
LEMMA InvokeAligned ==
    ASSUME IInv, Aligned, NEW c \in Clients, Invoke(c)
    PROVE  Aligned'
<1>1. PICK r : call' = [call EXCEPT ![c] =
                  At("query", ncalls + 1, r, <<>>, {}, Nothing, "none", <<>>)]
  BY DEF Invoke
<1>2. PICK k : k = At("query", ncalls + 1, r, <<>>, {}, Nothing, "none", <<>>)
  OBVIOUS
<1>3. k.pc = "query" /\ k.vals = <<>> /\ call' = [call EXCEPT ![c] = k]
  BY <1>1, <1>2 DEF At
<1>4. Reported(k)
  BY <1>3 DEF Reported
<1>5. StoresTagged' /\ \A l \in late' : Tagged(l.req)
  BY DEF Invoke, Aligned, StoresTagged
<1> QED BY <1>3, <1>4, <1>5, CallAligned DEF IInv, Executions

LEMMA QueryAligned ==
    ASSUME IInv, Aligned, NEW c \in Clients, Query(c)
    PROVE  Aligned'
<1>1. PICK r : r = call[c].req
  OBVIOUS
<1>2. PICK owner : owner = [i \in DOMAIN r.keys |-> get_server(config, r.keys[i])]
  OBVIOUS
<1>3. PICK k : k = At("request", call[c].id, r, owner, {owner[i] : i \in DOMAIN owner},
                      Nothing, "none", <<>>)
  OBVIOUS
<1>4. Return(c, "fail", <<>>) \/ call' = [call EXCEPT ![c] = k]
  BY <1>1, <1>2, <1>3 DEF Query
<1>5. StoresTagged' /\ (\A l \in late' : Tagged(l.req)) /\ DOMAIN call = Clients
  BY DEF Query, Aligned, StoresTagged, IInv, Executions
<1>6. CASE Return(c, "fail", <<>>)
  BY <1>5, <1>6, FailAligned
<1>7. CASE call' = [call EXCEPT ![c] = k]
  <2>1. /\ k.got = Nothing /\ k.vals = <<>> /\ k.owner = owner
        /\ k.todo = {owner[i] : i \in DOMAIN owner}
    BY <1>3 DEF At
  <2>2. DOMAIN k.got = {} /\ DOMAIN k.vals = {}
    BY <2>1 DEF Nothing
  <2>3. Gathered(k) /\ Reported(k)
    BY <2>1, <2>2 DEF Gathered, Reported
  <2> QED BY <1>5, <1>7, <2>3, CallAligned
<1> QED BY <1>4, <1>6, <1>7

LEMMA RequestAligned ==
    ASSUME SelfNamed, IInv, Aligned, NEW c \in Clients, Request(c)
    PROVE  Aligned'
<1>1. PICK s : s = NextServer(c)
  OBVIOUS
<1>2. PICK r : r = Part(c, s)
  OBVIOUS
<1>3. PICK res : res = deserialize_response(process_request(s, serialize_request(r)))
  OBVIOUS
<1>4. PICK k : k = At("request", call[c].id, call[c].req, call[c].owner, call[c].todo \ {s},
                      Collect(call[c].got, r.keys, res.vals), "none", <<>>)
  OBVIOUS
<1>5. /\ call[c].pc = "request" /\ call[c].todo # {} /\ late' = late
      /\ Execute(c, s, r)
      /\ IF res.op = r.op THEN call' = [call EXCEPT ![c] = k] ELSE Return(c, "fail", <<>>)
  BY <1>1, <1>2, <1>3, <1>4 DEF Request
<1>6. /\ Executions /\ DOMAIN call = Clients /\ s \in call[c].todo /\ s \in Servers
      /\ r.op # "Error"
  BY <1>1, <1>2, <1>5, Asking DEF IInv
<1>7. Tagged(r)
  BY <1>2, <1>5, <1>6, PartTagged
<1>8. StoresTagged' /\ \A l \in late' : Tagged(l.req)
  BY <1>5, <1>6, <1>7, ExecuteTagged DEF Execute, Aligned, IInv
<1>9. CASE res.op = r.op
  <2>1. Kv!Succeeds(store[s], r)
    BY <1>3, <1>6, <1>9, Answered
  <2>2. PICK vals : vals = res.vals
    OBVIOUS
  <2>3. vals = IF Kv!Reads(r) THEN [i \in DOMAIN r.keys |-> store[s][r.keys[i]]] ELSE <<>>
    BY <1>3, <1>6, <2>1, <2>2, AnswerVals
  <2>4. /\ k.req = call[c].req /\ k.owner = call[c].owner /\ k.todo = call[c].todo \ {s}
        /\ k.got = Collect(call[c].got, r.keys, vals) /\ k.vals = <<>>
    BY <1>4, <2>2 DEF At
  <2>5. StoresTagged /\ Gathered(call[c])
    BY <1>5 DEF Aligned
  <2>6. Gathered(k)
    BY <1>1, <1>2, <1>5, <1>6, <2>1, <2>3, <2>4, <2>5, CollectGathers
  <2>7. Reported(k)
    BY <2>4 DEF Reported
  <2> QED BY <1>5, <1>6, <1>8, <1>9, <2>6, <2>7, CallAligned
<1>10. CASE res.op # r.op
  BY <1>5, <1>6, <1>8, <1>10, FailAligned
<1> QED BY <1>9, <1>10

LEMMA LostAligned ==
    ASSUME SelfNamed, IInv, Aligned, NEW c \in Clients, AnswerLost(c)
    PROVE  Aligned'
<1>1. PICK s : s = NextServer(c)
  OBVIOUS
<1>2. PICK r : r = Part(c, s)
  OBVIOUS
<1>3. /\ call[c].pc = "request" /\ call[c].todo # {} /\ late' = late
      /\ Execute(c, s, r) /\ Return(c, "fail", <<>>)
  BY <1>1, <1>2 DEF AnswerLost
<1>4. Executions /\ DOMAIN call = Clients /\ s \in call[c].todo /\ s \in Servers
  BY <1>1, <1>3, Asking DEF IInv
<1>5. Tagged(r)
  BY <1>2, <1>3, <1>4, PartTagged
<1>6. StoresTagged' /\ \A l \in late' : Tagged(l.req)
  BY <1>3, <1>4, <1>5, ExecuteTagged DEF Execute, Aligned, IInv
<1> QED BY <1>3, <1>4, <1>6, FailAligned

LEMMA GivenUpAligned ==
    ASSUME SelfNamed, IInv, Aligned, NEW c \in Clients, AnswerGivenUp(c)
    PROVE  Aligned'
<1>1. PICK s : s = NextServer(c)
  OBVIOUS
<1>2. PICK new : new = [client |-> c, id |-> call[c].id, server |-> s, req |-> Part(c, s)]
  OBVIOUS
<1>3. /\ call[c].pc = "request" /\ call[c].todo # {} /\ store' = store
      /\ late' = late \cup {new} /\ Return(c, "fail", <<>>)
  BY <1>1, <1>2 DEF AnswerGivenUp
<1>4. Executions /\ DOMAIN call = Clients /\ s \in call[c].todo
  BY <1>1, <1>3, Asking DEF IInv
<1>5. Tagged(new.req)
  BY <1>2, <1>3, <1>4, PartTagged
<1>6. StoresTagged' /\ \A l \in late' : Tagged(l.req)
  BY <1>3, <1>5 DEF Aligned, StoresTagged
<1> QED BY <1>3, <1>4, <1>6, FailAligned

\* The values are put together in the order of the keys.
LEMMA FinishAligned ==
    ASSUME IInv, Aligned, NEW c \in Clients, Finish(c)
    PROVE  Aligned'
<1>1. PICK vals : vals = IF Kv!Reads(call[c].req) THEN Answer(c) ELSE <<>>
  OBVIOUS
<1>2. /\ call[c].pc = "request" /\ call[c].todo = {} /\ UNCHANGED <<store, late>>
      /\ Return(c, "ok", vals)
  BY <1>1 DEF Finish
<1>3. /\ DOMAIN call = Clients /\ Owned(call[c]) /\ Gathered(call[c])
  BY <1>2 DEF IInv, Executions, CallOK, UnderWay, Aligned
<1>4. ASSUME NEW i \in DOMAIN vals PROVE vals[i] \in Seq({call[c].req.keys[i], Blank})
  <2>1. CASE Kv!Reads(call[c].req)
    <3>1. i \in DOMAIN call[c].req.keys /\ vals[i] = call[c].got[call[c].req.keys[i]]
      BY <1>1, <1>4, <2>1 DEF Answer
    <3>2. call[c].req.keys[i] \in DOMAIN call[c].got
      BY <1>2, <1>3, <2>1, <3>1 DEF Owned, Gathered
    <3> QED BY <1>3, <3>1, <3>2 DEF Gathered
  <2>2. CASE ~Kv!Reads(call[c].req)
    <3>1. DOMAIN vals = {}
      BY <1>1, <2>2
    <3> QED BY <1>4, <3>1
  <2> QED BY <2>1, <2>2
<1>5. StoresTagged' /\ \A l \in late' : Tagged(l.req)
  BY <1>2 DEF Aligned, StoresTagged
<1> QED BY <1>2, <1>3, <1>4, <1>5, ReturnAligned

LEMMA LateAligned ==
    ASSUME IInv, Aligned, LateExecute
    PROVE  Aligned'
<1>1. PICK l \in late :
        /\ late' = late \ {l} /\ call' = call
        /\ store' = [store EXCEPT ![l.server] = Kv!Effect(@, l.req)]
  BY DEF LateExecute, Execute
<1>2. l.server \in Servers /\ Tagged(l.req) /\ Stores
  BY DEF IInv, Executions, LateOK, Aligned
<1>3. StoresTagged'
  BY <1>1, <1>2, ExecuteTagged DEF Aligned
<1> QED BY <1>1, <1>3 DEF Aligned, Gathered, Reported, Tagged, Writes

LEMMA NextAligned ==
    ASSUME SelfNamed, IInv, Aligned, [Next]_vars
    PROVE  Aligned'
<1>1. DOMAIN call = Clients
  BY DEF IInv, Executions
<1>2. ASSUME NEW c \in Clients, QueryFails(c) \/ RequestFails(c) PROVE Aligned'
  <2>1. Return(c, "fail", <<>>) /\ UNCHANGED <<store, late>>
    BY <1>2 DEF QueryFails, RequestFails
  <2>2. StoresTagged' /\ \A l \in late' : Tagged(l.req)
    BY <2>1 DEF Aligned, StoresTagged
  <2> QED BY <1>1, <2>1, <2>2, FailAligned
<1>3. ASSUME UNCHANGED <<store, call, late>> PROVE Aligned'
  BY <1>3 DEF Aligned, StoresTagged, Gathered, Reported, Tagged, Writes
<1>4. ASSUME Reconfigure \/ UNCHANGED vars PROVE Aligned'
  BY <1>3, <1>4 DEF Reconfigure, vars
<1> QED BY <1>2, <1>4, InvokeAligned, QueryAligned, RequestAligned, LostAligned,
           GivenUpAligned, FinishAligned, LateAligned DEF Next, Progress

\* Of users who give every key its own name as value: keys and values stay
\* together through the division among servers, failures and late requests,
\* in the stores and in every answer.
THEOREM AnswersInPlace ==
    ASSUME SelfNamed
    PROVE  Spec => []AnswersAligned
<1>1. Init => Aligned
  <2> SUFFICES ASSUME Init PROVE Aligned
    OBVIOUS
  <2>1. ASSUME NEW c \in Clients PROVE call[c].pc = "idle" /\ DOMAIN call[c].vals = {}
    <3>1. call[c] = At("idle", 0, Refused, <<>>, {}, Nothing, "none", <<>>)
      BY DEF Init
    <3> QED BY <3>1 DEF At
  <2> QED BY <2>1 DEF Init, Aligned, StoresTagged, Reported
<1>2. IInv /\ Aligned /\ [Next]_vars => Aligned'
  BY NextAligned
<1>3. Aligned => AnswersAligned
  <2> SUFFICES ASSUME Aligned PROVE AnswersAligned
    OBVIOUS
  <2>1. ASSUME NEW x, NEW v \in Seq({x, Blank}), NEW n \in DOMAIN v PROVE v[n] \in {x, Blank}
    OBVIOUS
  <2>2. ASSUME NEW s \in Servers, NEW k \in Keys, store[s][k] # Absent,
               NEW n \in DOMAIN store[s][k]
        PROVE  store[s][k][n] \in {k, Blank}
    BY <2>1, <2>2 DEF Aligned, StoresTagged
  <2>3. ASSUME NEW c \in Clients, NEW i \in DOMAIN call[c].vals,
               NEW n \in DOMAIN call[c].vals[i]
        PROVE  call[c].vals[i][n] \in {call[c].req.keys[i], Blank}
    BY <2>1 DEF Aligned, Reported
  <2> QED BY <2>2, <2>3 DEF AnswersAligned
<1> QED BY <1>1, <1>2, <1>3, Invariance, PTL DEF Spec
=============================================================================
