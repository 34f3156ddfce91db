-------------------------- MODULE MessageConnection --------------------------
(***************************************************************************)
(* One connection between a client and a server: request and response      *)
(* messages framed as type, size and body (net/network_messages.cpp) over  *)
(* a byte stream that send and recv move in pieces (net/network_helpers.cpp*)
(* sendall and recvall), with end of file, peers that go away, and the     *)
(* time limit on bodies.  A byte is the pair of the message it belongs to  *)
(* and the part of it; type and size have no time limit.                   *)
(*                                                                         *)
(* kind says what the user of the client side does after a failed call:    *)
(* SimpleClient's connection goes with the call ("closing"), the one a     *)
(* ShardKvClient has to its shardmaster is kept ("kept").                  *)
(***************************************************************************)
EXTENDS Integers, Sequences

CONSTANTS TypeBytes,  \* length of the type on the wire
          SizeBytes,  \* length of the size on the wire
          BodySizes,  \* lengths a serialized message may have
          WORD,       \* an int, and what htonl keeps of a size, is modulo WORD
          Buffer,     \* bytes the network holds for each side
          MaxCalls    \* bound on the calls of the client

ASSUME ConnectionConstants ==
    /\ TypeBytes \in Nat \ {0} /\ SizeBytes \in Nat \ {0} /\ Buffer \in Nat \ {0}
    /\ WORD \in Nat \ {0} /\ MaxCalls \in Nat
    /\ BodySizes \subseteq Nat

Side == {"client", "server"}
Peer(e) == IF e = "client" THEN "server" ELSE "client"
Message == 1..MaxCalls     \* call n sends request n and wants response n
Parts == <<"type", "size", "body">>

VARIABLES kind,     \* "closing" or "kept"
          len,      \* the length of each message's body
          open,     \* is each side's socket open?
          wire,     \* bytes on the way to each side
          ctl,      \* what each side is doing
          calls,    \* calls the client has made
          served,   \* requests delivered to the server, in order
          answered, \* responses delivered to the client, in order
          failed    \* a call on a kept connection has failed

vars == <<kind, len, open, wire, ctl, calls, served, answered, failed>>

At(pc, id, part, n) == [pc |-> pc, id |-> id, part |-> part, n |-> n]
Begin(pc, id) == At(pc, id, 1, 0)
Rest(pc)      == Begin(pc, 0)
Idle          == Rest("idle")

-----------------------------------------------------------------------------
(* Messages.  The 64-bit size goes through htonl and ntohl.                *)

htonl(sz) == sz % WORD

\* A size_t returned as an int.
IntOf(sz) == LET r == sz % WORD IN IF 2 * r < WORD THEN r ELSE r - WORD

\* How many bytes e sends or expects in the part it is at.
PartLength(e) ==
    CASE ctl[e].part = 1 -> TypeBytes
      [] ctl[e].part = 2 -> SizeBytes
      [] OTHER -> IF ctl[e].pc = "sending" THEN len[ctl[e].id]
                  ELSE htonl(len[ctl[e].id])

Remaining(e) == PartLength(e) - ctl[e].n
PartDone(e)  == Remaining(e) = 0
InBody(e)    == ctl[e].part = 3

\* Mutant: what was moved of a body is taken for all of it.
MutantAnyBody(e) == TRUE

\* A body that was moved is good: sendall and recvall return its length, and
\* what was received is all that was serialized.
GoodBody(e) == IntOf(PartLength(e)) = len[ctl[e].id]

-----------------------------------------------------------------------------
(* sendall and recvall.                                                    *)

\* A failed call: the server closes; the client's connection goes with the
\* call or is kept for the next one.
Fail(e) ==
    IF e = "client" /\ kind = "kept"
    THEN /\ ctl' = [ctl EXCEPT ![e] = Idle]
         /\ failed' = TRUE
         /\ UNCHANGED open
    ELSE /\ ctl' = [ctl EXCEPT ![e] = Rest("closed")]
         /\ open' = [open EXCEPT ![e] = FALSE]
         /\ UNCHANGED failed

\* The process ends, by a signal or an assertion.
Abort(e) ==
    /\ ctl' = [ctl EXCEPT ![e] = Rest("killed")]
    /\ open' = [open EXCEPT ![e] = FALSE]
    /\ UNCHANGED failed

\* send accepts some of the bytes; a peer that is gone never reads them.
SendSome(e) ==
    /\ ctl[e].pc = "sending" /\ ~PartDone(e)
    /\ \E k \in 1..Remaining(e) :
          /\ open[Peer(e)] => Len(wire[Peer(e)]) + k <= Buffer
          /\ wire' = IF open[Peer(e)]
                     THEN [wire EXCEPT ![Peer(e)] =
                              @ \o [i \in 1..k |-> <<ctl[e].id, Parts[ctl[e].part]>>]]
                     ELSE wire
          /\ ctl' = [ctl EXCEPT ![e] =
                        At("sending", ctl[e].id, ctl[e].part, ctl[e].n + k)]
    /\ UNCHANGED <<kind, len, open, calls, served, answered, failed>>

\* The peer is gone: with MSG_NOSIGNAL send returns an error, without it
\* (the body) SIGPIPE ends the process.
SendFails(e) ==
    /\ ctl[e].pc = "sending" /\ ~PartDone(e) /\ ~open[Peer(e)]
    /\ IF InBody(e) THEN Abort(e) ELSE Fail(e)
    /\ UNCHANGED <<kind, len, wire, calls, served, answered>>

\* Mutant: the loop gives up on a short count instead of going on.
MutantRecvOnce(e) ==
    /\ ctl[e].pc = "receiving" /\ ~PartDone(e) /\ wire[e] # <<>>
    /\ \E k \in 1..Remaining(e) :
          /\ k <= Len(wire[e])
          /\ wire' = [wire EXCEPT ![e] = SubSeq(@, k + 1, Len(@))]
          /\ ctl' = [ctl EXCEPT ![e].n = PartLength(e), ![e].id = wire[e][1][1]]
    /\ UNCHANGED <<kind, len, open, calls, served, answered, failed>>

\* recv returns some of the bytes that have arrived.  Bytes of another part
\* than the one expected are garbage to the receiver.
RecvSome(e) ==
    /\ ctl[e].pc = "receiving" /\ ~PartDone(e) /\ wire[e] # <<>>
    /\ \E k \in 1..Remaining(e) :
          /\ k <= Len(wire[e])
          /\ wire' = [wire EXCEPT ![e] = SubSeq(@, k + 1, Len(@))]
          /\ LET id == IF ctl[e].id = 0 THEN wire[e][1][1] ELSE ctl[e].id
             IN ctl' = [ctl EXCEPT ![e] =
                   IF \A i \in 1..k : wire[e][i] = <<id, Parts[ctl[e].part]>>
                   THEN At("receiving", id, ctl[e].part, ctl[e].n + k)
                   ELSE Rest("garbled")]
    /\ UNCHANGED <<kind, len, open, calls, served, answered, failed>>

\* Mutant: end of file reads as no bytes yet.
MutantEofIsNoData(e) ==
    /\ ctl[e].pc = "receiving" /\ ~PartDone(e) /\ ~open[Peer(e)] /\ wire[e] = <<>>
    /\ UNCHANGED vars

\* End of file, in the middle of a part too, is a failed call; so is the reset
\* of a connection whose peer has gone without reading what it was sent.
RecvEof(e) ==
    /\ ctl[e].pc = "receiving" /\ ~PartDone(e) /\ ~open[Peer(e)]
    /\ wire[e] = <<>> \/ wire[Peer(e)] # <<>>
    /\ Fail(e)
    /\ UNCHANGED <<kind, len, wire, calls, served, answered>>

\* Both loops look at the clock between two pieces of a body.
Timeout(e) ==
    /\ ctl[e].pc \in {"sending", "receiving"} /\ InBody(e) /\ ~PartDone(e)
    /\ Fail(e)
    /\ UNCHANGED <<kind, len, wire, calls, served, answered>>

\* A whole body, and yet a failed call: its length is negative as an int, or
\* its size was cut in the header and what was received of it does not parse.
\* A sender whose length comes back as another one fails its assertion.
BodyFails(e) ==
    /\ ctl[e].pc \in {"sending", "receiving"} /\ InBody(e) /\ PartDone(e)
    /\ ~GoodBody(e)
    /\ IF ctl[e].pc = "sending" /\ IntOf(PartLength(e)) >= 0 THEN Abort(e) ELSE Fail(e)
    /\ UNCHANGED <<kind, len, wire, calls, served, answered>>

\* send_message and recv_message go from part to part; an empty body is
\* neither sent nor awaited.
NextPart(e) ==
    /\ ctl[e].pc \in {"sending", "receiving"} /\ PartDone(e) /\ ctl[e].part < 3
    /\ ctl' = [ctl EXCEPT ![e] = At(ctl[e].pc, ctl[e].id, ctl[e].part + 1, 0)]
    /\ UNCHANGED <<kind, len, open, wire, calls, served, answered, failed>>

-----------------------------------------------------------------------------
(* The client's call and the server's loop.                                *)

Init ==
    /\ kind \in {"closing", "kept"}
    /\ len \in [Message -> BodySizes]
    /\ open = [e \in Side |-> TRUE]
    /\ wire = [e \in Side |-> <<>>]
    /\ ctl = [client |-> Idle, server |-> Begin("receiving", 0)]
    /\ calls = 0 /\ served = <<>> /\ answered = <<>> /\ failed = FALSE

Call ==
    /\ ctl["client"].pc = "idle" /\ calls < MaxCalls
    /\ calls' = calls + 1
    /\ ctl' = [ctl EXCEPT !["client"] = Begin("sending", calls + 1)]
    /\ UNCHANGED <<kind, len, open, wire, served, answered, failed>>

RequestSent ==
    /\ ctl["client"].pc = "sending" /\ InBody("client") /\ PartDone("client") /\ GoodBody("client")
    /\ ctl' = [ctl EXCEPT !["client"] = Begin("receiving", 0)]
    /\ UNCHANGED <<kind, len, open, wire, calls, served, answered, failed>>

\* recv_request returns a request; the worker processes it and responds.
RequestReceived ==
    /\ ctl["server"].pc = "receiving" /\ InBody("server") /\ PartDone("server") /\ GoodBody("server")
    /\ served' = Append(served, ctl["server"].id)
    /\ ctl' = [ctl EXCEPT !["server"] = Begin("sending", ctl["server"].id)]
    /\ UNCHANGED <<kind, len, open, wire, calls, answered, failed>>

ResponseSent ==
    /\ ctl["server"].pc = "sending" /\ InBody("server") /\ PartDone("server") /\ GoodBody("server")
    /\ ctl' = [ctl EXCEPT !["server"] = Begin("receiving", 0)]
    /\ UNCHANGED <<kind, len, open, wire, calls, served, answered, failed>>

ResponseReceived ==
    /\ ctl["client"].pc = "receiving" /\ InBody("client") /\ PartDone("client") /\ GoodBody("client")
    /\ answered' = Append(answered, ctl["client"].id)
    /\ ctl' = [ctl EXCEPT !["client"] = Idle]
    /\ UNCHANGED <<kind, len, open, wire, calls, served, failed>>

\* Mutant: the client goes away without a shutdown of its socket.
MutantLeakSocket ==
    /\ ctl["client"].pc = "idle"
    /\ ctl' = [ctl EXCEPT !["client"] = Rest("closed")]
    /\ UNCHANGED <<kind, len, open, wire, calls, served, answered, failed>>

\* The client is destroyed: ~ServerConn shuts the socket down.
Leave ==
    /\ ctl["client"].pc = "idle"
    /\ ctl' = [ctl EXCEPT !["client"] = Rest("closed")]
    /\ open' = [open EXCEPT !["client"] = FALSE]
    /\ UNCHANGED <<kind, len, wire, calls, served, answered, failed>>

Step(e) ==
    \/ SendSome(e) \/ SendFails(e) \/ RecvSome(e) \/ RecvEof(e)
    \/ BodyFails(e) \/ NextPart(e)

Progress(e) ==
    \/ Step(e)
    \/ e = "client" /\ (RequestSent \/ ResponseReceived)
    \/ e = "server" /\ (RequestReceived \/ ResponseSent)

Next ==
    \/ \E e \in Side : Progress(e) \/ Timeout(e)
    \/ Call \/ Leave

\* Both processes keep running; nothing makes a client call or leave.
Fairness == \A e \in Side : WF_vars(Progress(e))

Spec == Init /\ [][Next]_vars /\ Fairness

-----------------------------------------------------------------------------
(* Properties.                                                             *)

\* The state of the two message loops.
TypeOK ==
    /\ kind \in {"closing", "kept"}
    /\ len \in [Message -> BodySizes]
    /\ open \in [Side -> BOOLEAN]
    /\ wire \in [Side -> Seq(Message \X {"type", "size", "body"})]
    /\ ctl \in [Side -> [pc: {"idle", "sending", "receiving", "closed", "killed", "garbled"},
                         id: Message \cup {0}, part: 1..3, n: Nat]]
    /\ calls \in 0..MaxCalls
    /\ served \in Seq(Message) /\ answered \in Seq(Message)
    /\ failed \in BOOLEAN

\* recvall never takes more than its part, so that however the stream is cut
\* into pieces neither side reads one message as another, unless the client
\* goes on using a connection on which a call has failed half way.
NeverGarbled == ~failed => \A e \in Side : ctl[e].pc # "garbled"

\* The n-th answer a client gets is the answer to its n-th request, which
\* the server has received once.
AnswersMatchCalls ==
    ~failed => /\ \A i \in DOMAIN served : served[i] = i
               /\ \A i \in DOMAIN answered : answered[i] = i
               /\ Len(answered) <= Len(served) /\ Len(served) <= calls

\* Every call on a connection of its own returns: with a message, at end of
\* file, or after the time limit.
CallsReturn ==
    (kind = "closing" /\ ctl["client"].pc \in {"sending", "receiving"})
        ~> (ctl["client"].pc \in {"idle", "closed", "killed"})

\* A worker is not held for ever by a client that has gone.
WorkerReleased ==
    (ctl["client"].pc \in {"closed", "killed"})
        ~> (ctl["server"].pc \in {"closed", "killed", "garbled"})
=============================================================================
