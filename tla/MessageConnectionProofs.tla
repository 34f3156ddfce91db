----------------------- MODULE MessageConnectionProofs -----------------------
(***************************************************************************)
(* Proofs about MessageConnection, for any lengths of type, size and       *)
(* bodies, any buffer and any number of calls: its type invariant,         *)
(* NeverGarbled and AnswersMatchCalls.                                     *)
(*                                                                         *)
(* Each side has received a number of whole messages and a first part of   *)
(* the next. What is on the way to it goes on exactly there: it is the     *)
(* piece of that message between what the side has taken and what the peer *)
(* has sent. That recvall stops at the end of a part keeps this true for   *)
(* every way to cut the stream, and since a side sends only what answers a *)
(* message it has whole, there are never bytes of two messages on the way. *)
(***************************************************************************)
EXTENDS MessageConnection, SequenceTheorems, TLAPS

Busy == {"sending", "receiving"}

\* Where a part begins, how long it is, how much of its message a side has sent or taken,
\* and how long a message is on the wire.
Offset(part) ==
    IF part = 1 THEN 0 ELSE IF part = 2 THEN TypeBytes ELSE TypeBytes + SizeBytes
Size(part, id) ==
    IF part = 1 THEN TypeBytes ELSE IF part = 2 THEN SizeBytes ELSE len[id]
Done(e)   == Offset(ctl[e].part) + ctl[e].n
Total(id) == TypeBytes + SizeBytes + len[id]

\* The byte at a position of a message.
Byte(id, pos) ==
    <<id, IF pos <= TypeBytes THEN "type"
          ELSE IF pos <= TypeBytes + SizeBytes THEN "size" ELSE "body">>

\* Within a part: a sender names its message; a receiver knows its message
\* from the first byte on.
Within(c) ==
    /\ c.pc \in Busy => c.n <= Size(c.part, c.id)
    /\ c.pc = "sending" => c.id # 0
    /\ c.pc = "receiving" => (c.id = 0 <=> Offset(c.part) + c.n = 0)

Positions == \A e \in Side : Within(ctl[e])

\* Messages side e has received, and messages its peer has begun to send.
Count(e)  == IF e = "client" THEN Len(answered) ELSE Len(served)
Supply(e) == IF e = "client" THEN Len(served) ELSE calls

\* How much of the next message e has taken, and how much was sent.
Got(e)  == IF ctl[e].pc = "receiving" THEN Done(e) ELSE 0
Sent(e) == IF ctl[Peer(e)].pc = "sending" THEN Done(Peer(e)) ELSE Total(Count(e) + 1)

\* Calls are answered one by one.
InStep ==
    /\ \A i \in 1..Len(served) : served[i] = i
    /\ \A i \in 1..Len(answered) : answered[i] = i
    /\ Len(answered) <= Len(served) /\ Len(served) <= calls
    /\ calls <= Len(answered) + 1

ClientAt ==
    /\ ctl["client"].pc # "garbled"
    /\ open["client"] <=> ctl["client"].pc \in Busy \cup {"idle"}
    /\ ctl["client"].pc = "idle" => Len(answered) = calls
    /\ ctl["client"].pc \in Busy =>
          Len(answered) + 1 = calls /\ ctl["client"].id \in {0, calls}
    /\ ctl["client"].pc = "sending" /\ Len(served) = calls => Done("client") = Total(calls)

ServerAt ==
    /\ ctl["server"].pc \in Busy \cup {"closed", "killed"}
    /\ open["server"] <=> ctl["server"].pc \in Busy
    /\ ctl["server"].pc = "receiving" => ctl["server"].id \in {0, Len(served) + 1}
    /\ ctl["server"].pc = "sending" =>
          /\ ctl["server"].id = Len(served)
          /\ Len(answered) = Len(served) => Done("server") = Total(Len(served))

\* The bytes on the way to e.
Flow(e) ==
    open[e] =>
        IF Supply(e) = Count(e) THEN Got(e) = 0 /\ wire[e] = <<>>
        ELSE /\ Got(e) + Len(wire[e]) <= Total(Count(e) + 1)
             /\ open[Peer(e)] => Got(e) + Len(wire[e]) = Sent(e)
             /\ \A i \in 1..Len(wire[e]) : wire[e][i] = Byte(Count(e) + 1, Got(e) + i)

Protocol == ~failed => InStep /\ ClientAt /\ ServerAt /\ \A e \in Side : Flow(e)

IInv == TypeOK /\ Positions /\ Protocol
-----------------------------------------------------------------------------
(* The types.                                                              *)

\* The header keeps a size or cuts it, and a length that an int gives back
\* whole was kept.
LEMMA HtonlBounds ==
    ASSUME NEW x \in Nat
    PROVE  /\ htonl(x) \in Nat /\ htonl(x) <= x
           /\ IntOf(htonl(x)) = x => htonl(x) = x
<1>1. WORD \in Nat \ {0} /\ x % WORD \in 0..WORD-1
  BY ConnectionConstants
<1>2. x % WORD <= x
  <2>1. CASE x < WORD
    <3>1. x % WORD = x
      BY <1>1, <2>1
    <3> QED BY <3>1
  <2>2. CASE ~(x < WORD)
    BY <1>1, <2>2
  <2> QED BY <2>1, <2>2
<1>3. IntOf(htonl(x)) = x => htonl(x) = x
  <2> DEFINE y == x % WORD
  <2>1. y \in 0..WORD-1 /\ y % WORD = y
    <3> HIDE DEF y
    <3>1. y \in 0..WORD-1
      BY <1>1 DEF y
    <3> QED BY <1>1, <3>1
  <2> HIDE DEF y
  <2>2. IntOf(y) = x => y = x
    BY <1>1, <2>1 DEF IntOf
  <2> QED BY <2>2 DEF htonl, y
<1> QED BY <1>1, <1>2, <1>3 DEF htonl

LEMMA PartLengths ==
    ASSUME TypeOK, NEW e \in Side, ctl[e].pc \in Busy, Within(ctl[e])
    PROVE  /\ PartLength(e) \in Nat /\ PartLength(e) <= Size(ctl[e].part, ctl[e].id)
           /\ Size(ctl[e].part, ctl[e].id) \in Nat
           /\ ctl[e].part < 3 => PartLength(e) = Size(ctl[e].part, ctl[e].id)
           /\ ctl[e].part = 3 => /\ ctl[e].id \in Message
                                 /\ GoodBody(e) => PartLength(e) = Size(3, ctl[e].id)
<1>1. ctl[e] \in [pc: {"idle", "sending", "receiving", "closed", "killed", "garbled"},
                  id: Message \cup {0}, part: 1..3, n: Nat]
  BY DEF TypeOK
<1>2. ctl[e].part = 3 => ctl[e].id \in Message
  BY <1>1, ConnectionConstants DEF Within, Offset, Busy
<1>3. ctl[e].part = 3 => len[ctl[e].id] \in Nat
  BY <1>2, ConnectionConstants DEF TypeOK
<1>. TypeBytes \in Nat /\ SizeBytes \in Nat
  BY ConnectionConstants
<1>4. CASE ctl[e].part = 1
  BY <1>4 DEF PartLength, Size
<1>5. CASE ctl[e].part = 2
  BY <1>5 DEF PartLength, Size
<1>6. CASE ctl[e].part = 3 /\ ctl[e].pc = "sending"
  BY <1>2, <1>3, <1>6 DEF PartLength, Size
<1>7. CASE ctl[e].part = 3 /\ ctl[e].pc # "sending"
  <2>1. PartLength(e) = htonl(len[ctl[e].id]) /\ Size(ctl[e].part, ctl[e].id) = len[ctl[e].id]
    BY <1>7 DEF PartLength, Size
  <2> QED BY <1>2, <1>3, <1>7, <2>1, HtonlBounds DEF GoodBody
<1> QED BY <1>1, <1>4, <1>5, <1>6, <1>7

\* What the record of a side may be.
Ctl == [pc: {"idle", "sending", "receiving", "closed", "killed", "garbled"},
        id: Message \cup {0}, part: 1..3, n: Nat]

LEMMA InitTypes == Init => TypeOK /\ Positions
<1> SUFFICES ASSUME Init PROVE TypeOK /\ Positions
  OBVIOUS
<1>1. ctl = [e \in Side |-> IF e = "client" THEN Idle ELSE Begin("receiving", 0)]
  BY DEF Init, Side
<1>2. Idle \in Ctl /\ Begin("receiving", 0) \in Ctl
  BY DEF Ctl, Idle, Rest, Begin, At
<1>3. ctl \in [Side -> Ctl]
  BY <1>1, <1>2
<1>4. <<>> \in Seq(Message \X {"type", "size", "body"}) /\ <<>> \in Seq(Message)
  OBVIOUS
<1>5. wire \in [Side -> Seq(Message \X {"type", "size", "body"})]
  BY <1>4 DEF Init
<1>6. calls \in 0..MaxCalls /\ open \in [Side -> BOOLEAN]
  BY ConnectionConstants DEF Init
<1>8. TypeOK
  BY <1>3, <1>4, <1>5, <1>6 DEF Init, TypeOK, Ctl
<1>7. Positions
  BY <1>1, ConnectionConstants DEF Positions, Within, Offset, Size, Side, Idle, Rest, Begin, At, Busy
<1> QED BY <1>8, <1>7

\* Only the record of e changes.
Becomes(e, c) == ctl' = [ctl EXCEPT ![e] = c]

LEMMA BecomesKeeps ==
    ASSUME TypeOK, Positions, NEW e \in Side, NEW c \in Ctl, Within(c),
           Becomes(e, c), UNCHANGED len
    PROVE  ctl' \in [Side -> Ctl] /\ Positions'
<1>1. ctl \in [Side -> Ctl]
  BY DEF TypeOK, Ctl
<1>2. ctl' \in [Side -> Ctl] /\ ctl'[e] = c /\ \A f \in Side \ {e} : ctl'[f] = ctl[f]
  BY <1>1 DEF Becomes
<1>3. ASSUME NEW f \in Side PROVE Within(ctl[f])'
  <2>1. Within(ctl'[f])
    BY <1>2 DEF Positions
  <2> QED BY <2>1 DEF Within, Size
<1> QED BY <1>2, <1>3 DEF Positions

\* The record of e after it has moved k bytes, and after the end of a part.
Moved(e, k, id) == At(ctl[e].pc, id, ctl[e].part, ctl[e].n + k)
Turned(e)       == At(ctl[e].pc, ctl[e].id, ctl[e].part + 1, 0)

LEMMA Records ==
    /\ Idle \in Ctl /\ Within(Idle)
    /\ \A pc \in {"closed", "killed", "garbled"} : Rest(pc) \in Ctl /\ Within(Rest(pc))
    /\ Begin("receiving", 0) \in Ctl /\ Within(Begin("receiving", 0))
    /\ \A id \in Message : Begin("sending", id) \in Ctl /\ Within(Begin("sending", id))
<1>1. \A id \in Message : id # 0
  BY DEF Message
<1> QED
  BY <1>1, ConnectionConstants DEF Ctl, Idle, Rest, Begin, At, Within, Busy, Offset, Size

LEMMA MovedWithin ==
    ASSUME TypeOK, Positions, NEW e \in Side, ctl[e].pc \in Busy,
           NEW k \in 1..Remaining(e), NEW id \in Message,
           id = ctl[e].id \/ (ctl[e].pc = "receiving" /\ ctl[e].id = 0)
    PROVE  Moved(e, k, id) \in Ctl /\ Within(Moved(e, k, id)) /\ k \in Nat
<1>1. ctl[e] \in Ctl /\ Within(ctl[e])
  BY DEF TypeOK, Ctl, Positions
<1>2. /\ PartLength(e) <= Size(ctl[e].part, ctl[e].id) /\ PartLength(e) \in Nat
      /\ Size(ctl[e].part, ctl[e].id) \in Nat
  BY <1>1, PartLengths
<1>3. k \in Nat \ {0} /\ ctl[e].n + k <= Size(ctl[e].part, ctl[e].id)
  BY <1>1, <1>2 DEF Remaining, Ctl
<1>5. Moved(e, k, id) \in Ctl
  BY <1>1, <1>3 DEF Ctl, Moved, At
<1>6. ctl[e].id = 0 => ctl[e].part = 1
  BY <1>1, ConnectionConstants DEF Within, Offset, Ctl, Busy
<1>7. Size(ctl[e].part, id) = Size(ctl[e].part, ctl[e].id)
  BY <1>6 DEF Size
<1>8. id # 0
  BY DEF Message
<1>9. Offset(ctl[e].part) \in Nat
  BY ConnectionConstants DEF Offset
<1>10. Within(Moved(e, k, id))
  BY <1>1, <1>3, <1>7, <1>8, <1>9 DEF Within, Ctl, Moved, At
<1> QED BY <1>3, <1>5, <1>10

LEMMA TurnedWithin ==
    ASSUME TypeOK, Positions, NEW e \in Side, ctl[e].pc \in Busy, PartDone(e), ctl[e].part < 3
    PROVE  /\ Turned(e) \in Ctl /\ Within(Turned(e))
           /\ Offset(ctl[e].part + 1) = Done(e)
<1>1. ctl[e] \in Ctl /\ Within(ctl[e])
  BY DEF TypeOK, Ctl, Positions
<1>2. PartLength(e) = Size(ctl[e].part, ctl[e].id) /\ PartLength(e) \in Nat
  BY <1>1, PartLengths
<1>3. ctl[e].n = Size(ctl[e].part, ctl[e].id)
  BY <1>1, <1>2 DEF PartDone, Remaining, Ctl
<1>5. ctl[e].part \in {1, 2}
  BY <1>1 DEF Ctl
<1>6. Offset(ctl[e].part + 1) = Done(e) /\ Done(e) \in Nat \ {0}
  BY <1>3, <1>5, ConnectionConstants DEF Offset, Done, Size
<1>7. ctl[e].id # 0
  BY <1>1, <1>6 DEF Within, Done, Busy
<1>8. ctl[e].part + 1 = 3 => len[ctl[e].id] \in Nat
  <2>1. ctl[e].id \in Message
    BY <1>1, <1>7 DEF Ctl
  <2> QED BY <2>1, ConnectionConstants DEF TypeOK
<1>9. Size(ctl[e].part + 1, ctl[e].id) >= 0
  BY <1>5, <1>8, ConnectionConstants DEF Size
<1>10. Turned(e) \in Ctl
  BY <1>1, <1>5 DEF Ctl, Turned, At
<1>11. Within(Turned(e))
  BY <1>6, <1>7, <1>9 DEF Within, Turned, At
<1> QED BY <1>6, <1>10, <1>11

LEMMA FailTypes ==
    ASSUME TypeOK, Positions, NEW e \in Side, Fail(e), UNCHANGED len
    PROVE  /\ ctl' \in [Side -> Ctl] /\ Positions'
           /\ open' \in [Side -> BOOLEAN] /\ failed' \in BOOLEAN
<1>1. Becomes(e, Idle) \/ Becomes(e, Rest("closed"))
  BY DEF Fail, Becomes
<1>2. open' \in [Side -> BOOLEAN] /\ failed' \in BOOLEAN
  BY DEF Fail, TypeOK
<1> QED BY <1>1, <1>2, Records, BecomesKeeps

LEMMA SendTypes ==
    ASSUME TypeOK, Positions, NEW e \in Side, SendSome(e)
    PROVE  TypeOK' /\ Positions'
<1>1. PICK k \in 1..Remaining(e) :
        /\ Becomes(e, Moved(e, k, ctl[e].id))
        /\ wire' = wire \/
             wire' = [wire EXCEPT ![Peer(e)] =
                        @ \o [i \in 1..k |-> <<ctl[e].id, Parts[ctl[e].part]>>]]
  BY DEF SendSome, Becomes, Moved
<1>2. ctl[e] \in Ctl /\ Within(ctl[e]) /\ ctl[e].pc = "sending"
  BY DEF TypeOK, Ctl, Positions, SendSome
<1>3. ctl[e].id \in Message
  BY <1>2 DEF Ctl, Within
<1>4. /\ Moved(e, k, ctl[e].id) \in Ctl /\ Within(Moved(e, k, ctl[e].id))
      /\ k \in Nat
  BY <1>2, <1>3, MovedWithin DEF Busy
<1>5. ctl' \in [Side -> Ctl] /\ Positions'
  BY <1>1, <1>4, BecomesKeeps DEF SendSome
<1>6. Parts[ctl[e].part] \in {"type", "size", "body"}
  BY <1>2 DEF Parts, Ctl
<1>7. [i \in 1..k |-> <<ctl[e].id, Parts[ctl[e].part]>>]
        \in Seq(Message \X {"type", "size", "body"})
  BY <1>3, <1>4, <1>6
<1>8. Peer(e) \in Side
  BY DEF Peer, Side
<1>9. wire' \in [Side -> Seq(Message \X {"type", "size", "body"})]
  <2>1. wire[Peer(e)] \o [i \in 1..k |-> <<ctl[e].id, Parts[ctl[e].part]>>]
          \in Seq(Message \X {"type", "size", "body"})
    BY <1>7, <1>8, ConcatProperties DEF TypeOK
  <2> QED BY <1>1, <1>8, <2>1 DEF TypeOK
<1> QED BY <1>5, <1>9 DEF SendSome, TypeOK, Ctl

LEMMA RecvTypes ==
    ASSUME TypeOK, Positions, NEW e \in Side, RecvSome(e)
    PROVE  TypeOK' /\ Positions'
<1> DEFINE id == IF ctl[e].id = 0 THEN wire[e][1][1] ELSE ctl[e].id
<1>1. PICK k \in 1..Remaining(e) :
        /\ k <= Len(wire[e])
        /\ Becomes(e, Moved(e, k, id)) \/ Becomes(e, Rest("garbled"))
        /\ wire' = [wire EXCEPT ![e] = SubSeq(@, k + 1, Len(@))]
  BY DEF RecvSome, Becomes, Moved
<1>2. ctl[e] \in Ctl /\ Within(ctl[e]) /\ ctl[e].pc = "receiving"
  BY DEF TypeOK, Ctl, Positions, RecvSome
<1>3. wire[e] \in Seq(Message \X {"type", "size", "body"}) /\ wire[e] # <<>>
  BY DEF TypeOK, RecvSome
<1>4. id \in Message
  <2>1. wire[e][1] \in Message \X {"type", "size", "body"}
    BY <1>3
  <2> QED BY <1>2, <2>1 DEF Ctl
<1>5. Moved(e, k, id) \in Ctl /\ Within(Moved(e, k, id)) /\ k \in Nat
  <2>1. id = ctl[e].id \/ (ctl[e].pc = "receiving" /\ ctl[e].id = 0)
    BY <1>2
  <2> HIDE DEF id
  <2> QED BY <1>2, <1>4, <2>1, MovedWithin DEF Busy
<1>6. ctl' \in [Side -> Ctl] /\ Positions'
  BY <1>1, <1>5, Records, BecomesKeeps DEF RecvSome
<1>7. wire' \in [Side -> Seq(Message \X {"type", "size", "body"})]
  <2>1. SubSeq(wire[e], k + 1, Len(wire[e])) \in Seq(Message \X {"type", "size", "body"})
    BY <1>1, <1>3, <1>5
  <2> QED BY <1>1, <2>1 DEF TypeOK
<1> QED BY <1>6, <1>7 DEF RecvSome, TypeOK, Ctl

LEMMA AbortTypes ==
    ASSUME TypeOK, Positions, NEW e \in Side, Abort(e), UNCHANGED len
    PROVE  /\ ctl' \in [Side -> Ctl] /\ Positions'
           /\ open' \in [Side -> BOOLEAN] /\ failed' \in BOOLEAN
<1>1. Becomes(e, Rest("killed"))
  BY DEF Abort, Becomes
<1>2. open' \in [Side -> BOOLEAN] /\ failed' \in BOOLEAN
  BY DEF Abort, TypeOK
<1> QED BY <1>1, <1>2, Records, BecomesKeeps

LEMMA TypeStep ==
    ASSUME TypeOK, Positions, [Next]_vars
    PROVE  TypeOK' /\ Positions'
<1>1. ASSUME NEW e \in Side, SendFails(e) \/ BodyFails(e) PROVE TypeOK' /\ Positions'
  <2>1. Abort(e) \/ Fail(e)
    BY <1>1 DEF SendFails, BodyFails
  <2>2. UNCHANGED <<kind, len, wire, calls, served, answered>>
    BY <1>1 DEF SendFails, BodyFails
  <2> QED BY <2>1, <2>2, AbortTypes, FailTypes DEF TypeOK, Ctl
<1>2. ASSUME NEW e \in Side, RecvEof(e) PROVE TypeOK' /\ Positions'
  BY <1>2, FailTypes DEF RecvEof, TypeOK, Ctl
<1>3. ASSUME NEW e \in Side, Timeout(e) PROVE TypeOK' /\ Positions'
  BY <1>3, FailTypes DEF Timeout, TypeOK, Ctl
<1>4. ASSUME NEW e \in Side, NextPart(e) PROVE TypeOK' /\ Positions'
  <2>1. Becomes(e, Turned(e)) /\ Turned(e) \in Ctl /\ Within(Turned(e)) /\ UNCHANGED len
    BY <1>4, TurnedWithin DEF NextPart, Becomes, Turned, Busy
  <2>2. ctl' \in [Side -> Ctl] /\ Positions'
    BY <2>1, BecomesKeeps
  <2> QED BY <1>4, <2>2 DEF NextPart, TypeOK, Ctl
<1>5. CASE Call
  <2>1. calls + 1 \in Message /\ calls' \in 0..MaxCalls
    BY <1>5, ConnectionConstants DEF Call, Message, TypeOK
  <2>2. "client" \in Side /\ Becomes("client", Begin("sending", calls + 1)) /\ UNCHANGED len
    BY <1>5 DEF Call, Becomes, Side
  <2>3. ctl' \in [Side -> Ctl] /\ Positions'
    BY <2>1, <2>2, Records, BecomesKeeps
  <2> QED BY <1>5, <2>1, <2>3 DEF Call, TypeOK, Ctl
<1>6. CASE RequestSent
  <2>2. "client" \in Side /\ Becomes("client", Begin("receiving", 0)) /\ UNCHANGED len
    BY <1>6 DEF RequestSent, Becomes, Side
  <2>3. ctl' \in [Side -> Ctl] /\ Positions'
    BY <2>2, Records, BecomesKeeps
  <2> QED BY <1>6, <2>3 DEF RequestSent, TypeOK, Ctl
<1>7. CASE RequestReceived
  <2>1. "server" \in Side /\ ctl["server"].id \in Message
    BY <1>7, PartLengths DEF RequestReceived, InBody, Side, Busy, Positions
  <2>2. Becomes("server", Begin("sending", ctl["server"].id)) /\ UNCHANGED len
    BY <1>7 DEF RequestReceived, Becomes
  <2>3. ctl' \in [Side -> Ctl] /\ Positions'
    BY <2>1, <2>2, Records, BecomesKeeps
  <2>4. served' \in Seq(Message)
    BY <1>7, <2>1 DEF RequestReceived, TypeOK
  <2> QED BY <1>7, <2>3, <2>4 DEF RequestReceived, TypeOK, Ctl
<1>8. CASE ResponseSent
  <2>2. "server" \in Side /\ Becomes("server", Begin("receiving", 0)) /\ UNCHANGED len
    BY <1>8 DEF ResponseSent, Becomes, Side
  <2>3. ctl' \in [Side -> Ctl] /\ Positions'
    BY <2>2, Records, BecomesKeeps
  <2> QED BY <1>8, <2>3 DEF ResponseSent, TypeOK, Ctl
<1>9. CASE ResponseReceived
  <2>1. "client" \in Side /\ ctl["client"].id \in Message
    BY <1>9, PartLengths DEF ResponseReceived, InBody, Side, Busy, Positions
  <2>2. Becomes("client", Idle) /\ UNCHANGED len
    BY <1>9 DEF ResponseReceived, Becomes
  <2>3. ctl' \in [Side -> Ctl] /\ Positions'
    BY <2>1, <2>2, Records, BecomesKeeps
  <2>4. answered' \in Seq(Message)
    BY <1>9, <2>1 DEF ResponseReceived, TypeOK
  <2> QED BY <1>9, <2>3, <2>4 DEF ResponseReceived, TypeOK, Ctl
<1>10. CASE Leave
  <2>2. "client" \in Side /\ Becomes("client", Rest("closed")) /\ UNCHANGED len
    BY <1>10 DEF Leave, Becomes, Side
  <2>3. ctl' \in [Side -> Ctl] /\ Positions'
    BY <2>2, Records, BecomesKeeps
  <2> QED BY <1>10, <2>3 DEF Leave, TypeOK, Ctl
<1>11. CASE UNCHANGED vars
  BY <1>11 DEF vars, TypeOK, Positions, Within, Size
<1> QED
  BY <1>1, <1>2, <1>3, <1>4, <1>5, <1>6, <1>7, <1>8, <1>9, <1>10, <1>11, SendTypes, RecvTypes
  DEF Next, Progress, Step
-----------------------------------------------------------------------------
(* The protocol, as long as no call on a kept connection has failed.       *)

Agreed == InStep /\ ClientAt /\ ServerAt /\ Flow("client") /\ Flow("server")

\* Facts about sizes and sides that every step uses.
LEMMA Basics ==
    ASSUME TypeOK, Positions
    PROVE  /\ "client" \in Side /\ "server" \in Side
           /\ Peer("client") = "server" /\ Peer("server") = "client"
           /\ ctl["client"] \in Ctl /\ ctl["server"] \in Ctl
           /\ \A id \in Message : Total(id) \in Nat \ {0}
           /\ \A e \in Side : Done(e) \in Nat /\ Got(e) \in Nat
           /\ \A e \in Side : Len(wire[e]) \in Nat
           /\ Len(served) \in Nat /\ Len(answered) \in Nat /\ calls \in Nat
           /\ calls <= MaxCalls /\ MaxCalls \in Nat
           /\ open \in [Side -> BOOLEAN]
<1>1. \A id \in Message : Total(id) \in Nat \ {0}
  <2>1. \A id \in Message : len[id] \in Nat
    BY ConnectionConstants DEF TypeOK
  <2> QED BY <2>1, ConnectionConstants DEF Total
<1>2. \A e \in Side : Done(e) \in Nat /\ Got(e) \in Nat
  BY ConnectionConstants DEF Done, Got, Offset, TypeOK
<1>3. ctl["client"] \in Ctl /\ ctl["server"] \in Ctl
  BY DEF TypeOK, Ctl, Side
<1>4. \A e \in Side : Len(wire[e]) \in Nat
  BY DEF TypeOK
<1> QED BY <1>1, <1>2, <1>3, <1>4, ConnectionConstants DEF TypeOK, Side, Peer

\* A message is done at the end of a good body.
LEMMA AtEnd ==
    ASSUME TypeOK, Positions, NEW e \in Side, ctl[e].pc \in Busy, InBody(e), PartDone(e),
           GoodBody(e)
    PROVE  ctl[e].id \in Message /\ Done(e) = Total(ctl[e].id)
<1>1. ctl[e].n \in Nat /\ ctl[e].part = 3
  BY DEF TypeOK, InBody
<1>2. PartLength(e) = Size(3, ctl[e].id) /\ PartLength(e) \in Nat /\ ctl[e].id \in Message
  BY <1>1, PartLengths DEF Positions
<1>3. ctl[e].n = len[ctl[e].id]
  BY <1>1, <1>2 DEF PartDone, Remaining, Size
<1> QED BY <1>1, <1>2, <1>3 DEF Done, Total, Offset

\* What a side does, as far as the protocol goes: it stops for good, ...
Dies(e) ==
    /\ \E pc \in {"closed", "killed"} : Becomes(e, Rest(pc))
    /\ open' = [open EXCEPT ![e] = FALSE]
    /\ UNCHANGED <<len, wire, calls, served, answered>>

LEMMA DiesKeeps ==
    ASSUME TypeOK, Positions, Agreed, NEW e \in Side, Dies(e)
    PROVE  Agreed'
<1> USE Basics
<1>1. PICK pc \in {"closed", "killed"} : Becomes(e, Rest(pc))
  BY DEF Dies
<1>2. /\ ctl'[e] = Rest(pc) /\ \A f \in Side \ {e} : ctl'[f] = ctl[f]
      /\ open'[e] = FALSE /\ \A f \in Side \ {e} : open'[f] = open[f]
  BY <1>1 DEF Dies, Becomes, TypeOK
<1>3. /\ ctl'[e].pc = pc
      /\ \A f \in Side \ {e} : Done(f)' = Done(f) /\ Got(f)' = Got(f)
  BY <1>2 DEF Done, Got, Rest, Begin, At
<1>4. InStep'
  BY DEF Agreed, InStep, Dies
<1>5. \A id : Total(id)' = Total(id)
  BY DEF Total, Dies
<1>6. ClientAt'
  BY <1>2, <1>3, <1>5 DEF Agreed, ClientAt, Dies, Busy, Side
<1>7. ServerAt'
  BY <1>2, <1>3, <1>5 DEF Agreed, ServerAt, Dies, Busy, Side
<1>8. ASSUME NEW f \in Side PROVE Flow(f)'
  <2>1. CASE f = e
    BY <1>2, <2>1 DEF Flow
  <2>2. CASE f # e
    <3>1. Peer(f) = e /\ Flow(f)
      BY <2>2 DEF Peer, Side, Agreed
    <3>2. /\ Count(f)' = Count(f) /\ Supply(f)' = Supply(f) /\ wire'[f] = wire[f]
          /\ Got(f)' = Got(f) /\ open'[f] = open[f] /\ ~open'[Peer(f)]
      BY <1>2, <1>3, <2>2, <3>1 DEF Count, Supply, Dies
    <3> QED BY <1>5, <3>1, <3>2 DEF Flow, Byte
  <2> QED BY <2>1, <2>2
<1> QED BY <1>4, <1>6, <1>7, <1>8 DEF Agreed

\* ... or it goes on to the next part of its message, ...
LEMMA TurnsKeeps ==
    ASSUME TypeOK, Positions, Agreed, NEW e \in Side, NextPart(e)
    PROVE  Agreed'
<1> USE Basics
<1>1. /\ ctl' = [ctl EXCEPT ![e] = Turned(e)] /\ Offset(ctl[e].part + 1) = Done(e)
      /\ UNCHANGED <<len, open, wire, calls, served, answered>>
  BY TurnedWithin DEF NextPart, Turned, Busy
<1>2. ctl'[e] = Turned(e) /\ \A f \in Side \ {e} : ctl'[f] = ctl[f]
  BY <1>1 DEF TypeOK
<1>3. \A f \in Side : ctl'[f].pc = ctl[f].pc /\ ctl'[f].id = ctl[f].id
  BY <1>2 DEF Turned, At
<1>4. \A f \in Side : Done(f)' = Done(f)
  BY <1>1, <1>2 DEF Done, Turned, At
<1>5. \A f \in Side : Got(f)' = Got(f)
  BY <1>3, <1>4 DEF Got
<1>6. \A id : Total(id)' = Total(id)
  BY <1>1 DEF Total
<1>7. InStep'
  BY <1>1 DEF Agreed, InStep
<1>8. ClientAt' /\ ServerAt'
  BY <1>1, <1>3, <1>4, <1>6 DEF Agreed, ClientAt, ServerAt
<1>9. ASSUME NEW f \in Side PROVE Flow(f)'
  <2>1. Flow(f) /\ Peer(f) \in Side
    BY DEF Agreed, Side, Peer
  <2>2. Count(f)' = Count(f) /\ Supply(f)' = Supply(f) /\ Sent(f)' = Sent(f)
    BY <1>1, <1>3, <1>4, <1>6, <2>1 DEF Count, Supply, Sent
  <2> QED BY <1>1, <1>5, <1>6, <2>1, <2>2 DEF Flow, Byte
<1> QED BY <1>7, <1>8, <1>9 DEF Agreed

\* The bytes of a piece are those of the part it is cut from.
LEMMA PieceBytes ==
    ASSUME TypeOK, Positions, NEW e \in Side, ctl[e].pc \in Busy,
           NEW k \in 1..Remaining(e), NEW id \in Message,
           id = ctl[e].id \/ (ctl[e].pc = "receiving" /\ ctl[e].id = 0)
    PROVE  /\ k \in Nat \ {0} /\ Done(e) + k <= Total(id)
           /\ \A i \in 1..k : Byte(id, Done(e) + i) = <<id, Parts[ctl[e].part]>>
<1>1. ctl[e] \in Ctl /\ Within(ctl[e])
  BY DEF TypeOK, Ctl, Positions
<1>2. /\ PartLength(e) <= Size(ctl[e].part, ctl[e].id) /\ PartLength(e) \in Nat
      /\ Size(ctl[e].part, ctl[e].id) \in Nat
  BY <1>1, PartLengths
<1>3. k \in Nat \ {0} /\ ctl[e].n + k <= Size(ctl[e].part, ctl[e].id)
  BY <1>1, <1>2 DEF Remaining, Ctl
<1>4. ctl[e].id = 0 => ctl[e].part = 1
  BY <1>1, ConnectionConstants DEF Within, Offset, Ctl, Busy
<1>5. ctl[e].n \in Nat /\ ctl[e].n + k <= Size(ctl[e].part, id)
  BY <1>1, <1>3, <1>4 DEF Size, Ctl
<1>6. len[id] \in Nat /\ TypeBytes \in Nat /\ SizeBytes \in Nat
  BY ConnectionConstants DEF TypeOK
<1>7. CASE ctl[e].part = 1
  BY <1>3, <1>5, <1>6, <1>7 DEF Size, Done, Offset, Total, Byte, Parts
<1>8. CASE ctl[e].part = 2
  BY <1>3, <1>5, <1>6, <1>8, ConnectionConstants DEF Size, Done, Offset, Total, Byte, Parts
<1>9. CASE ctl[e].part = 3
  BY <1>3, <1>5, <1>6, <1>9, ConnectionConstants DEF Size, Done, Offset, Total, Byte, Parts
<1> QED BY <1>1, <1>7, <1>8, <1>9 DEF Ctl

\* A sender sends what its peer awaits next.
LEMMA SenderServes ==
    ASSUME TypeOK, Positions, Agreed, NEW e \in Side, ctl[e].pc = "sending",
           Done(e) # Total(ctl[e].id)
    PROVE  /\ ctl[e].id \in Message /\ open[e]
           /\ ctl[e].id = Count(Peer(e)) + 1 /\ Supply(Peer(e)) # Count(Peer(e))
<1> USE Basics
<1>1. ctl[e].id \in Message
  BY DEF TypeOK, Positions, Within
<1>2. CASE e = "client"
  <2>1. ctl[e].id = calls /\ Len(answered) + 1 = calls /\ open[e]
    BY <1>1, <1>2 DEF Agreed, ClientAt, Busy, Message
  <2>2. Len(served) # calls
    BY <1>2, <2>1 DEF Agreed, ClientAt
  <2>3. Count(Peer(e)) = Len(served) /\ Supply(Peer(e)) = calls
    BY <1>2 DEF Count, Supply
  <2> QED BY <1>1, <2>1, <2>2, <2>3 DEF Agreed, InStep
<1>3. CASE e = "server"
  <2>1. ctl[e].id = Len(served) /\ Len(answered) # Len(served) /\ open[e]
    BY <1>3 DEF Agreed, ServerAt, Busy
  <2>3. Count(Peer(e)) = Len(answered) /\ Supply(Peer(e)) = Len(served)
    BY <1>3 DEF Count, Supply
  <2> QED BY <1>1, <2>1, <2>3 DEF Agreed, InStep
<1> QED BY <1>2, <1>3 DEF Side

\* ... or it sends a piece, ...
LEMMA SendKeeps ==
    ASSUME TypeOK, Positions, Agreed, NEW e \in Side, SendSome(e)
    PROVE  Agreed'
<1> USE Basics
<1> DEFINE f == Peer(e)
<1>2. ctl[e].pc = "sending" /\ UNCHANGED <<len, open, calls, served, answered>>
  BY DEF SendSome
<1>3. PICK id \in Message : id = ctl[e].id
  BY <1>2 DEF TypeOK, Positions, Within
<1>1. PICK k \in 1..Remaining(e) :
        /\ ctl' = [ctl EXCEPT ![e] = Moved(e, k, id)]
        /\ IF open[f] THEN wire' = [wire EXCEPT ![f] = @ \o [i \in 1..k |-> <<id, Parts[ctl[e].part]>>]]
           ELSE wire' = wire
  BY <1>3 DEF SendSome, Moved
<1>4. /\ Done(e) + k <= Total(id) /\ k \in Nat \ {0}
      /\ \A i \in 1..k : Byte(id, Done(e) + i) = <<id, Parts[ctl[e].part]>>
  BY <1>2, <1>3, PieceBytes DEF Busy
<1>17. k \in Nat \ {0} /\ Done(e) \in Nat
  BY <1>4
<1>5. /\ open[e] /\ id = Count(f) + 1 /\ Supply(f) # Count(f)
      /\ f \in Side /\ f # e /\ Peer(f) = e
  <2>1. Done(e) # Total(id)
    BY <1>3, <1>4
  <2> QED BY <1>2, <1>3, <2>1, SenderServes DEF Side, Peer
<1>6. ctl'[e] = Moved(e, k, id) /\ ctl'[f] = ctl[f]
  BY <1>1, <1>5 DEF TypeOK
<1>7. /\ \A g \in Side : ctl'[g].pc = ctl[g].pc /\ ctl'[g].id = ctl[g].id
      /\ Done(e)' = Done(e) + k /\ Done(f)' = Done(f)
  <2>1. ctl'[e].pc = ctl[e].pc /\ ctl'[e].id = ctl[e].id
    BY <1>3, <1>6 DEF Moved, At
  <2>2. Done(e)' = Done(e) + k
    <3>1. ctl[e].n \in Nat /\ Offset(ctl[e].part) \in Nat
      BY ConnectionConstants DEF TypeOK, Offset
    <3>2. ctl'[e].part = ctl[e].part /\ ctl'[e].n = ctl[e].n + k
      BY <1>6 DEF Moved, At
    <3> QED BY <1>17, <3>1, <3>2, SMTT(30) DEF Done
  <2>3. Done(f)' = Done(f)
    BY <1>6 DEF Done
  <2>4. \A g \in Side : g = e \/ g = f
    BY <1>5 DEF Side
  <2> QED BY <1>6, <2>1, <2>2, <2>3, <2>4
<1>8. \A x : Total(x)' = Total(x)
  BY <1>2 DEF Total
<1>9. InStep'
  BY <1>2 DEF Agreed, InStep
<1>10. ClientAt'
  <2>1. CASE e = "client"
    <3>1. Len(served) # calls
      BY <1>5, <2>1 DEF Count, Supply
    <3> QED BY <1>2, <1>7, <2>1, <3>1 DEF Agreed, ClientAt
  <2>2. CASE e = "server"
    BY <1>2, <1>7, <1>8, <2>2 DEF Agreed, ClientAt
  <2> QED BY <2>1, <2>2 DEF Side
<1>11. ServerAt'
  <2>1. CASE e = "server"
    <3>1. Len(answered) # Len(served)
      BY <1>5, <2>1 DEF Count, Supply
    <3> QED BY <1>2, <1>7, <2>1, <3>1 DEF Agreed, ServerAt
  <2>2. CASE e = "client"
    BY <1>2, <1>7, <1>8, <2>2 DEF Agreed, ServerAt
  <2> QED BY <2>1, <2>2 DEF Side
<1>12. \A g \in Side : Got(g)' = Got(g) /\ Count(g)' = Count(g) /\ Supply(g)' = Supply(g)
  <2>1. \A g \in Side : Count(g)' = Count(g) /\ Supply(g)' = Supply(g)
    BY <1>2 DEF Count, Supply
  <2>2. Got(e)' = Got(e) /\ Got(f)' = Got(f)
    BY <1>2, <1>5, <1>7 DEF Got
  <2>3. \A g \in Side : g = e \/ g = f
    BY <1>5 DEF Side
  <2> QED BY <2>1, <2>2, <2>3
<1>13. Flow(e) /\ Flow(f)
  BY DEF Agreed, Side, Peer
<1>14. Flow(e)'
  <2>1. wire'[e] = wire[e]
    BY <1>1, <1>5 DEF TypeOK
  <2>2. Sent(e)' = Sent(e)
    BY <1>2, <1>5, <1>6, <1>7, <1>12 DEF Sent, Total
  <2> HIDE DEF f
  <2> QED BY <1>2, <1>8, <1>12, <1>13, <2>1, <2>2 DEF Flow, Byte
<1>15. Flow(f)'
  <2>1. CASE ~open[f]
    BY <1>2, <2>1 DEF Flow
  <2>2. CASE open[f]
    <3> DEFINE b == [i \in 1..k |-> <<id, Parts[ctl[e].part]>>]
    <3> DEFINE w == wire[f]
    <3>1. w \in Seq(Message \X {"type", "size", "body"})
      BY <1>5 DEF TypeOK
    <3>2. /\ b \in Seq(Message \X {"type", "size", "body"}) /\ Len(b) = k
          /\ \A i \in 1..k : b[i] = Byte(id, Done(e) + i)
      <4>1. Parts[ctl[e].part] \in {"type", "size", "body"}
        <5>1. ctl[e].part \in 1..3
          BY DEF TypeOK
        <5> QED BY <5>1 DEF Parts
      <4>2. b \in Seq(Message \X {"type", "size", "body"}) /\ Len(b) = k
        BY <1>3, <1>4, <4>1, SMTT(30)
      <4> QED BY <1>4, <4>2
    <3>3. wire'[f] = w \o b
      BY <1>1, <1>5, <2>2 DEF TypeOK
    <3>4. Got(f) + Len(w) = Done(e)
      BY <1>2, <1>5, <1>13, <2>2 DEF Flow, Sent
    <3> HIDE DEF b, w
    <3>5. /\ Len(w \o b) = Len(w) + k
          /\ \A i \in 1..Len(w) + k :
                (w \o b)[i] = IF i <= Len(w) THEN w[i] ELSE b[i - Len(w)]
      BY <1>4, <3>1, <3>2, ConcatProperties, ZenonT(30)
    <3>6. Len(w) \in Nat /\ Done(e) \in Nat /\ Got(f) \in Nat /\ Total(id) \in Nat
      BY <1>3, <1>5, <3>1
    <3>7. \A i \in 1..Len(w) + k : (w \o b)[i] = Byte(id, Got(f) + i)
      <4> SUFFICES ASSUME NEW i \in 1..Len(w) + k PROVE (w \o b)[i] = Byte(id, Got(f) + i)
        OBVIOUS
      <4>1. CASE i <= Len(w)
        <5>1. i \in 1..Len(w)
          BY <1>4, <3>6, <4>1
        <5>2. w[i] = Byte(id, Got(f) + i)
          BY <1>5, <1>13, <2>2, <5>1 DEF Flow, w
        <5> QED BY <3>5, <4>1, <5>2
      <4>2. CASE ~(i <= Len(w))
        <5>1. i - Len(w) \in 1..k /\ Done(e) + (i - Len(w)) = Got(f) + i
          <6>1. i \in Nat
            BY <1>17, <3>6
          <6>2. Len(w) + 1 <= i /\ i <= Len(w) + k
            BY <1>17, <3>6, <4>2, <6>1
          <6>3. i - Len(w) \in Nat /\ 1 <= i - Len(w) /\ i - Len(w) <= k
            BY <1>17, <3>6, <6>1, <6>2
          <6> QED BY <1>17, <3>4, <3>6, <6>1, <6>3
        <5> QED BY <3>2, <3>5, <4>2, <5>1
      <4> QED BY <4>1, <4>2
    <3>8. Sent(f)' = Done(e) + k
      BY <1>2, <1>5, <1>7 DEF Sent
    <3>9. Got(f) + Len(w \o b) = Done(e) + k /\ Done(e) + k <= Total(id)
      BY <1>4, <3>4, <3>5, <3>6
    <3>10. Count(f)' + 1 = id /\ Supply(f)' # Count(f)' /\ Got(f)' = Got(f) /\ Total(id)' = Total(id)
      BY <1>5, <1>8, <1>12
    <3>11. \A i \in 1..Len(w \o b) : (w \o b)[i] = Byte(id, Got(f) + i)
      BY <3>5, <3>7
    <3> HIDE DEF f
    <3> QED BY <3>3, <3>8, <3>9, <3>10, <3>11 DEF Flow, Byte
  <2> QED BY <2>1, <2>2
<1>16. Flow("client")' /\ Flow("server")'
  BY <1>5, <1>14, <1>15 DEF Side
<1> QED BY <1>9, <1>10, <1>11, <1>16 DEF Agreed

\* A receiver finds the next bytes of the message it awaits.
LEMMA ReceiverFinds ==
    ASSUME TypeOK, Positions, Agreed, NEW e \in Side, ctl[e].pc = "receiving", Got(e) # 0 \/ wire[e] # <<>>
    PROVE  /\ open[e] /\ Supply(e) # Count(e)
           /\ Count(e) + 1 \in Message /\ ctl[e].id \in {0, Count(e) + 1}
           /\ Got(e) = Done(e)
<1> USE Basics
<1>1. open[e] /\ Flow(e) /\ Got(e) = Done(e)
  BY DEF Agreed, ClientAt, ServerAt, Side, Busy, Got
<1>2. Supply(e) # Count(e)
  BY <1>1 DEF Flow
<1>3. CASE e = "client"
  BY <1>1, <1>2, <1>3 DEF Count, Supply, Agreed, InStep, ClientAt, Busy, Message
<1>4. CASE e = "server"
  BY <1>1, <1>2, <1>4 DEF Count, Supply, Agreed, InStep, ServerAt, Busy, Message
<1> QED BY <1>3, <1>4 DEF Side

\* ... or it takes a piece, ...
LEMMA RecvKeeps ==
    ASSUME TypeOK, Positions, Agreed, NEW e \in Side, RecvSome(e)
    PROVE  Agreed'
<1> USE Basics
<1> DEFINE f == Peer(e)
<1> DEFINE w == wire[e]
<1>1. /\ ctl[e].pc = "receiving" /\ w # <<>>
      /\ UNCHANGED <<len, open, calls, served, answered>>
  BY DEF RecvSome
<1>2. PICK id \in Message : id = Count(e) + 1
  BY <1>1, ReceiverFinds
<1>3. /\ open[e] /\ Supply(e) # Count(e) /\ ctl[e].id \in {0, id} /\ Got(e) = Done(e)
      /\ f \in Side /\ f # e /\ Peer(f) = e
  BY <1>1, <1>2, ReceiverFinds DEF Side, Peer
<1>4. w \in Seq(Message \X {"type", "size", "body"}) /\ Len(w) \in Nat \ {0}
  <2>1. w \in Seq(Message \X {"type", "size", "body"}) /\ w # <<>>
    BY <1>1 DEF TypeOK
  <2> HIDE DEF w
  <2> QED BY <2>1, EmptySeq
<1>5. Flow(e) /\ Flow(f)
  BY DEF Agreed, Side, Peer
<1>6. \A i \in 1..Len(w) : w[i] = Byte(id, Done(e) + i)
  BY <1>2, <1>3, <1>5 DEF Flow
<1>7. w[1][1] = id
  <2>1. w[1] = Byte(id, Done(e) + 1)
    BY <1>4, <1>6
  <2> QED BY <2>1 DEF Byte
<1>8. PICK k \in 1..Remaining(e) :
        /\ k <= Len(w)
        /\ wire' = [wire EXCEPT ![e] = SubSeq(@, k + 1, Len(@))]
        /\ ctl' = [ctl EXCEPT ![e] =
              IF \A i \in 1..k : w[i] = <<id, Parts[ctl[e].part]>>
              THEN At("receiving", id, ctl[e].part, ctl[e].n + k)
              ELSE Rest("garbled")]
  BY <1>2, <1>3, <1>7, ZenonT(30) DEF RecvSome
<1>9. /\ k \in Nat \ {0} /\ Done(e) + k <= Total(id)
      /\ \A i \in 1..k : Byte(id, Done(e) + i) = <<id, Parts[ctl[e].part]>>
  BY <1>1, <1>3, PieceBytes DEF Busy
<1>20. k \in Nat \ {0} /\ Done(e) \in Nat
  BY <1>9
<1>10. \A i \in 1..k : w[i] = <<id, Parts[ctl[e].part]>>
  <2>1. \A i \in 1..k : i \in 1..Len(w)
    BY <1>4, <1>8, <1>20
  <2> QED BY <1>6, <1>9, <2>1
<1>11. ctl'[e] = At("receiving", id, ctl[e].part, ctl[e].n + k) /\ ctl'[f] = ctl[f]
  BY <1>3, <1>8, <1>10 DEF TypeOK
<1>12. /\ ctl'[e].pc = "receiving" /\ ctl'[e].id = id
       /\ Done(e)' = Done(e) + k /\ Done(f)' = Done(f)
  <2>1. ctl'[e].pc = "receiving" /\ ctl'[e].id = id
    BY <1>11 DEF At
  <2>2. Done(e)' = Done(e) + k
    <3>1. ctl[e].n \in Nat /\ Offset(ctl[e].part) \in Nat
      BY ConnectionConstants DEF TypeOK, Offset
    <3>2. ctl'[e].part = ctl[e].part /\ ctl'[e].n = ctl[e].n + k
      BY <1>11 DEF At
    <3> QED BY <1>20, <3>1, <3>2, SMTT(30) DEF Done
  <2> QED BY <1>11, <2>1, <2>2 DEF Done
<1>13. \A x : Total(x)' = Total(x)
  BY <1>1 DEF Total
<1>14. \A g \in Side : Count(g)' = Count(g) /\ Supply(g)' = Supply(g)
  BY <1>1 DEF Count, Supply
<1>15. InStep'
  BY <1>1 DEF Agreed, InStep
<1>16. ClientAt' /\ ServerAt'
  <2>1. CASE e = "client"
    <3>1. id = calls
      BY <1>2, <1>1, <2>1 DEF Count, Agreed, ClientAt, Busy
    <3> QED BY <1>1, <1>11, <1>12, <1>13, <2>1, <3>1 DEF Agreed, ClientAt, ServerAt, Busy
  <2>2. CASE e = "server"
    BY <1>1, <1>2, <1>11, <1>12, <1>13, <2>2 DEF Agreed, ClientAt, ServerAt, Busy, Count
  <2> QED BY <2>1, <2>2 DEF Side
<1>17. Flow(f)'
  <2>1. wire'[f] = wire[f] /\ Got(f)' = Got(f)
    BY <1>3, <1>8, <1>11, <1>12 DEF TypeOK, Got
  <2>2. Sent(f)' = Sent(f)
    BY <1>1, <1>3, <1>12, <1>13, <1>14 DEF Sent, Total
  <2> HIDE DEF f, w
  <2> QED BY <1>1, <1>3, <1>5, <1>13, <1>14, <2>1, <2>2 DEF Flow, Byte
<1>18. Flow(e)'
  <2> DEFINE v == SubSeq(w, k + 1, Len(w))
  <2>1. wire'[e] = v
    BY <1>8 DEF TypeOK
  <2>2. k + 1 \in Nat /\ Len(w) \in Nat /\ Len(w) - k \in Nat
    BY <1>4, <1>8, <1>9
  <2> HIDE DEF w
  <2>3. Len(v) = Len(w) - k /\ \A i \in 1..Len(w) - k : v[i] = w[k + i]
    <3>1. \A i \in k+1..Len(w) : i \in 1..Len(w)
      BY <1>20, <2>2
    <3>2. /\ Len(v) = (IF k + 1 <= Len(w) THEN Len(w) - (k + 1) + 1 ELSE 0)
          /\ \A i \in 1..Len(w) - (k + 1) + 1 : v[i] = w[(k + 1) + i - 1]
      BY <1>4, <1>20, <2>2, <3>1, SubSeqProperties
    <3>3. Len(w) - (k + 1) + 1 = Len(w) - k
      BY <1>20, <2>2
    <3>4. Len(v) = Len(w) - k
      BY <1>20, <2>2, <3>2
    <3>5. \A i \in 1..Len(w) - k : (k + 1) + i - 1 = k + i
      BY <1>20, <2>2
    <3> HIDE DEF v
    <3> QED BY <3>2, <3>3, <3>4, <3>5
  <2>4. Got(e)' = Done(e) + k
    BY <1>12 DEF Got
  <2>5. \A i \in 1..Len(v) : v[i] = Byte(id, Got(e)' + i)
    <3> SUFFICES ASSUME NEW i \in 1..Len(w) - k PROVE v[i] = Byte(id, Got(e)' + i)
      BY <2>3
    <3>1. k + i \in 1..Len(w) /\ Done(e) + (k + i) = Got(e)' + i
      BY <1>20, <2>2, <2>4
    <3> QED BY <1>6, <2>3, <3>1
  <2>6. Got(e)' + Len(v) = Got(e) + Len(w)
    <3>1. Got(e) = Done(e) /\ Len(v) = Len(w) - k
      BY <1>3, <2>3
    <3> HIDE DEF v
    <3> QED BY <1>20, <2>2, <2>4, <3>1
  <2>7. /\ Got(e) + Len(w) <= Total(id)
        /\ open[Peer(e)] => Got(e) + Len(w) = Sent(e)
    BY <1>2, <1>3, <1>5 DEF Flow, w
  <2>8. Sent(e)' = Sent(e)
    BY <1>1, <1>3, <1>11, <1>12, <1>14 DEF Sent, Total
  <2>9. Count(e)' + 1 = id /\ Supply(e)' # Count(e)' /\ Total(id)' = Total(id)
    BY <1>2, <1>3, <1>13, <1>14
  <2> HIDE DEF f, v
  <2> QED BY <1>1, <2>1, <2>5, <2>6, <2>7, <2>8, <2>9 DEF Flow, Byte
<1>19. Flow("client")' /\ Flow("server")'
  BY <1>3, <1>17, <1>18 DEF Side
<1> QED BY <1>15, <1>16, <1>19 DEF Agreed

\* ... or it goes on to the next message. At the end of a message both sides
\* have all of it and nothing is on the way.
LEMMA CallKeeps ==
    ASSUME TypeOK, Positions, Agreed, Call
    PROVE  Agreed'
<1> USE Basics
<1>1. /\ ctl["client"].pc = "idle" /\ calls' = calls + 1 /\ calls + 1 \in Message
      /\ UNCHANGED <<len, open, wire, served, answered>>
  BY DEF Call, Message
<1>2. ctl'["client"] = Begin("sending", calls + 1) /\ ctl'["server"] = ctl["server"]
  BY DEF Call, TypeOK
<1>3. /\ ctl'["client"].pc = "sending" /\ ctl'["client"].id = calls + 1
      /\ Done("client")' = 0 /\ Done("server")' = Done("server")
      /\ Got("client")' = 0 /\ Got("server")' = Got("server") /\ Got("client") = 0
  BY <1>1, <1>2 DEF Done, Got, Begin, At, Offset
<1>4. Len(answered) = calls /\ Len(served) = calls
  BY <1>1 DEF Agreed, InStep, ClientAt
<1>5. \A x : Total(x)' = Total(x)
  BY <1>1 DEF Total
<1>6. InStep'
  BY <1>1, <1>4 DEF Agreed, InStep
<1>7. ClientAt' /\ ServerAt'
  BY <1>1, <1>2, <1>3, <1>4, <1>5 DEF Agreed, ClientAt, ServerAt, Busy
<1>8. Flow("client")'
  <2>1. Supply("client")' = Count("client")' /\ Supply("client") = Count("client")
    BY <1>1, <1>4 DEF Count, Supply
  <2> QED BY <1>1, <1>3, <2>1 DEF Flow, Agreed
<1>9. Flow("server")'
  <2>1. Supply("server") = Count("server") /\ Count("server")' = calls /\ Supply("server")' = calls + 1
    BY <1>1, <1>4 DEF Count, Supply
  <2>2. Supply("server")' # Count("server")'
    BY <2>1
  <2>3. Sent("server")' = 0
    BY <1>3 DEF Sent
  <2>4. open["server"] => Got("server")' = 0 /\ wire'["server"] = <<>>
    BY <1>1, <1>3, <2>1 DEF Flow, Agreed
  <2>5. Total(calls + 1) >= 0 /\ Len(<<>>) = 0
    BY <1>1
  <2> QED BY <1>1, <1>5, <2>1, <2>2, <2>3, <2>4, <2>5 DEF Flow
<1> QED BY <1>6, <1>7, <1>8, <1>9 DEF Agreed

LEMMA RequestSentKeeps ==
    ASSUME TypeOK, Positions, Agreed, RequestSent
    PROVE  Agreed'
<1> USE Basics
<1>1. /\ ctl["client"].pc = "sending" /\ InBody("client") /\ PartDone("client") /\ GoodBody("client")
      /\ UNCHANGED <<len, open, wire, calls, served, answered>>
  BY DEF RequestSent
<1>2. ctl'["client"] = Begin("receiving", 0) /\ ctl'["server"] = ctl["server"]
  BY DEF RequestSent, TypeOK
<1>3. /\ ctl'["client"].pc = "receiving" /\ ctl'["client"].id = 0
      /\ Done("server")' = Done("server")
      /\ Got("client")' = 0 /\ Got("server")' = Got("server") /\ Got("client") = 0
  BY <1>1, <1>2 DEF Done, Got, Begin, At, Offset
<1>4. Done("client") = Total(calls) /\ Len(answered) + 1 = calls
  <2>1. ctl["client"].id \in Message /\ Done("client") = Total(ctl["client"].id)
    BY <1>1, AtEnd DEF Busy
  <2> QED BY <1>1, <2>1 DEF Agreed, ClientAt, Busy, Message
<1>5. \A x : Total(x)' = Total(x)
  BY <1>1 DEF Total
<1>6. InStep'
  BY <1>1 DEF Agreed, InStep
<1>7. ClientAt' /\ ServerAt'
  BY <1>1, <1>2, <1>3, <1>4, <1>5 DEF Agreed, ClientAt, ServerAt, Busy
<1>8. \A g \in Side : Count(g)' = Count(g) /\ Supply(g)' = Supply(g)
  BY <1>1 DEF Count, Supply
<1>9. Flow("client")'
  <2>1. Sent("client")' = Sent("client")
    BY <1>1, <1>2, <1>3, <1>8 DEF Sent, Total
  <2> QED BY <1>1, <1>3, <1>5, <1>8, <2>1 DEF Flow, Agreed, Byte
<1>10. Flow("server")'
  <2>1. Supply("server") # Count("server") => Sent("server")' = Sent("server")
    <3>1. Supply("server") # Count("server") => Count("server") + 1 = calls
      BY <1>4 DEF Supply, Count, Agreed, InStep
    <3>2. Sent("server") = Total(calls)
      BY <1>1, <1>4 DEF Sent
    <3>3. Sent("server")' = Total(Count("server") + 1)
      BY <1>3, <1>5, <1>8 DEF Sent
    <3> QED BY <3>1, <3>2, <3>3
  <2> QED BY <1>1, <1>3, <1>5, <1>8, <2>1 DEF Flow, Agreed, Byte
<1> QED BY <1>6, <1>7, <1>9, <1>10 DEF Agreed

LEMMA ResponseSentKeeps ==
    ASSUME TypeOK, Positions, Agreed, ResponseSent
    PROVE  Agreed'
<1> USE Basics
<1>1. /\ ctl["server"].pc = "sending" /\ InBody("server") /\ PartDone("server") /\ GoodBody("server")
      /\ UNCHANGED <<len, open, wire, calls, served, answered>>
  BY DEF ResponseSent
<1>2. ctl'["server"] = Begin("receiving", 0) /\ ctl'["client"] = ctl["client"]
  BY DEF ResponseSent, TypeOK
<1>3. /\ ctl'["server"].pc = "receiving" /\ ctl'["server"].id = 0
      /\ Done("client")' = Done("client")
      /\ Got("server")' = 0 /\ Got("client")' = Got("client") /\ Got("server") = 0
  BY <1>1, <1>2 DEF Done, Got, Begin, At, Offset
<1>4. Done("server") = Total(Len(served))
  <2>1. ctl["server"].id \in Message /\ Done("server") = Total(ctl["server"].id)
    BY <1>1, AtEnd DEF Busy
  <2> QED BY <1>1, <2>1 DEF Agreed, ServerAt, Busy
<1>5. \A x : Total(x)' = Total(x)
  BY <1>1 DEF Total
<1>6. InStep'
  BY <1>1 DEF Agreed, InStep
<1>7. ClientAt' /\ ServerAt'
  BY <1>1, <1>2, <1>3, <1>4, <1>5 DEF Agreed, ClientAt, ServerAt, Busy
<1>8. \A g \in Side : Count(g)' = Count(g) /\ Supply(g)' = Supply(g)
  BY <1>1 DEF Count, Supply
<1>9. Flow("server")'
  <2>1. Sent("server")' = Sent("server")
    BY <1>1, <1>2, <1>3, <1>8 DEF Sent, Total
  <2> QED BY <1>1, <1>3, <1>5, <1>8, <2>1 DEF Flow, Agreed, Byte
<1>10. Flow("client")'
  <2>1. Supply("client") # Count("client") => Sent("client")' = Sent("client")
    <3>1. Supply("client") # Count("client") => Count("client") + 1 = Len(served)
      BY <1>4 DEF Supply, Count, Agreed, InStep
    <3>2. Sent("client") = Total(Len(served))
      BY <1>1, <1>4 DEF Sent
    <3>3. Sent("client")' = Total(Count("client") + 1)
      BY <1>3, <1>5, <1>8 DEF Sent
    <3> QED BY <3>1, <3>2, <3>3
  <2> QED BY <1>1, <1>3, <1>5, <1>8, <2>1 DEF Flow, Agreed, Byte
<1> QED BY <1>6, <1>7, <1>9, <1>10 DEF Agreed

\* A side that has a whole message has emptied the wire, and its peer has
\* sent all of it.
LEMMA ReceivedAll ==
    ASSUME TypeOK, Positions, Agreed, NEW e \in Side, ctl[e].pc = "receiving",
           InBody(e), PartDone(e), GoodBody(e)
    PROVE  /\ ctl[e].id = Count(e) + 1 /\ ctl[e].id \in Message
           /\ Supply(e) # Count(e) /\ open[e] /\ wire[e] = <<>>
           /\ open[Peer(e)] => Sent(e) = Total(Count(e) + 1)
<1> USE Basics
<1>1. ctl[e].id \in Message /\ Done(e) = Total(ctl[e].id) /\ ctl[e].id # 0
  BY AtEnd DEF Busy, Message
<1>2. Got(e) = Total(ctl[e].id) /\ Got(e) # 0
  BY <1>1 DEF Got
<1>3. /\ ctl[e].id = Count(e) + 1 /\ open[e] /\ Supply(e) # Count(e)
  BY <1>1, <1>2, ReceiverFinds
<1>4. Flow(e)
  BY DEF Agreed, Side
<1>5. Len(wire[e]) = 0
  BY <1>1, <1>2, <1>3, <1>4 DEF Flow
<1>6. wire[e] = <<>>
  BY <1>5, EmptySeq DEF TypeOK
<1> QED BY <1>1, <1>2, <1>3, <1>4, <1>5, <1>6 DEF Flow

LEMMA RequestReceivedKeeps ==
    ASSUME TypeOK, Positions, Agreed, RequestReceived
    PROVE  Agreed'
<1> USE Basics
<1>1. /\ ctl["server"].pc = "receiving" /\ InBody("server") /\ PartDone("server") /\ GoodBody("server")
      /\ served' = Append(served, ctl["server"].id)
      /\ UNCHANGED <<len, open, wire, calls, answered>>
  BY DEF RequestReceived
<1>2. /\ ctl'["server"] = Begin("sending", ctl["server"].id) /\ ctl'["client"] = ctl["client"]
  BY DEF RequestReceived, TypeOK
<1>3. PICK m \in Nat : m = Len(served)
  OBVIOUS
<1>4. /\ ctl["server"].id = m + 1 /\ m + 1 \in Message /\ calls # m /\ open["server"]
      /\ wire["server"] = <<>>
      /\ open["client"] => Sent("server") = Total(m + 1)
  BY <1>1, <1>3, ReceivedAll DEF Count, Supply
<1>5. calls = m + 1 /\ Len(answered) = m
  BY <1>3, <1>4 DEF Agreed, InStep
<1>6. Len(served') = m + 1 /\ served'[m + 1] = m + 1 /\ \A i \in 1..m : served'[i] = served[i]
  BY <1>1, <1>3, <1>4 DEF TypeOK
<1>7. /\ ctl'["server"].pc = "sending" /\ ctl'["server"].id = m + 1
      /\ Done("server")' = 0 /\ Done("client")' = Done("client")
      /\ Got("server")' = 0 /\ Got("client")' = Got("client")
  BY <1>2, <1>4 DEF Done, Got, Begin, At, Offset
<1>8. \A x : Total(x)' = Total(x)
  BY <1>1 DEF Total
<1>9. InStep'
  <2>1. \A i \in 1..m + 1 : i \in 1..m \/ i = m + 1
    OBVIOUS
  <2> QED BY <1>1, <1>3, <1>5, <1>6, <2>1 DEF Agreed, InStep
<1>10. ClientAt'
  <2>1. ctl["client"].pc = "sending" => Done("client") = Total(m + 1)
    BY <1>4 DEF Sent, Agreed, ClientAt, Busy
  <2> QED BY <1>1, <1>2, <1>5, <1>7, <1>8, <2>1 DEF Agreed, ClientAt
<1>11. ServerAt'
  BY <1>1, <1>4, <1>5, <1>6, <1>7 DEF ServerAt, Busy
<1>12. Flow("server")'
  BY <1>1, <1>4, <1>5, <1>6, <1>7 DEF Flow, Count, Supply
<1>13. Flow("client")'
  <2>1. /\ Supply("client") = Count("client") /\ Count("client")' = m /\ Supply("client")' = m + 1
    BY <1>1, <1>3, <1>5, <1>6 DEF Count, Supply
  <2>2. Supply("client")' # Count("client")'
    BY <2>1
  <2>3. Sent("client")' = 0
    BY <1>7 DEF Sent
  <2>4. open["client"] => Got("client")' = 0 /\ wire'["client"] = <<>>
    BY <1>1, <1>7, <2>1 DEF Flow, Agreed
  <2>5. Total(m + 1) >= 0 /\ Len(<<>>) = 0
    BY <1>4
  <2> QED BY <1>1, <1>8, <2>1, <2>2, <2>3, <2>4, <2>5 DEF Flow
<1> QED BY <1>9, <1>10, <1>11, <1>12, <1>13 DEF Agreed

LEMMA ResponseReceivedKeeps ==
    ASSUME TypeOK, Positions, Agreed, ResponseReceived
    PROVE  Agreed'
<1> USE Basics
<1>1. /\ ctl["client"].pc = "receiving" /\ InBody("client") /\ PartDone("client") /\ GoodBody("client")
      /\ answered' = Append(answered, ctl["client"].id)
      /\ UNCHANGED <<len, open, wire, calls, served>>
  BY DEF ResponseReceived
<1>2. ctl'["client"] = Idle /\ ctl'["server"] = ctl["server"]
  BY DEF ResponseReceived, TypeOK
<1>3. PICK a \in Nat : a = Len(answered)
  OBVIOUS
<1>4. /\ ctl["client"].id = a + 1 /\ a + 1 \in Message /\ Len(served) # a /\ open["client"]
      /\ wire["client"] = <<>>
      /\ open["server"] => Sent("client") = Total(a + 1)
  BY <1>1, <1>3, ReceivedAll DEF Count, Supply
<1>5. calls = a + 1 /\ Len(served) = a + 1
  BY <1>3, <1>4 DEF Agreed, InStep
<1>6. Len(answered') = a + 1 /\ answered'[a + 1] = a + 1 /\ \A i \in 1..a : answered'[i] = answered[i]
  BY <1>1, <1>3, <1>4 DEF TypeOK
<1>7. /\ ctl'["client"].pc = "idle" /\ Done("server")' = Done("server")
      /\ Got("client")' = 0 /\ Got("server")' = Got("server")
  BY <1>2, <1>4 DEF Done, Got, Idle, Rest, Begin, At
<1>8. \A x : Total(x)' = Total(x)
  BY <1>1 DEF Total
<1>9. InStep'
  <2>1. \A i \in 1..a + 1 : i \in 1..a \/ i = a + 1
    OBVIOUS
  <2> QED BY <1>1, <1>3, <1>5, <1>6, <2>1 DEF Agreed, InStep
<1>10. ClientAt'
  BY <1>1, <1>4, <1>5, <1>6, <1>7 DEF ClientAt, Busy
<1>11. ServerAt'
  <2>1. ctl["server"].pc = "sending" => Done("server") = Total(a + 1)
    BY <1>4 DEF Sent, Agreed, ServerAt, Busy
  <2> QED BY <1>1, <1>2, <1>5, <1>7, <1>8, <2>1 DEF Agreed, ServerAt
<1>12. Flow("client")'
  BY <1>1, <1>4, <1>5, <1>6, <1>7 DEF Flow, Count, Supply
<1>13. Flow("server")'
  <2>1. Supply("server") = Count("server") /\ Count("server")' = Count("server") /\ Supply("server")' = Supply("server")
    BY <1>1, <1>5 DEF Count, Supply
  <2> QED BY <1>1, <1>7, <2>1 DEF Flow, Agreed
<1> QED BY <1>9, <1>10, <1>11, <1>12, <1>13 DEF Agreed

-----------------------------------------------------------------------------
(* Invariance.                                                             *)

LEMMA ProtocolIsAgreed == Protocol <=> (~failed => Agreed)
  BY DEF Protocol, Agreed, Side

LEMMA InitProtocol == Init => Protocol
<1> SUFFICES ASSUME Init PROVE Agreed
  BY ProtocolIsAgreed
<1>1. /\ ctl["client"].pc = "idle" /\ ctl["server"].pc = "receiving" /\ ctl["server"].id = 0
      /\ Got("client") = 0 /\ Got("server") = 0
  BY DEF Init, Idle, Rest, Begin, At, Got, Done, Offset
<1>2. Len(served) = 0 /\ Len(answered) = 0 /\ calls = 0
  BY DEF Init
<1>3. InStep /\ ClientAt /\ ServerAt
  BY <1>1, <1>2 DEF InStep, ClientAt, ServerAt, Init, Side, Busy
<1>4. Flow("client") /\ Flow("server")
  BY <1>1, <1>2 DEF Flow, Count, Supply, Init, Side
<1> QED BY <1>3, <1>4 DEF Agreed

LEMMA ProtocolStep ==
    ASSUME TypeOK, Positions, Protocol, [Next]_vars
    PROVE  Protocol'
<1> SUFFICES ASSUME ~failed' PROVE Agreed'
  BY DEF Protocol, Agreed, Side
<1>1. ASSUME NEW e \in Side, Fail(e)
      PROVE  /\ ~failed /\ open' = [open EXCEPT ![e] = FALSE]
             /\ \E pc \in {"closed", "killed"} : Becomes(e, Rest(pc))
  BY <1>1 DEF Fail, Becomes
<1>2. ASSUME NEW e \in Side, SendFails(e) \/ BodyFails(e) \/ RecvEof(e) \/ Timeout(e)
      PROVE  Agreed'
  <2>1. Abort(e) \/ Fail(e)
    BY <1>2 DEF SendFails, BodyFails, RecvEof, Timeout
  <2>2. UNCHANGED <<len, wire, calls, served, answered>>
    BY <1>2 DEF SendFails, BodyFails, RecvEof, Timeout
  <2>3. ~failed /\ Dies(e)
    <3>1. CASE Abort(e)
      BY <2>2, <3>1 DEF Abort, Dies, Becomes
    <3>2. CASE Fail(e)
      BY <2>2, <3>2, <1>1 DEF Dies
    <3> QED BY <2>1, <3>1, <3>2
  <2> QED BY <2>3, DiesKeeps, ProtocolIsAgreed
<1>3. CASE Leave
  <2>1. "client" \in Side /\ ~failed /\ Dies("client")
    BY <1>3 DEF Leave, Dies, Becomes, Side
  <2> QED BY <2>1, DiesKeeps, ProtocolIsAgreed
<1>4. ASSUME NEW e \in Side, SendSome(e) \/ RecvSome(e) \/ NextPart(e) PROVE Agreed'
  <2>1. Agreed
    BY <1>4, ProtocolIsAgreed DEF SendSome, RecvSome, NextPart
  <2> QED BY <1>4, <2>1, SendKeeps, RecvKeeps, TurnsKeeps
<1>5. CASE Call \/ RequestSent \/ RequestReceived \/ ResponseSent \/ ResponseReceived
  <2>1. Agreed
    BY <1>5, ProtocolIsAgreed
    DEF Call, RequestSent, RequestReceived, ResponseSent, ResponseReceived
  <2> QED BY <1>5, <2>1, CallKeeps, RequestSentKeeps, RequestReceivedKeeps,
             ResponseSentKeeps, ResponseReceivedKeeps
<1>6. CASE UNCHANGED vars
  <2>1. Agreed
    BY <1>6, ProtocolIsAgreed DEF vars
  <2> QED BY <1>6, <2>1 DEF vars, Agreed, InStep, ClientAt, ServerAt, Flow, Count, Supply,
             Got, Sent, Done, Total, Byte
<1> QED BY <1>2, <1>3, <1>4, <1>5, <1>6 DEF Next, Progress, Step

LEMMA Invariance == Spec => []IInv
<1>1. Init => IInv
  BY InitTypes, InitProtocol DEF IInv
<1>2. IInv /\ [Next]_vars => IInv'
  BY TypeStep, ProtocolStep DEF IInv
<1> QED BY <1>1, <1>2, PTL DEF Spec

\* The state of the two message loops stays in its types, failures or not.
THEOREM TypeCorrect == Spec => []TypeOK
<1>1. IInv => TypeOK
  BY DEF IInv
<1> QED BY <1>1, Invariance, PTL

\* However send and recv cut the stream of bytes, neither side reads a
\* message as another, unless the client goes on using a connection on which
\* a call has failed half way.
THEOREM Framing == Spec => []NeverGarbled
<1>1. IInv => NeverGarbled
  BY DEF IInv, Protocol, ClientAt, ServerAt, NeverGarbled, Side, Busy
<1> QED BY <1>1, Invariance, PTL

\* The n-th answer is the answer to the n-th request, which the server has
\* received once.
THEOREM Matching == Spec => []AnswersMatchCalls
<1>1. IInv => AnswersMatchCalls
  <2> SUFFICES ASSUME IInv, ~failed PROVE AnswersMatchCalls
    BY DEF AnswersMatchCalls
  <2>1. DOMAIN served = 1..Len(served) /\ DOMAIN answered = 1..Len(answered)
    BY DEF IInv, TypeOK
  <2> QED BY <2>1 DEF IInv, Protocol, InStep, AnswersMatchCalls
<1> QED BY <1>1, Invariance, PTL
=============================================================================
