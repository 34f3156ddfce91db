--------------------------- MODULE ClientCommands ---------------------------
(***************************************************************************)
(* The client's command line (repl/repl.cpp and the commands of client/):  *)
(* a line is split at blanks into words, the first names the command, and  *)
(* the command's handler checks the others before it calls the client.     *)
(* A value is a sequence of words and blanks.  A line that is refused,     *)
(* with a message to the user, calls nothing.                              *)
(***************************************************************************)
EXTENDS Integers, Sequences

Blank == " "
Refused == [op |-> "none", keys |-> <<>>, vals |-> <<>>]
Call(op, keys, vals) == [op |-> op, keys |-> keys, vals |-> vals]

GetCommand(t)    == IF Len(t) # 1 THEN Refused ELSE Call("Get", t, <<>>)
DeleteCommand(t) == IF Len(t) # 1 THEN Refused ELSE Call("Delete", t, <<>>)
AppendCommand(t) == IF Len(t) # 2 THEN Refused ELSE Call("Append", <<t[1]>>, <<<<t[2]>>>>)

\* Every word of the value is stored with a blank after it, the last one too.
PutCommand(t) ==
    IF Len(t) < 2 THEN Refused
    ELSE Call("Put", <<t[1]>>,
              <<[i \in 1..2 * (Len(t) - 1) |-> IF i % 2 = 1 THEN t[1 + (i + 1) \div 2] ELSE Blank]>>)

MultiGetCommand(t) == IF Len(t) < 1 THEN Refused ELSE Call("MultiGet", t, <<>>)

\* Keys and values alternate.
MultiPutCommand(t) ==
    IF Len(t) < 2 \/ Len(t) % 2 # 0 THEN Refused
    ELSE Call("MultiPut", [i \in 1..Len(t) \div 2 |-> t[2 * i - 1]],
                          [i \in 1..Len(t) \div 2 |-> <<t[2 * i]>>])

process_line(line) ==
    IF line = <<>> THEN Refused
    ELSE CASE line[1] = "get"      -> GetCommand(Tail(line))
           [] line[1] = "put"      -> PutCommand(Tail(line))
           [] line[1] = "append"   -> AppendCommand(Tail(line))
           [] line[1] = "delete"   -> DeleteCommand(Tail(line))
           [] line[1] = "multiget" -> MultiGetCommand(Tail(line))
           [] line[1] = "multiput" -> MultiPutCommand(Tail(line))
           [] OTHER                -> Refused
=============================================================================
