---------------------------- MODULE ProcessMemory ----------------------------
(***************************************************************************)
(* What the WeensyOS kernel promises its processes about memory, without   *)
(* pages, reference counts or page tables: every live process has a memory *)
(* of its own.  Only the running process changes a memory, only its own,   *)
(* and never its read-only part; allocating an address gives a zeroed page *)
(* there that can be written; a child starts with a copy of its parent's   *)
(* memory.  A restart of the machine ends every process.                   *)
(***************************************************************************)
CONSTANTS Pids,      \* process slots
          UserVA,    \* page-sized virtual addresses of a program
          ReadOnly,  \* the addresses of a loaded program that it cannot write
          Value,     \* what a page can hold
          Zero,      \* the content of a fresh heap page
          Image,     \* [UserVA -> Value \cup {Absent}], a loaded program
          Absent     \* nothing is mapped there

VARIABLES view,      \* the memory of each process
          fixed,     \* the addresses each process cannot write
          live,      \* the processes that exist
          current    \* the process that runs

vars == <<view, fixed, live, current>>

Nothing == [va \in UserVA |-> Absent]

Init ==
    /\ view = [p \in Pids |-> Nothing]
    /\ fixed = [p \in Pids |-> {}]
    /\ live = {}
    /\ current \in Pids

\* The kernel creates a process from a program image.
Start(p) ==
    /\ p \notin live
    /\ live' = live \cup {p}
    /\ view' = [view EXCEPT ![p] = Image]
    /\ fixed' = [fixed EXCEPT ![p] = ReadOnly]
    /\ UNCHANGED current

Store(va, v) ==
    /\ current \in live
    /\ va \notin fixed[current] /\ view[current][va] # Absent
    /\ view' = [view EXCEPT ![current][va] = v]
    /\ UNCHANGED <<fixed, live, current>>

Allocate(va) ==
    /\ current \in live
    /\ view' = [view EXCEPT ![current][va] = Zero]
    /\ fixed' = [fixed EXCEPT ![current] = @ \ {va}]
    /\ UNCHANGED <<live, current>>

Fork(child) ==
    /\ current \in live /\ child \notin live
    /\ live' = live \cup {child}
    /\ view' = [view EXCEPT ![child] = view[current]]
    /\ fixed' = [fixed EXCEPT ![child] = fixed[current]]
    /\ UNCHANGED current

Exit ==
    /\ current \in live
    /\ live' = live \ {current}
    /\ view' = [view EXCEPT ![current] = Nothing]
    /\ fixed' = [fixed EXCEPT ![current] = {}]
    /\ UNCHANGED current

\* Only a live process is ever given the processor.
Switch(p) ==
    /\ p \in live
    /\ current' = p
    /\ UNCHANGED <<view, fixed, live>>

\* The machine is restarted, and every process is gone.
Restart ==
    /\ live' = {}
    /\ view' = [p \in Pids |-> Nothing]
    /\ fixed' = [p \in Pids |-> {}]
    /\ current' \in Pids

Next ==
    \/ \E p \in Pids : Start(p) \/ Fork(p) \/ Switch(p)
    \/ \E va \in UserVA : Allocate(va) \/ \E v \in Value : Store(va, v)
    \/ Exit \/ Restart

Spec == Init /\ [][Next]_vars
=============================================================================
