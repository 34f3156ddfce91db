---------------------------- MODULE MCWeensyKernel ----------------------------
(* A small machine: virtual memory has the console, two pages of program   *)
(* text, one of data, one for the heap and the stack; page tables have an  *)
(* upper node and a lower one; of the physical pages 0 is reserved, 2 is   *)
(* the console and 3 holds the kernel, so that allocatable pages lie on    *)
(* both sides of them.                                                     *)
EXTENDS MemoryViewer

MCSegments == {[first |-> 3, last |-> 4, writable |-> FALSE],
               [first |-> 5, last |-> 5, writable |-> TRUE]}
MCPath == [va \in VA |-> IF va < 6 THEN {1} ELSE {1, 2}]
MCAllocatable == {1} \cup 4..NPAGES-1

\* This machine meets the premise of the proof that it loads programs in order.
ASSUME MachineFits == ProgramsFit
=============================================================================
