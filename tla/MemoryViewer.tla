---------------------------- MODULE MemoryViewer ----------------------------
(***************************************************************************)
(* The memory viewer (weensyos/k-memviewer.cc): at every trap and while    *)
(* the kernel idles, memusage walks the page tables, marks each physical   *)
(* page with who uses it, and draws one symbol per page.  It never looks   *)
(* at the reference counts while processes exist, so what it draws is a    *)
(* second opinion on them.  Colours are left out.                          *)
(***************************************************************************)
EXTENDS WeensyKernel

f_kernel == -1
f_user   == -2

OwnerPages == 64   \* 0x40000 bytes: what one process owns before paging

\* Mutant: a process that has faulted is passed over.
MutantShown == {p \in 1..NPROC-1 : state[p] = "RUNNABLE" /\ root[p] # Null}

\* The processes whose page tables refresh() walks.
Shown == {p \in 1..NPROC-1 : state[p] # "FREE" /\ root[p] # Null}

\* ptiter visits the tables there are: a missing node is no page.
TablePage(p, q) == q # Null /\ (root[p] = q \/ \E n \in Nodes : tables[p][n] = q)
UserPage(p, q)  == \E va \in VA : user(map[p][va]) /\ map[p][va].pa = q

\* memusage::refresh, for one page: "kernel", "user" and process numbers.
\* Without processes, used pages go to the owner their address stands for.
Marks(q) ==
    IF Shown # {}
    THEN {p \in Shown : TablePage(p, q) \/ UserPage(p, q)}
         \cup (IF q = viewer \/ \E p \in Shown : TablePage(p, q) THEN {f_kernel} ELSE {})
         \cup (IF \E p \in Shown : UserPage(p, q) THEN {f_user} ELSE {})
    ELSE IF user(KernelEntry(q)) /\ q >= PROC_START /\ pages[q] # 0
         THEN {f_user, (q - PROC_START) \div OwnerPages + 1} ELSE {}

\* memusage::symbol_at; "error" stands for each of its page_error calls.
symbol_at(q) ==
    LET v == Marks(q)
        processes == v \ {f_kernel, f_user}
    IN CASE q = CONSOLE -> "C"
         [] q # CONSOLE /\ q \notin Allocatable ->
                IF processes # {} THEN "error" ELSE IF q = Null THEN "R" ELSE "K"
         [] q \in Allocatable \ {CONSOLE} ->
                IF v \subseteq {f_user} THEN "."
                ELSE IF v = {f_kernel} THEN "K"
                ELSE IF {f_kernel, f_user} \subseteq v THEN "error"
                ELSE IF Cardinality(processes) > 1 THEN "S" ELSE "one process"

\* While there are processes the drawing tells the truth about the allocator:
\* no page table error is reported, a page is drawn as free exactly when it is
\* free or all references to it have been lost by page_alloc, and a page drawn
\* as shared has a reference for each of its users.
DrawingTrue ==
    (Op("user") \/ Op("idle")) /\ Shown # {} /\ viewer # Null /\ ~starved =>
        /\ \A q \in Pages : symbol_at(q) # "error"
        /\ \A q \in Allocatable :
              /\ symbol_at(q) = "." <=> pages[q] = lost[q]
              /\ symbol_at(q) = "S" => pages[q] >= lost[q] + 2
=============================================================================
