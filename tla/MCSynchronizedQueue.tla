------------------------ MODULE MCSynchronizedQueue ------------------------
(* Small instances of SynchronizedQueue for TLC.                           *)
EXTENDS SynchronizedQueue, TLC

\* Threads and elements are interchangeable. For safety runs only.
Symmetry == Permutations(Threads) \cup Permutations(Elts)
=============================================================================
