----------------------------- MODULE MCKvServer -----------------------------
(* Small instances of KvServer for TLC.                                    *)
EXTENDS KvServer, TLC

\* Workers and connections are interchangeable. For safety runs only.
Symmetry == Permutations(Workers) \cup Permutations(Clients)
=============================================================================
