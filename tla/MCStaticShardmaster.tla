------------------------ MODULE MCStaticShardmaster ------------------------
(* Small instances of StaticShardmaster for TLC.                           *)
EXTENDS StaticShardmaster, TLC

\* Connections are interchangeable. For safety runs only.
Symmetry == Permutations(Clients)
=============================================================================
