-------------------------- MODULE MCPlexusClientCache --------------------------
(* Instances of PlexusClientCache for TLC. *)
EXTENDS PlexusClientCache, TLC

\* Requests and schemas are compared for equality and nothing else.
Symmetry == Permutations(Requests) \cup Permutations(Hashes)
===============================================================================
