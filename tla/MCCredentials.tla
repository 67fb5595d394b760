---------------------------- MODULE MCCredentials ----------------------------
(***************************************************************************)
(* Windows, ports and mounts that differ in nothing but their names.       *)
(***************************************************************************)
EXTENDS Credentials, TLC

Symmetry == Permutations(Windows) \cup Permutations(Mounts) \cup Permutations(Endpoints)
=============================================================================
