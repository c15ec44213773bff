--------------------------- MODULE MCSphinxClients ---------------------------
(* The workers and their sphinx clients for TLC. *)
EXTENDS SphinxClients, TLC

Symmetry == Permutations(Client)
==============================================================================
